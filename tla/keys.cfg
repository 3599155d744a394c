SPECIFICATION KeyCommandSpec
CONSTANTS
    KeyHash = {c1, c2}
    CreateKeyReq = {c1, c2}
    DeleteKeyReq = {d1, d2}
    KeyName = {n1}
    NoItem = NoItem
    Request = {q1, q2}
    Never = Never
    MaxKeyId = 2
    MaxClock = 3
    MaxFaults = 1
SYMMETRY MCSymmetry
CONSTRAINT MCInstances
CHECK_DEADLOCK FALSE
INVARIANTS
    RevokedStaysOut
    DeletedOnce
    StampsOwnKey
PROPERTIES
    UseIsRecorded
    RemovesKeyShown
    PrintedKeyOpens
