SPECIFICATION MCSpec
CONSTANTS
    MaxInt = 127
    Suffix = {"none", "k", "m", "g"}
    Multiplier <- MCMultiplier
    OtherSuffix = "x"
    NoNumber = NoNumber
    Numbers <- MCNumbers
    Unset = Unset
    Rejected = Rejected
    Raw <- MCRaw
    MaxNameLength = 3
    Refused = Refused
CHECK_DEADLOCK FALSE
INVARIANTS
    LimitAsWritten
    RepoDirIsItsOwn
    ArtifactFileIsItsOwn
