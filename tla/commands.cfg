SPECIFICATION CommandSpec
CONSTANTS
    RepoName = {r1, r2}
    ArtifactName = {a1}
    Upload = {u1}
    Command = {c1, c2, c3}
    CreateReq = {c1, c2, c3}
    UpdateReq = {c1, c2, c3}
    DeleteReq = {c1, c2, c3}
    Existing = {r1}
    Keep = {0}
    Policies <- MCPolicies
    Patches <- MCPolicies
    Unset = Unset
    SerialUploads = FALSE
    NoFile = NoFile
    Partial = Partial
    MaxClock = 0
    MaxRowId = 3
    MaxFaults = 1
SYMMETRY MCSymmetry
CHECK_DEADLOCK FALSE
INVARIANTS
    SuccessMeansDone
    CreatedOnce
PROPERTIES
    RemovesWhatWasShown
    AddsWhatWasAsked
