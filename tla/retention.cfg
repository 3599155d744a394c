SPECIFICATION FairSpec
CONSTANTS
    RepoName = {r1}
    ArtifactName = {a1, a2}
    Upload = {u1, u2}
    Download = {}
    CreateReq = {}
    UpdateReq = {p1}
    DeleteReq = {}
    Existing = {r1}
    Keep <- NegativeToOne
    Policies <- KeepOneDayOrNegative
    Patches <- PatchDays
    Unset = Unset
    SerialUploads = TRUE
    NoFile = NoFile
    Partial = Partial
    Latest = Latest
    MaxClock = 2
    MaxRowId = 3
    MaxFaults = 1
PROPERTIES
    RetentionSafe
    ExpiredRemoved
