SPECIFICATION Spec
CONSTANTS
    RepoName = {r1}
    ArtifactName = {a1, a2}
    Upload = {u1, u2, u3}
    Download = {}
    CreateReq = {}
    UpdateReq = {p1}
    DeleteReq = {x1}
    Existing = {r1}
    Keep = {0, 1}
    Policies <- KeepOne
    Patches <- PatchDays
    Unset = Unset
    SerialUploads = FALSE
    NoFile = NoFile
    Partial = Partial
    Latest = Latest
    MaxClock = 0
    MaxRowId = 3
    MaxFaults = 1
SYMMETRY MCSymmetry
INVARIANTS
    WholeFiles
    NoTempLeft
    FilesOwned
    DeletionComplete
    OverwriteIsUndone
    StoreIntegrity
PROPERTIES
    IdsNeverReused
    CleanerTakesListed
