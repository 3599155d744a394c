SPECIFICATION Spec
CONSTANTS
    RepoName = {r1}
    ArtifactName = {a1, a2}
    Upload = {u1, u2}
    Download = {d1}
    CreateReq = {c1}
    UpdateReq = {}
    DeleteReq = {x1}
    Existing = {r1}
    Keep = {0, 1}
    Policies <- KeepOne
    Patches <- NoPatches
    Unset = Unset
    SerialUploads = TRUE
    NoFile = NoFile
    Partial = Partial
    Latest = Latest
    MaxClock = 0
    MaxRowId = 3
    MaxFaults = 1
SYMMETRY MCSymmetry
INVARIANTS
    TypeOK
    FilesOwned
    ChecksumOfBody
    DeletionComplete
    FolderStays
PROPERTIES
    RecordKeepsFile
    PublishesOnce
