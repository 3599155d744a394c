SPECIFICATION Spec
CONSTANTS
    RepoName = {r1}
    ArtifactName = {a1}
    Upload = {u1, u2}
    Download = {}
    CreateReq = {}
    UpdateReq = {}
    DeleteReq = {}
    Existing = {r1}
    Keep = {0, 1}
    Policies <- KeepAll
    Patches <- NoPatches
    Unset = Unset
    SerialUploads = FALSE
    NoFile = NoFile
    Partial = Partial
    Latest = Latest
    MaxClock = 0
    MaxRowId = 3
    MaxFaults = 0
SYMMETRY MCSymmetry
INVARIANTS
    ConflictWithoutOverwrite
