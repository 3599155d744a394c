SPECIFICATION Spec
CONSTANTS
    RepoName = {r1}
    ArtifactName = {a1, a2}
    Upload = {u1, u2, u3}
    Download = {}
    CreateReq = {c1}
    UpdateReq = {}
    DeleteReq = {x1}
    Existing = {r1}
    Keep = {0, 1}
    Policies <- KeepAllOrOne
    Patches <- NoPatches
    Unset = Unset
    SerialUploads = TRUE
    NoFile = NoFile
    Partial = Partial
    Latest = Latest
    MaxClock = 0
    MaxRowId = 3
    MaxFaults = 0
SYMMETRY MCSymmetry
PROPERTIES
    KeepAllIsKept
