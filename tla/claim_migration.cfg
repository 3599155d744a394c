SPECIFICATION MigrationSpec
CONSTANTS
    RepoName = {r1, r2}
    ArtifactName = {a1}
    Upload = {u1}
    Keep = {0}
    LegacyKeep = 0
    KeyHash = {k1}
    LegacyHash = {k1}
    Never = Never
    LegacyNever = Never
    MaxRowId = 2
    MaxKeyId = 2
    MaxLegacyId = 2
    MaxClock = 0
    MaxFaults = 0
    MaxAccidents = 1
SYMMETRY MCSymmetry
INVARIANTS
    MigrationIsComplete
