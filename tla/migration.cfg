SPECIFICATION MigrationSpec
CONSTANTS
    RepoName = {r1, r2}
    ArtifactName = {a1}
    Upload = {u1}
    Keep = {0}
    LegacyKeep = 0
    KeyHash = {k1}
    LegacyHash = {k1}
    Never = Never
    LegacyNever = Never
    MaxRowId = 2
    MaxKeyId = 2
    MaxLegacyId = 2
    MaxClock = 0
    MaxFaults = 1
    MaxAccidents = 1
SYMMETRY MCSymmetry
INVARIANTS
    AllOrNothing
    RetriesUntilMigrated
    MigratedIntegrity
    LegacyIndexSound
PROPERTIES
    StartFailsForAReason
