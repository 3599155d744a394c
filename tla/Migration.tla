------------------------------ MODULE Migration ------------------------------
(***************************************************************************)
(* The start of the server as far as its database goes: store/sqlite/      *)
(* migrate.go, OpenAndMigrate, with store.go, Open, and migrations.go.     *)
(* An earlier release fills artf0.db; then this one is installed.  A start *)
(* that finds artf0.db and no artf1.db copies all of it, in a transaction, *)
(* before it serves.  The process may be killed anywhere.                  *)
(*                                                                         *)
(* An accident is what no later step undoes: a killed process, an Open     *)
(* that fails after it has created artf1.db, a failed removal of it.       *)
(***************************************************************************)
EXTENDS Environment, SqliteStore, ApiKeyStore, LegacyStore

CONSTANT
    MaxAccidents    \* bound: how many accidents there are

ASSUME MigrationAssumption ==
    /\ MaxAccidents \in Nat
    /\ LegacyKeep \in Keep
    /\ LegacyHash = KeyHash
    /\ LegacyNever = Never
    /\ MaxLegacyId <= MaxRowId
    /\ MaxLegacyId <= MaxKeyId

VARIABLES
    oldExists,      \* artf0.db is there
    newDb,          \* artf1.db: absent, without tables, or with the schema
    accidents,      \* accidents so far
    mg              \* the process: its step, and what its transaction holds

migrationVars ==
    <<envVars, storeVars, keyVars, legacyVars, oldExists, newDb, accidents, mg>>

Rows == [keys : SUBSET ApiKey, repos : SUBSET Repo, artifacts : SUBSET Artifact]

NoRows == [keys |-> {}, repos |-> {}, artifacts |-> {}]

MigrationPc == {"legacy", "down", "stat", "ensure", "schema", "legacy db", "keys", "repos",
                "artifacts", "commit", "fail", "serving"}

MigrationTypeOK ==
    /\ EnvironmentTypeOK
    /\ StoreTypeOK
    /\ KeyTypeOK
    /\ LegacyTypeOK
    /\ oldExists \in BOOLEAN
    /\ newDb \in {"absent", "empty", "schema"}
    /\ accidents \in 0 .. MaxAccidents
    /\ mg \in [pc : MigrationPc, migrating : BOOLEAN, tx : Rows]

Legacy == [keys |-> lkeys, repos |-> lrepos, artifacts |-> lartifacts]

Current == [keys |-> keys, repos |-> repos, artifacts |-> artifacts]

\* An installation either has a release that uses bbolt running, or is new.
MigrationInit ==
    /\ EnvironmentInit
    /\ StoreInit
    /\ KeyInit
    /\ LegacyInit
    /\ oldExists \in BOOLEAN
    /\ newDb = "absent"
    /\ accidents = 0
    /\ mg = [pc |-> IF oldExists THEN "legacy" ELSE "down", migrating |-> FALSE, tx |-> NoRows]

-----------------------------------------------------------------------------

tables == <<storeVars, keyVars>>

Goto(pc) == mg' = [mg EXCEPT !.pc = pc]

Down == mg' = [pc |-> "down", migrating |-> FALSE, tx |-> NoRows]

Accident ==
    /\ accidents < MaxAccidents
    /\ accidents' = accidents + 1
    /\ UNCHANGED envVars

NoAccident == NoFault /\ UNCHANGED accidents

StepFault == Fault /\ UNCHANGED accidents

\* The earlier release at work.
LegacyRelease ==
    /\ mg.pc = "legacy"
    /\ LegacyNext
    /\ NoAccident
    /\ UNCHANGED <<tables, oldExists, newDb, mg>>

\* The earlier release stops for good.
Upgrade ==
    /\ mg.pc = "legacy"
    /\ Down
    /\ NoAccident
    /\ UNCHANGED <<tables, legacyVars, oldExists, newDb>>

Start ==
    /\ mg.pc = "down"
    /\ Goto("stat")
    /\ NoAccident
    /\ UNCHANGED <<tables, legacyVars, oldExists, newDb>>

\* fileExists of both, 39-60.
Stat ==
    /\ mg.pc = "stat"
    /\ \/ /\ mg' = [mg EXCEPT !.pc = "ensure", !.migrating = newDb = "absent" /\ oldExists]
          /\ NoAccident
       \/ /\ Down
          /\ StepFault
    /\ UNCHANGED <<tables, legacyVars, oldExists, newDb>>

\* ensureFile, store.go 34-37 and 66-77.
EnsureFile ==
    /\ mg.pc = "ensure"
    /\ \/ /\ newDb' = IF newDb = "absent" THEN "empty" ELSE newDb
          /\ Goto("schema")
          /\ NoAccident
       \/ /\ Down
          /\ StepFault
          /\ UNCHANGED newDb
    /\ UNCHANGED <<tables, legacyVars, oldExists>>

\* Mutant: migration 1 runs whether or not it is recorded in versions.
SchemaApplicableMutant == newDb = "empty"

\* A migration that is recorded is passed over, one that is not is applied.
SchemaApplicable == newDb \in {"empty", "schema"}

\* Ping and applyMigrations, store.go 45-62 and migrations.go 59-130: the
\* tables and their version are one transaction.
Schema ==
    /\ mg.pc = "schema"
    /\ \/ /\ SchemaApplicable
          /\ newDb' = "schema"
          /\ Goto(IF mg.migrating THEN "legacy db" ELSE "serving")
          /\ NoAccident
       \/ /\ Down
          /\ IF SchemaApplicable THEN Accident ELSE NoAccident
          /\ UNCHANGED newDb
    /\ UNCHANGED <<tables, legacyVars, oldExists>>

-----------------------------------------------------------------------------
(* runBboltMigration, 76-150. *)

\* bbolt.Open, which waits five seconds for the lock of another process, and
\* BeginTx, 77-92.
OpenLegacy ==
    /\ mg.pc = "legacy db"
    /\ \/ /\ Goto("keys")
          /\ NoAccident
       \/ /\ Goto("fail")
          /\ StepFault
    /\ UNCHANGED <<tables, legacyVars, oldExists, newDb>>

\* Rows of a table go in as long as its constraints hold; the first that is
\* refused, or that fails, ends the migration.
Insert(table, rows, accepted, next) ==
    /\ \/ /\ accepted
          /\ mg' = [mg EXCEPT !.tx[table] = rows, !.pc = next]
          /\ NoAccident
       \/ /\ Goto("fail")
          /\ IF accepted THEN StepFault ELSE NoAccident
    /\ UNCHANGED <<tables, legacyVars, oldExists, newDb>>

\* Mutant: the statements for the keys go to the database, not to the
\* transaction.
CopyKeysMutant ==
    /\ mg.pc = "keys"
    /\ keys' = lkeys
    /\ mg' = [mg EXCEPT !.tx.keys = lkeys, !.pc = "repos"]
    /\ NoAccident
    /\ UNCHANGED <<storeVars, keySeq, legacyVars, oldExists, newDb>>

\* List and INSERT, 95-112.
CopyKeys ==
    /\ mg.pc = "keys"
    /\ Insert("keys", lkeys, \A k, l \in lkeys : k.hash = l.hash => k = l, "repos")

\* 114-129.
CopyRepos ==
    /\ mg.pc = "repos"
    /\ Insert("repos", lrepos, \A r, s \in lrepos : r.name = s.name => r = s, "artifacts")

\* Mutant: the references of artifacts are not enforced.
ArtifactsAcceptedMutant == TRUE

\* REFERENCES repos(id), and the unique index.
ArtifactsAccepted ==
    /\ \A a \in lartifacts : \E r \in mg.tx.repos : r.id = a.repoId
    /\ \A a, b \in lartifacts : a.repoId = b.repoId /\ a.name = b.name => a = b

\* 131-144.
CopyArtifacts ==
    /\ mg.pc = "artifacts"
    /\ Insert("artifacts", lartifacts, ArtifactsAccepted, "commit")

\* What AUTOINCREMENT has seen once explicit ids were inserted.
LargestId(rows) == CHOOSE i \in 0 .. MaxLegacyId :
    /\ \A r \in rows : r.id <= i
    /\ i = 0 \/ \E r \in rows : r.id = i

\* 146-148.
Commit ==
    /\ mg.pc = "commit"
    /\ \/ /\ keys' = mg.tx.keys
          /\ repos' = mg.tx.repos
          /\ artifacts' = mg.tx.artifacts
          /\ keySeq' = LargestId(keys')
          /\ repoSeq' = LargestId(repos')
          /\ artifactSeq' = LargestId(artifacts')
          /\ mg' = [mg EXCEPT !.pc = "serving", !.tx = NoRows]
          /\ NoAccident
       \/ /\ Goto("fail")
          /\ StepFault
          /\ UNCHANGED tables
    /\ UNCHANGED <<legacyVars, oldExists, newDb>>

NoTables ==
    /\ keys' = {} /\ keySeq' = 0
    /\ repos' = {} /\ repoSeq' = 0
    /\ artifacts' = {} /\ artifactSeq' = 0

\* Mutant: the database stays where it is.
FailMutant ==
    /\ mg.pc = "fail"
    /\ Down
    /\ NoAccident
    /\ UNCHANGED <<tables, newDb, legacyVars, oldExists>>

\* Close and removeSQLiteFiles, 67-71 and 163-169.
Fail ==
    /\ mg.pc = "fail"
    /\ Down
    /\ \/ /\ newDb' = "absent"
          /\ NoTables
          /\ NoAccident
       \/ /\ Accident
          /\ UNCHANGED <<tables, newDb>>
    /\ UNCHANGED <<legacyVars, oldExists>>

\* The process is killed; SQLite rolls an open transaction back.
Kill ==
    /\ mg.pc \notin {"legacy", "down"}
    /\ Down
    /\ Accident
    /\ UNCHANGED <<tables, legacyVars, oldExists, newDb>>

\* The process is stopped in order.
Stop ==
    /\ mg.pc = "serving"
    /\ Down
    /\ NoAccident
    /\ UNCHANGED <<tables, legacyVars, oldExists, newDb>>

MigrationNext ==
    \/ LegacyRelease
    \/ Upgrade
    \/ Start
    \/ Stat
    \/ EnsureFile
    \/ Schema
    \/ OpenLegacy
    \/ CopyKeys
    \/ CopyRepos
    \/ CopyArtifacts
    \/ Commit
    \/ Fail
    \/ Kill
    \/ Stop

MigrationSpec == MigrationInit /\ [][MigrationNext]_migrationVars

-----------------------------------------------------------------------------

\* The tables hold all of the legacy data or nothing, at every moment and
\* after a kill at any step (migrate.go:88-92: one transaction).
AllOrNothing == Current = NoRows \/ Current = Legacy

\* However often a start fails, at whatever step of the copying, the server
\* never serves without the legacy data as long as there was no accident
\* (migrate.go:67-71, which removes the database it has made).
RetriesUntilMigrated ==
    mg.pc = "serving" /\ accidents = 0 => Current = Legacy

\* The server serves tables that keep the schema's promises, whatever the
\* bbolt database had in it, and their ids go on above the migrated ones
\* (migrations.go: the indexes, the reference, AUTOINCREMENT).
MigratedIntegrity == StoreIntegrity /\ KeyIntegrity

\* A start fails only if something fails in it, or the legacy data break a
\* constraint: no file that an earlier start has left behind stops a later one
\* (store.go:66, migrations.go:60-89).
Migratable ==
    /\ \A r, s \in lrepos : r.name = s.name => r = s
    /\ \A a \in lartifacts : \E r \in lrepos : r.id = a.repoId

StartFailsForAReason ==
    [][mg.pc \notin {"legacy", "fail", "serving"} /\ mg'.pc \in {"fail", "down"} /\ Migratable
           => faults' # faults \/ accidents' # accidents]_migrationVars

\* migrate.go:50, "migration already complete; artf0.db may be archived": a
\* start that finds both files says so of any artf1.db.  One that a kill left
\* behind in the middle of the migration is empty, and the start serves it.
MigrationIsComplete ==
    mg.pc = "serving" /\ oldExists => Current = Legacy
=============================================================================
