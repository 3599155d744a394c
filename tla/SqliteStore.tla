----------------------------- MODULE SqliteStore -----------------------------
(***************************************************************************)
(* The SQLite database of store/sqlite: the tables repos and artifacts     *)
(* with the constraints of migration 1, and one action per statement that  *)
(* changes them.  Every statement runs in a transaction of its own, so an  *)
(* action here is one transaction; whatever happens between two statements *)
(* of a request is the business of the handlers.                           *)
(*                                                                         *)
(* A row carries the columns that some decision of the program reads: type *)
(* and updated_at are left out, and the path of a repository, "repos/" and *)
(* its name, is its name.                                                  *)
(***************************************************************************)
EXTENDS ArtfData

CONSTANTS
    Keep,           \* values of keep_count and keep_days
    MaxRowId        \* bound: the largest id of a table (2^63 - 1 in SQLite)

ASSUME StoreAssumption ==
    /\ Keep \subseteq Int
    /\ MaxRowId \in Nat

VARIABLES
    repos,          \* rows of table repos
    artifacts,      \* rows of table artifacts
    repoSeq,        \* sqlite_sequence of repos: the largest id ever given out
    artifactSeq     \* sqlite_sequence of artifacts

storeVars == <<repos, artifacts, repoSeq, artifactSeq>>

Policy == [keepCount : Keep, keepDays : Keep]

Repo == [id : Nat, name : RepoName, keepCount : Keep, keepDays : Keep]

Artifact == [id : Nat, name : ArtifactName, repoId : Nat, path : Path,
             sha : Upload, createdAt : Instant]

StoreTypeOK ==
    /\ repos \subseteq Repo
    /\ artifacts \subseteq Artifact
    /\ repoSeq \in 0 .. MaxRowId
    /\ artifactSeq \in 0 .. MaxRowId

StoreInit ==
    /\ repos = {}
    /\ artifacts = {}
    /\ repoSeq = 0
    /\ artifactSeq = 0

-----------------------------------------------------------------------------
(* Queries. *)

ReposNamed(n) == {r \in repos : r.name = n}

ReposWithId(i) == {r \in repos : r.id = i}

ArtifactsOf(i) == {a \in artifacts : a.repoId = i}

ArtifactsNamed(i, n) == {a \in ArtifactsOf(i) : a.name = n}

\* ORDER BY id DESC LIMIT 1: a set of at most one row.
LatestOf(i) == {a \in ArtifactsOf(i) : \A b \in ArtifactsOf(i) : b.id <= a.id}

-----------------------------------------------------------------------------
(* The ids that AUTOINCREMENT gives out: above every id the table ever had. *)

\* Mutant: INTEGER PRIMARY KEY without AUTOINCREMENT.
NextRepoIdMutant ==
    CHOOSE i \in 1 .. repoSeq + 1 :
        /\ \A r \in repos : r.id < i
        /\ i = 1 \/ ReposWithId(i - 1) # {}

NextRepoId == repoSeq + 1

NextArtifactId == artifactSeq + 1

-----------------------------------------------------------------------------
(* Statements.  The guard of each says when SQLite accepts it; a statement *)
(* it rejects leaves the tables alone.                                     *)

\* Mutant: the index is not unique.
RepoCreatableMutant(n) == repoSeq < MaxRowId

\* UNIQUE INDEX repos_name_idx.
RepoCreatable(n) ==
    /\ ReposNamed(n) = {}
    /\ repoSeq < MaxRowId

RepoCreate(n, policy) ==
    /\ RepoCreatable(n)
    /\ repos' = repos \union
           {[id |-> NextRepoId, name |-> n,
             keepCount |-> policy.keepCount, keepDays |-> policy.keepDays]}
    /\ repoSeq' = IF repoSeq < NextRepoId THEN NextRepoId ELSE repoSeq
    /\ UNCHANGED <<artifacts, artifactSeq>>

\* Mutant: INSERT OR REPLACE in place of UPDATE.
RepoUpdatableMutant(row) == TRUE

\* UPDATE writes every column of the row, from the caller's copy of it.
RepoUpdatable(row) == ReposWithId(row.id) # {} /\ ReposNamed(row.name) \subseteq ReposWithId(row.id)

RepoUpdate(row) ==
    /\ RepoUpdatable(row)
    /\ repos' = (repos \ ReposWithId(row.id)) \union {row}
    /\ UNCHANGED <<artifacts, repoSeq, artifactSeq>>

\* Mutant: the reference is not enforced (PRAGMA foreign_keys off).
RepoDeletableMutant(i) == ReposWithId(i) # {}

\* REFERENCES repos(id) ON DELETE RESTRICT.
RepoDeletable(i) ==
    /\ ReposWithId(i) # {}
    /\ ArtifactsOf(i) = {}

RepoDelete(i) ==
    /\ RepoDeletable(i)
    /\ repos' = repos \ ReposWithId(i)
    /\ UNCHANGED <<artifacts, repoSeq, artifactSeq>>

\* UNIQUE INDEX artifacts_repo_name_idx.
ArtifactTaken(i, n) == ArtifactsNamed(i, n) # {}

ArtifactCreatable(i, n) ==
    /\ ReposWithId(i) # {}
    /\ ~ ArtifactTaken(i, n)
    /\ artifactSeq < MaxRowId

ArtifactCreate(i, path, sha, createdAt) ==
    /\ ArtifactCreatable(i, path[2])
    /\ artifacts' = artifacts \union
           {[id |-> NextArtifactId, name |-> path[2], repoId |-> i,
             path |-> path, sha |-> sha, createdAt |-> createdAt]}
    /\ artifactSeq' = NextArtifactId
    /\ UNCHANGED <<repos, repoSeq>>

\* DELETE ... WHERE id = ?; without such a row, the caller gets ErrNotFound.
ArtifactDelete(i) ==
    /\ artifacts' = {a \in artifacts : a.id # i}
    /\ UNCHANGED <<repos, repoSeq, artifactSeq>>

ArtifactDeleteByRepo(i) ==
    /\ artifacts' = artifacts \ ArtifactsOf(i)
    /\ UNCHANGED <<repos, repoSeq, artifactSeq>>

-----------------------------------------------------------------------------
(* The store under any sequence of calls.  Its callers give a new artifact *)
(* the path "repos/<repo>/<name>" and update a row they have read.         *)

StoreNext ==
    \/ \E n \in RepoName, p \in Policy : RepoCreate(n, p)
    \/ \E i \in 1 .. repoSeq, n \in RepoName, k, d \in Keep :
           RepoUpdate([id |-> i, name |-> n, keepCount |-> k, keepDays |-> d])
    \/ \E i \in 1 .. repoSeq : RepoDelete(i)
    \/ \E i \in 1 .. repoSeq, path \in Path, u \in Upload, t \in Instant :
           ArtifactCreate(i, path, u, t)
    \/ \E i \in 1 .. artifactSeq : ArtifactDelete(i)
    \/ \E i \in 1 .. repoSeq : ArtifactDeleteByRepo(i)

StoreSpec == StoreInit /\ [][StoreNext]_storeVars

-----------------------------------------------------------------------------
(* Properties of the store. *)

UniqueRepos ==
    \A r, s \in repos : r.id = s.id \/ r.name = s.name => r = s

UniqueArtifacts ==
    \A a, b \in artifacts :
        a.id = b.id \/ (a.repoId = b.repoId /\ a.name = b.name) => a = b

ForeignKeys == \A a \in artifacts : \E r \in repos : r.id = a.repoId

IdsFromSequence ==
    /\ \A r \in repos : r.id \in 1 .. repoSeq
    /\ \A a \in artifacts : a.id \in 1 .. artifactSeq

\* The schema's promises hold of the tables after any sequence of calls: ids
\* and names identify rows, and every artifact belongs to a repository
\* (migrations.go: the unique indexes and ON DELETE RESTRICT).
StoreIntegrity == UniqueRepos /\ UniqueArtifacts /\ ForeignKeys /\ IdsFromSequence

\* An id whose row is gone never names another row (migrations.go: the
\* AUTOINCREMENT of both tables).  A cleaner or an administrator who still
\* holds the id of a deleted row therefore cannot hit a row made since.
IdsNeverReused ==
    [][/\ \A i \in 1 .. artifactSeq :
              (\A a \in artifacts : a.id # i) => (\A a \in artifacts' : a.id # i)
       /\ \A i \in 1 .. repoSeq :
              (\A r \in repos : r.id # i) => (\A r \in repos' : r.id # i)]_storeVars
=============================================================================
