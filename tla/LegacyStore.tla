----------------------------- MODULE LegacyStore -----------------------------
(***************************************************************************)
(* The bbolt database of store/bblt, artf0.db, that earlier releases       *)
(* wrote: buckets of gob records under the big-endian id, a sequence per   *)
(* bucket, and a bucket "index" from repository names and key hashes to    *)
(* ids.  Every method is one bbolt transaction and one action here.  There *)
(* are no constraints beyond the checks of the methods: nothing keeps two  *)
(* repositories from having one name, or an artifact from outliving its    *)
(* repository.                                                             *)
(***************************************************************************)
EXTENDS ArtfData

CONSTANTS
    LegacyKeep,         \* the keep_count and keep_days of every repository
    LegacyHash,         \* hashes of API keys, one for each generated key
    LegacyNever,        \* LastUsedAt == nil
    MaxLegacyId         \* bound: the largest id of a bucket

ASSUME LegacyAssumption ==
    /\ MaxLegacyId \in Nat
    /\ RepoName \intersect LegacyHash = {}

VARIABLES
    lrepos,             \* bucket repos
    lartifacts,         \* bucket artifacts
    lkeys,              \* bucket apiKeys
    lseq,               \* the sequences of the three buckets
    lindex              \* bucket index: ids by "repoName:..." and "apiKey:..."

legacyVars == <<lrepos, lartifacts, lkeys, lseq, lindex>>

NoId == 0

LegacyRepo == [id : Nat, name : RepoName, keepCount : {LegacyKeep}, keepDays : {LegacyKeep}]

LegacyArtifact == [id : Nat, name : ArtifactName, repoId : Nat, path : Path, sha : Upload,
                   createdAt : Instant]

LegacyKey == [id : Nat, hash : LegacyHash, readOnly : BOOLEAN,
              lastUsed : Instant \union {LegacyNever}]

LegacyTypeOK ==
    /\ lrepos \subseteq LegacyRepo
    /\ lartifacts \subseteq LegacyArtifact
    /\ lkeys \subseteq LegacyKey
    /\ lseq \in [{"repos", "artifacts", "keys"} -> 0 .. MaxLegacyId]
    /\ lindex \in [RepoName \union LegacyHash -> Nat]

LegacyInit ==
    /\ lrepos = {}
    /\ lartifacts = {}
    /\ lkeys = {}
    /\ lseq = [bucket \in {"repos", "artifacts", "keys"} |-> 0]
    /\ lindex = [e \in RepoName \union LegacyHash |-> NoId]

LegacyReposWithId(i) == {r \in lrepos : r.id = i}

LegacyKeysWithId(i) == {k \in lkeys : k.id = i}

LegacyArtifactsOf(i) == {a \in lartifacts : a.repoId = i}

\* GetByName and GetByKey: by way of the index.
LegacyReposNamed(n) == LegacyReposWithId(lindex[n])

LegacyKeysWithHash(h) == LegacyKeysWithId(lindex[h])

\* NextSequence.
Advance(bucket) ==
    /\ lseq[bucket] < MaxLegacyId
    /\ lseq' = [lseq EXCEPT ![bucket] = @ + 1]

-----------------------------------------------------------------------------
(* Repositories: repos.go. *)

\* Create, 43-88: the index entry of another repository of that name is
\* overwritten.
LegacyRepoCreate(n) ==
    /\ Advance("repos")
    /\ lrepos' = lrepos \union
           {[id |-> lseq'["repos"], name |-> n, keepCount |-> LegacyKeep, keepDays |-> LegacyKeep]}
    /\ lindex' = [lindex EXCEPT ![n] = lseq'["repos"]]
    /\ UNCHANGED <<lartifacts, lkeys>>

\* Mutant: the index entry stays.
LegacyRepoDeleteMutant(r) ==
    /\ r \in lrepos
    /\ lrepos' = lrepos \ {r}
    /\ UNCHANGED <<lartifacts, lkeys, lseq, lindex>>

\* Delete, 91-125: the index entry of the name goes, whatever it points to;
\* artifacts stay.
LegacyRepoDelete(r) ==
    /\ r \in lrepos
    /\ lrepos' = lrepos \ {r}
    /\ lindex' = [lindex EXCEPT ![r.name] = NoId]
    /\ UNCHANGED <<lartifacts, lkeys, lseq>>

\* Update, 217-260: of a repository that is there; its name may change.
LegacyRepoUpdate(r, n) ==
    /\ r \in lrepos
    /\ lrepos' = (lrepos \ {r}) \union {[r EXCEPT !.name = n]}
    /\ lindex' = [lindex EXCEPT ![r.name] = NoId, ![n] = r.id]
    /\ UNCHANGED <<lartifacts, lkeys, lseq>>

-----------------------------------------------------------------------------
(* Artifacts: artifacts.go. *)

\* Create, 37-85: unique by repository and name; whether there is such a
\* repository is not asked.
LegacyArtifactCreate(i, path, sha, createdAt) ==
    /\ \A a \in LegacyArtifactsOf(i) : a.name # path[2]
    /\ Advance("artifacts")
    /\ lartifacts' = lartifacts \union
           {[id |-> lseq'["artifacts"], name |-> path[2], repoId |-> i, path |-> path,
             sha |-> sha, createdAt |-> createdAt]}
    /\ UNCHANGED <<lrepos, lkeys, lindex>>

\* Delete, 326-347.
LegacyArtifactDelete(a) ==
    /\ a \in lartifacts
    /\ lartifacts' = lartifacts \ {a}
    /\ UNCHANGED <<lrepos, lkeys, lseq, lindex>>

\* DeleteByRepo, 281-323.
LegacyArtifactDeleteByRepo(i) ==
    /\ lartifacts' = lartifacts \ LegacyArtifactsOf(i)
    /\ UNCHANGED <<lrepos, lkeys, lseq, lindex>>

-----------------------------------------------------------------------------
(* API keys: apikeys.go. *)

\* Create, 26-74: of a generated key, whose hash is new.
LegacyKeyCreate(h, readOnly) ==
    /\ \A k \in lkeys : k.hash # h
    /\ Advance("keys")
    /\ lkeys' = lkeys \union
           {[id |-> lseq'["keys"], hash |-> h, readOnly |-> readOnly, lastUsed |-> LegacyNever]}
    /\ lindex' = [lindex EXCEPT ![h] = lseq'["keys"]]
    /\ UNCHANGED <<lrepos, lartifacts>>

\* Delete, 77-112.
LegacyKeyDelete(k) ==
    /\ k \in lkeys
    /\ lkeys' = lkeys \ {k}
    /\ lindex' = [lindex EXCEPT ![k.hash] = NoId]
    /\ UNCHANGED <<lrepos, lartifacts, lseq>>

\* UpdateLastUsed, 205-227: the record is read and written in one transaction.
LegacyKeyTouch(k, t) ==
    /\ k \in lkeys
    /\ lkeys' = (lkeys \ {k}) \union {[k EXCEPT !.lastUsed = t]}
    /\ UNCHANGED <<lrepos, lartifacts, lseq, lindex>>

-----------------------------------------------------------------------------

LegacyNext ==
    \/ \E n \in RepoName : LegacyRepoCreate(n)
    \/ \E r \in lrepos : LegacyRepoDelete(r)
    \/ \E r \in lrepos, n \in RepoName : LegacyRepoUpdate(r, n)
    \/ \E i \in 1 .. lseq["repos"], path \in Path, u \in Upload, t \in Instant :
           LegacyArtifactCreate(i, path, u, t)
    \/ \E a \in lartifacts : LegacyArtifactDelete(a)
    \/ \E i \in 1 .. lseq["repos"] : LegacyArtifactDeleteByRepo(i)
    \/ \E h \in LegacyHash, readOnly \in BOOLEAN : LegacyKeyCreate(h, readOnly)
    \/ \E k \in lkeys : LegacyKeyDelete(k)
    \/ \E k \in lkeys, t \in Instant : LegacyKeyTouch(k, t)

\* What the index denotes is there and has that name or hash: a lookup never
\* ends in a record of another name, nor in ErrNotFound after an entry was
\* found (repos.go:157-186, apikeys.go:146-174), although two repositories may
\* share an entry.
LegacyIndexSound ==
    /\ \A n \in RepoName : lindex[n] # NoId =>
           \E r \in LegacyReposNamed(n) : r.name = n
    /\ \A h \in LegacyHash : lindex[h] # NoId =>
           \E k \in LegacyKeysWithHash(h) : k.hash = h
=============================================================================
