--------------------------- MODULE MigrationProofs ---------------------------
(***************************************************************************)
(* Proofs about LegacyStore and Migration, for databases of any size and   *)
(* any number of faults and kills.                                         *)
(*                                                                         *)
(* MigInv ties the three places of the data together: the bbolt file, the  *)
(* transaction of the process and the tables.  The transaction holds what  *)
(* has been copied so far; the tables are empty until it commits; and a    *)
(* file that is there without an accident, while nothing is being copied,  *)
(* is a complete one.  ServedInv adds what rows were checked for on their  *)
(* way in, and so what the tables promise that the server gets.            *)
(***************************************************************************)
EXTENDS Migration, TLAPS, WellFoundedInduction

-----------------------------------------------------------------------------
(* The bbolt database. *)

\* Ids are below the sequence and identify records: the key of the bucket.
LegacyIdsUnique ==
    /\ \A r \in lrepos : r.id \in 1 .. lseq["repos"]
    /\ \A a \in lartifacts : a.id \in 1 .. lseq["artifacts"]
    /\ \A k \in lkeys : k.id \in 1 .. lseq["keys"]
    /\ \A r, s \in lrepos : r.id = s.id => r = s
    /\ \A a, b \in lartifacts : a.id = b.id => a = b
    /\ \A k, l \in lkeys : k.id = l.id => k = l

LegacyInv == LegacyTypeOK /\ LegacyIdsUnique /\ LegacyIndexSound

Buckets == {"repos", "artifacts", "keys"}

LEMMA AdvanceType ==
  ASSUME LegacyTypeOK, NEW bucket \in Buckets, Advance(bucket)
  PROVE  /\ lseq' \in [Buckets -> 0 .. MaxLegacyId]
         /\ lseq'[bucket] = lseq[bucket] + 1
         /\ lseq'[bucket] \in Nat \ {0}
         /\ \A b \in Buckets \ {bucket} : lseq'[b] = lseq[b]
  <1>1. lseq \in [Buckets -> 0 .. MaxLegacyId] /\ MaxLegacyId \in Nat
    BY LegacyAssumption DEF LegacyTypeOK, Buckets
  <1>2. lseq[bucket] \in 0 .. MaxLegacyId /\ lseq[bucket] < MaxLegacyId
    BY <1>1 DEF Advance
  <1>3. lseq' = [lseq EXCEPT ![bucket] = lseq[bucket] + 1]
    BY DEF Advance
  <1> QED
    BY <1>1, <1>2, <1>3

LEMMA LegacyRepoStep ==
  ASSUME LegacyTypeOK, LegacyIdsUnique, LegacyIndexSound,
         \/ \E n \in RepoName : LegacyRepoCreate(n)
         \/ \E r \in lrepos : LegacyRepoDelete(r)
         \/ \E r \in lrepos, n \in RepoName : LegacyRepoUpdate(r, n)
  PROVE  LegacyTypeOK' /\ LegacyIdsUnique' /\ LegacyIndexSound'
  <1>1. lkeys' = lkeys /\ lartifacts' = lartifacts
    BY DEF LegacyRepoCreate, LegacyRepoDelete, LegacyRepoUpdate
  <1>2. ASSUME NEW n \in RepoName, LegacyRepoCreate(n)
        PROVE  LegacyTypeOK' /\ LegacyIdsUnique' /\ LegacyIndexSound'
    <2> DEFINE row == [id |-> lseq'["repos"], name |-> n, keepCount |-> LegacyKeep,
                       keepDays |-> LegacyKeep]
    <2>1. /\ lseq' \in [Buckets -> 0 .. MaxLegacyId]
          /\ lseq'["repos"] = lseq["repos"] + 1
          /\ lseq'["repos"] \in Nat \ {0}
          /\ lseq'["keys"] = lseq["keys"]
          /\ lseq'["artifacts"] = lseq["artifacts"]
      BY <1>2, AdvanceType DEF LegacyRepoCreate, Buckets
    <2>2. /\ lrepos' = lrepos \union {row}
          /\ lindex' = [lindex EXCEPT ![n] = lseq'["repos"]]
      BY <1>2 DEF LegacyRepoCreate
    <2>3. row \in LegacyRepo /\ row.id = lseq'["repos"] /\ row.name = n
      BY <2>1 DEF LegacyRepo
    <2>4. LegacyTypeOK'
      BY <1>1, <2>1, <2>2, <2>3 DEF LegacyTypeOK, Buckets
    <2>5. \A r \in lrepos : r.id \in Nat /\ r.id # row.id
      BY <2>1, <2>3, LegacyAssumption DEF LegacyIdsUnique, LegacyTypeOK, LegacyRepo
    <2>6. \A r \in lrepos' : r.id \in 1 .. lseq'["repos"]
      BY <2>1, <2>2, <2>3, LegacyAssumption DEF LegacyIdsUnique, LegacyTypeOK
    <2>7. LegacyIdsUnique'
      BY <1>1, <2>1, <2>2, <2>5, <2>6 DEF LegacyIdsUnique
    <2>8. LegacyIndexSound'
      <3>1. ASSUME NEW m \in RepoName, lindex'[m] # NoId
            PROVE  \E r \in LegacyReposNamed(m)' : r.name = m
        <4>1. CASE m = n
          BY <2>2, <2>3, <4>1 DEF LegacyTypeOK, LegacyReposNamed, LegacyReposWithId
        <4>2. CASE m # n
          BY <2>2, <3>1, <4>2
          DEF LegacyTypeOK, LegacyIndexSound, LegacyReposNamed, LegacyReposWithId
        <4> QED
          BY <4>1, <4>2
      <3>2. ASSUME NEW h \in LegacyHash, lindex'[h] # NoId
            PROVE  \E k \in LegacyKeysWithHash(h)' : k.hash = h
        BY <1>1, <2>2, <3>2, LegacyAssumption
        DEF LegacyTypeOK, LegacyIndexSound, LegacyKeysWithHash, LegacyKeysWithId
      <3> QED
        BY <3>1, <3>2 DEF LegacyIndexSound
    <2> QED
      BY <2>4, <2>7, <2>8
  <1>3. ASSUME NEW r \in lrepos, LegacyRepoDelete(r)
        PROVE  LegacyTypeOK' /\ LegacyIdsUnique' /\ LegacyIndexSound'
    <2>1. /\ lrepos' = lrepos \ {r}
          /\ lindex' = [lindex EXCEPT ![r.name] = NoId]
          /\ lseq' = lseq
      BY <1>3 DEF LegacyRepoDelete
    <2>2. r.name \in RepoName
      BY DEF LegacyTypeOK, LegacyRepo
    <2>3. LegacyTypeOK'
      BY <1>1, <2>1 DEF LegacyTypeOK, NoId
    <2>4. LegacyIdsUnique'
      BY <1>1, <2>1 DEF LegacyIdsUnique
    <2>5. LegacyIndexSound'
      <3>1. ASSUME NEW m \in RepoName, lindex'[m] # NoId
            PROVE  \E s \in LegacyReposNamed(m)' : s.name = m
        BY <2>1, <2>2, <3>1
        DEF LegacyTypeOK, LegacyIndexSound, LegacyReposNamed, LegacyReposWithId
      <3>2. ASSUME NEW h \in LegacyHash, lindex'[h] # NoId
            PROVE  \E k \in LegacyKeysWithHash(h)' : k.hash = h
        BY <1>1, <2>1, <2>2, <3>2, LegacyAssumption
        DEF LegacyTypeOK, LegacyIndexSound, LegacyKeysWithHash, LegacyKeysWithId
      <3> QED
        BY <3>1, <3>2 DEF LegacyIndexSound
    <2> QED
      BY <2>3, <2>4, <2>5
  <1>4. ASSUME NEW r \in lrepos, NEW n \in RepoName, LegacyRepoUpdate(r, n)
        PROVE  LegacyTypeOK' /\ LegacyIdsUnique' /\ LegacyIndexSound'
    <2> DEFINE row == [r EXCEPT !.name = n]
    <2>1. /\ lrepos' = (lrepos \ {r}) \union {row}
          /\ lindex' = [lindex EXCEPT ![r.name] = NoId, ![n] = r.id]
          /\ lseq' = lseq
      BY <1>4 DEF LegacyRepoUpdate
    <2>2. /\ r.name \in RepoName
          /\ r.id \in Nat
          /\ row \in LegacyRepo
          /\ row.id = r.id
          /\ row.name = n
      BY DEF LegacyTypeOK, LegacyRepo
    <2>3. LegacyTypeOK'
      BY <1>1, <2>1, <2>2 DEF LegacyTypeOK, NoId
    <2>4. LegacyIdsUnique'
      <3>1. \A s \in lrepos' : s.id \in 1 .. lseq["repos"]
        BY <2>1, <2>2 DEF LegacyIdsUnique
      <3>2. \A s, t \in lrepos' : s.id = t.id => s = t
        BY <2>1, <2>2 DEF LegacyIdsUnique
      <3> QED
        BY <1>1, <2>1, <3>1, <3>2 DEF LegacyIdsUnique
    <2>5. LegacyIndexSound'
      <3>1. ASSUME NEW m \in RepoName, lindex'[m] # NoId
            PROVE  \E s \in LegacyReposNamed(m)' : s.name = m
        <4>1. CASE m = n
          BY <2>1, <2>2, <4>1 DEF LegacyTypeOK, LegacyReposNamed, LegacyReposWithId
        <4>2. CASE m # n
          <5>1. m # r.name /\ lindex'[m] = lindex[m]
            BY <2>1, <2>2, <3>1, <4>2 DEF LegacyTypeOK
          <5>2. PICK s \in lrepos : s.id = lindex[m] /\ s.name = m
            BY <3>1, <5>1 DEF LegacyIndexSound, LegacyReposNamed, LegacyReposWithId
          <5>3. s \in lrepos'
            BY <2>1, <5>1, <5>2
          <5> QED
            BY <5>1, <5>2, <5>3 DEF LegacyReposNamed, LegacyReposWithId
        <4> QED
          BY <4>1, <4>2
      <3>2. ASSUME NEW h \in LegacyHash, lindex'[h] # NoId
            PROVE  \E k \in LegacyKeysWithHash(h)' : k.hash = h
        BY <1>1, <2>1, <2>2, <3>2, LegacyAssumption
        DEF LegacyTypeOK, LegacyIndexSound, LegacyKeysWithHash, LegacyKeysWithId
      <3> QED
        BY <3>1, <3>2 DEF LegacyIndexSound
    <2> QED
      BY <2>3, <2>4, <2>5
  <1> QED
    BY <1>2, <1>3, <1>4

LEMMA LegacyArtifactStep ==
  ASSUME LegacyInv,
         \/ \E i \in 1 .. lseq["repos"], path \in Path, u \in Upload, t \in Instant :
                LegacyArtifactCreate(i, path, u, t)
         \/ \E a \in lartifacts : LegacyArtifactDelete(a)
         \/ \E i \in 1 .. lseq["repos"] : LegacyArtifactDeleteByRepo(i)
  PROVE  LegacyInv'
  <1> USE DEF LegacyInv
  <1>1. lrepos' = lrepos /\ lkeys' = lkeys /\ lindex' = lindex
    BY DEF LegacyArtifactCreate, LegacyArtifactDelete, LegacyArtifactDeleteByRepo
  <1>2. LegacyIndexSound'
    BY <1>1 DEF LegacyIndexSound, LegacyReposNamed, LegacyReposWithId, LegacyKeysWithHash,
                LegacyKeysWithId
  <1>3. ASSUME NEW i \in 1 .. lseq["repos"], NEW path \in Path, NEW u \in Upload,
               NEW t \in Instant, LegacyArtifactCreate(i, path, u, t)
        PROVE  LegacyTypeOK' /\ LegacyIdsUnique'
    <2> DEFINE row == [id |-> lseq'["artifacts"], name |-> path[2], repoId |-> i,
                       path |-> path, sha |-> u, createdAt |-> t]
    <2>1. /\ lseq' \in [Buckets -> 0 .. MaxLegacyId]
          /\ lseq'["artifacts"] = lseq["artifacts"] + 1
          /\ lseq'["artifacts"] \in Nat \ {0}
          /\ lseq'["repos"] = lseq["repos"]
          /\ lseq'["keys"] = lseq["keys"]
      BY <1>3, AdvanceType DEF LegacyArtifactCreate, Buckets
    <2>2. path[2] \in ArtifactName /\ i \in Nat
      BY DEF Path
    <2>3. lartifacts' = lartifacts \union {row}
      BY <1>3 DEF LegacyArtifactCreate
    <2>4. row \in LegacyArtifact /\ row.id = lseq'["artifacts"]
      BY <2>1, <2>2 DEF LegacyArtifact
    <2> HIDE DEF row
    <2>5. \A a \in lartifacts : a.id \in Nat /\ a.id # row.id /\ a.id \in 1 .. row.id
      BY <2>1, <2>4, LegacyAssumption DEF LegacyIdsUnique, LegacyTypeOK, LegacyArtifact
    <2>6. \A a \in lartifacts' : a.id \in 1 .. lseq'["artifacts"]
      BY <2>1, <2>3, <2>4, <2>5
    <2>7. \A a, b \in lartifacts' : a.id = b.id => a = b
      BY <2>3, <2>5 DEF LegacyIdsUnique
    <2> QED
      BY <1>1, <2>1, <2>3, <2>4, <2>6, <2>7 DEF LegacyTypeOK, LegacyIdsUnique, Buckets
  <1>4. ASSUME \/ \E a \in lartifacts : LegacyArtifactDelete(a)
               \/ \E i \in 1 .. lseq["repos"] : LegacyArtifactDeleteByRepo(i)
        PROVE  LegacyTypeOK' /\ LegacyIdsUnique'
    <2>1. lartifacts' \subseteq lartifacts /\ lseq' = lseq
      BY <1>4 DEF LegacyArtifactDelete, LegacyArtifactDeleteByRepo
    <2> QED
      BY <1>1, <2>1 DEF LegacyTypeOK, LegacyIdsUnique
  <1> QED
    BY <1>2, <1>3, <1>4

LEMMA LegacyKeyStep ==
  ASSUME LegacyInv,
         \/ \E h \in LegacyHash, readOnly \in BOOLEAN : LegacyKeyCreate(h, readOnly)
         \/ \E k \in lkeys : LegacyKeyDelete(k)
         \/ \E k \in lkeys, t \in Instant : LegacyKeyTouch(k, t)
  PROVE  LegacyInv'
  <1> USE DEF LegacyInv
  <1>1. lrepos' = lrepos /\ lartifacts' = lartifacts
    BY DEF LegacyKeyCreate, LegacyKeyDelete, LegacyKeyTouch
  <1>2. ASSUME NEW h \in LegacyHash, NEW readOnly \in BOOLEAN, LegacyKeyCreate(h, readOnly)
        PROVE  LegacyInv'
    <2> DEFINE row == [id |-> lseq'["keys"], hash |-> h, readOnly |-> readOnly,
                       lastUsed |-> LegacyNever]
    <2>1. /\ lseq' \in [Buckets -> 0 .. MaxLegacyId]
          /\ lseq'["keys"] = lseq["keys"] + 1
          /\ lseq'["keys"] \in Nat \ {0}
          /\ lseq'["repos"] = lseq["repos"]
          /\ lseq'["artifacts"] = lseq["artifacts"]
      BY <1>2, AdvanceType DEF LegacyKeyCreate, Buckets
    <2>2. /\ lkeys' = lkeys \union {row}
          /\ lindex' = [lindex EXCEPT ![h] = lseq'["keys"]]
      BY <1>2 DEF LegacyKeyCreate
    <2>3. row \in LegacyKey /\ row.id = lseq'["keys"] /\ row.hash = h
      BY <2>1 DEF LegacyKey
    <2>4. LegacyTypeOK'
      BY <1>1, <2>1, <2>2, <2>3 DEF LegacyTypeOK, Buckets
    <2>5. \A k \in lkeys : k.id \in Nat /\ k.id # row.id
      BY <2>1, <2>3, LegacyAssumption DEF LegacyIdsUnique, LegacyTypeOK, LegacyKey
    <2>6. \A k \in lkeys' : k.id \in 1 .. lseq'["keys"]
      BY <2>1, <2>2, <2>3, LegacyAssumption DEF LegacyIdsUnique, LegacyTypeOK
    <2>7. LegacyIdsUnique'
      BY <1>1, <2>1, <2>2, <2>5, <2>6 DEF LegacyIdsUnique
    <2>8. ASSUME NEW n \in RepoName, lindex'[n] # NoId
          PROVE  \E r \in LegacyReposNamed(n)' : r.name = n
      BY <1>1, <2>2, <2>8, LegacyAssumption
      DEF LegacyTypeOK, LegacyIndexSound, LegacyReposNamed, LegacyReposWithId
    <2>9. ASSUME NEW g \in LegacyHash, lindex'[g] # NoId
          PROVE  \E k \in LegacyKeysWithHash(g)' : k.hash = g
      BY <2>2, <2>3, <2>9 DEF LegacyTypeOK, LegacyIndexSound, LegacyKeysWithHash, LegacyKeysWithId
    <2> QED
      BY <2>4, <2>7, <2>8, <2>9 DEF LegacyIndexSound
  <1>3. ASSUME NEW k \in lkeys, LegacyKeyDelete(k)
        PROVE  LegacyInv'
    <2>1. /\ lkeys' = lkeys \ {k}
          /\ lindex' = [lindex EXCEPT ![k.hash] = NoId]
          /\ lseq' = lseq
          /\ k.hash \in LegacyHash
      BY <1>3 DEF LegacyKeyDelete, LegacyTypeOK, LegacyKey
    <2>2. LegacyTypeOK' /\ LegacyIdsUnique'
      BY <1>1, <2>1 DEF LegacyTypeOK, LegacyIdsUnique, NoId
    <2>3. ASSUME NEW n \in RepoName, lindex'[n] # NoId
          PROVE  \E r \in LegacyReposNamed(n)' : r.name = n
      BY <1>1, <2>1, <2>3, LegacyAssumption
      DEF LegacyTypeOK, LegacyIndexSound, LegacyReposNamed, LegacyReposWithId
    <2>4. ASSUME NEW g \in LegacyHash, lindex'[g] # NoId
          PROVE  \E l \in LegacyKeysWithHash(g)' : l.hash = g
      BY <2>1, <2>4 DEF LegacyTypeOK, LegacyIndexSound, LegacyKeysWithHash, LegacyKeysWithId
    <2> QED
      BY <2>2, <2>3, <2>4 DEF LegacyIndexSound
  <1>4. ASSUME NEW k \in lkeys, NEW t \in Instant, LegacyKeyTouch(k, t)
        PROVE  LegacyInv'
    <2> DEFINE row == [k EXCEPT !.lastUsed = t]
    <2>1. /\ lkeys' = (lkeys \ {k}) \union {row}
          /\ lindex' = lindex
          /\ lseq' = lseq
      BY <1>4 DEF LegacyKeyTouch
    <2>2. row \in LegacyKey /\ row.id = k.id /\ row.hash = k.hash
      BY DEF LegacyTypeOK, LegacyKey
    <2> HIDE DEF row
    <2>3. LegacyTypeOK' /\ LegacyIdsUnique'
      <3>1. \A l \in lkeys' : l.id \in 1 .. lseq["keys"]
        BY <2>1, <2>2 DEF LegacyIdsUnique
      <3>2. \A l, m \in lkeys' : l.id = m.id => l = m
        BY <2>1, <2>2 DEF LegacyIdsUnique
      <3>3. LegacyTypeOK'
        BY <1>1, <2>1, <2>2 DEF LegacyTypeOK
      <3> QED
        BY <1>1, <2>1, <3>1, <3>2, <3>3 DEF LegacyIdsUnique
    <2>4. \A n \in RepoName : LegacyReposNamed(n)' = LegacyReposNamed(n)
      BY <1>1, <2>1 DEF LegacyReposNamed, LegacyReposWithId
    <2>5. ASSUME NEW g \in LegacyHash, lindex'[g] # NoId
          PROVE  \E l \in LegacyKeysWithHash(g)' : l.hash = g
      <3>1. PICK l \in lkeys : l.id = lindex[g] /\ l.hash = g
        BY <2>1, <2>5 DEF LegacyIndexSound, LegacyKeysWithHash, LegacyKeysWithId
      <3> QED
        BY <2>1, <2>2, <3>1 DEF LegacyKeysWithHash, LegacyKeysWithId
    <2> QED
      BY <2>1, <2>3, <2>4, <2>5 DEF LegacyIndexSound
  <1> QED
    BY <1>2, <1>3, <1>4

LEMMA LegacyStep ==
  ASSUME LegacyInv, LegacyNext
  PROVE  LegacyInv'
  BY LegacyRepoStep, LegacyArtifactStep, LegacyKeyStep DEF LegacyNext, LegacyInv

-----------------------------------------------------------------------------
(* The migration. *)

\* While these steps run, artf1.db is not yet what it will be.
Copying == {"legacy db", "keys", "repos", "artifacts", "commit", "fail"}

MigState == [pc : MigrationPc, migrating : BOOLEAN,
             tx : [keys : SUBSET LegacyKey, repos : SUBSET LegacyRepo,
                   artifacts : SUBSET LegacyArtifact]]

\* What the transaction holds.
TxInv ==
    /\ mg.pc \in {"repos", "artifacts", "commit"} => mg.tx.keys = lkeys
    /\ mg.pc \in {"artifacts", "commit"} => mg.tx.repos = lrepos
    /\ mg.pc = "commit" => mg.tx.artifacts = lartifacts

\* What artf1.db is worth.
FileInv ==
    /\ newDb = "absent" => Current = NoRows
    /\ mg.pc \in Copying => Current = NoRows
    /\ mg.pc = "legacy" => newDb = "absent" /\ oldExists
    /\ mg.pc \in {"ensure", "schema"} /\ mg.migrating => Current = NoRows
    /\ mg.pc = "ensure" /\ ~ mg.migrating /\ newDb = "absent" => ~ oldExists
    /\ mg.pc \in Copying \union {"schema", "serving"} => newDb # "absent"
    /\ /\ accidents = 0
       /\ newDb # "absent"
       /\ mg.pc \notin Copying
       /\ ~ (mg.pc = "schema" /\ mg.migrating)
       => Current = Legacy
    /\ ~ oldExists => Legacy = NoRows

MigInv ==
    /\ LegacyInv
    /\ mg \in MigState
    /\ newDb \in {"absent", "empty", "schema"}
    /\ accidents \in Nat
    /\ AllOrNothing
    /\ TxInv
    /\ FileInv

LEMMA MigInit ==
  ASSUME MigrationInit
  PROVE  MigInv
  <1> USE DEF MigrationInit, StoreInit, KeyInit, LegacyInit
  <1>1. LegacyInv
    BY LegacyAssumption
    DEF LegacyInv, LegacyTypeOK, LegacyIdsUnique, LegacyIndexSound, NoId
  <1>2. Current = NoRows /\ Legacy = NoRows
    BY DEF Current, Legacy, NoRows
  <1>3. mg \in MigState /\ accidents \in Nat
    BY DEF MigState, MigrationPc, NoRows
  <1>4. TxInv /\ FileInv
    BY <1>2 DEF TxInv, FileInv, Copying
  <1> QED
    BY <1>1, <1>2, <1>3, <1>4 DEF MigInv, AllOrNothing

\* The earlier release, while there is no artf1.db.
LEMMA LegacyReleaseStep ==
  ASSUME MigInv, LegacyRelease
  PROVE  MigInv'
  <1>1. LegacyInv'
    BY LegacyStep DEF MigInv, LegacyRelease
  <1>2. UNCHANGED <<keys, repos, artifacts, oldExists, newDb, accidents, mg>>
    BY DEF LegacyRelease, NoAccident, tables, storeVars, keyVars
  <1>3. mg.pc = "legacy" /\ newDb = "absent" /\ oldExists /\ Current = NoRows
    BY DEF LegacyRelease, MigInv, FileInv
  <1>4. Current' = NoRows /\ NoRows' = NoRows
    BY <1>2, <1>3 DEF Current, NoRows
  <1>5. mg' \in MigState
    BY <1>2 DEF MigInv, MigState
  <1>6. TxInv'
    BY <1>2, <1>3 DEF TxInv
  <1>7. FileInv'
    BY <1>2, <1>3, <1>4 DEF FileInv, Copying
  <1> QED
    BY <1>1, <1>2, <1>4, <1>5, <1>6, <1>7 DEF MigInv, AllOrNothing

\* Only the earlier release writes to artf0.db.
LEMMA LegacyFrame ==
  ASSUME LegacyInv, UNCHANGED legacyVars
  PROVE  LegacyInv' /\ Legacy' = Legacy
  <1>1. UNCHANGED <<lrepos, lartifacts, lkeys, lseq, lindex>>
    BY DEF legacyVars
  <1> QED
    BY <1>1
    DEF LegacyInv, LegacyTypeOK, LegacyIdsUnique, LegacyIndexSound, LegacyReposNamed,
        LegacyReposWithId, LegacyKeysWithHash, LegacyKeysWithId, Legacy

\* The states of the process as far as MigInv goes: every action but the
\* earlier release's leaves the legacy data alone, and what remains to be shown
\* is that the process and artf1.db fit each other.
LEMMA ProcessFrame ==
  ASSUME MigInv, UNCHANGED <<legacyVars, oldExists>>,
         mg' \in MigState, newDb' \in {"absent", "empty", "schema"}, accidents' \in Nat,
         (AllOrNothing /\ TxInv /\ FileInv)'
  PROVE  MigInv'
  BY LegacyFrame DEF MigInv

LEMMA DownIsState ==
  ASSUME Down
  PROVE  mg' \in MigState /\ mg'.pc = "down" /\ mg'.migrating = FALSE
  BY DEF Down, MigState, MigrationPc, NoRows

\* A step to another one.
LEMMA GotoIsState ==
  ASSUME mg \in MigState, NEW pc \in MigrationPc, Goto(pc)
  PROVE  mg' \in MigState /\ mg'.pc = pc /\ mg'.migrating = mg.migrating /\ mg'.tx = mg.tx
  BY DEF Goto, MigState

\* The process ends with the tables as they are.
LEMMA DownStep ==
  ASSUME MigInv, Down, UNCHANGED <<tables, legacyVars, oldExists, newDb>>,
         \/ UNCHANGED accidents /\ mg.pc \notin Copying
                                /\ ~ (mg.pc = "schema" /\ mg.migrating)
         \/ accidents' = accidents + 1
  PROVE  MigInv'
  <1>1. mg' \in MigState /\ mg'.pc = "down" /\ mg'.migrating = FALSE
    BY DownIsState
  <1>2. Current' = Current /\ NoRows' = NoRows /\ Legacy' = Legacy
    BY LegacyFrame DEF Current, NoRows, tables, keyVars, storeVars, MigInv
  <1>3. accidents \in Nat /\ accidents' \in Nat /\ (accidents' = 0 => accidents' = accidents)
    BY DEF MigInv
  <1>4. accidents' = 0 => mg.pc \notin Copying /\ ~ (mg.pc = "schema" /\ mg.migrating)
    BY <1>3
  <1>5. TxInv'
    BY <1>1 DEF TxInv
  <1>6. FileInv'
    BY <1>1, <1>2, <1>3, <1>4 DEF FileInv, MigInv, Copying
  <1>7. AllOrNothing'
    BY <1>2 DEF AllOrNothing, MigInv
  <1> QED
    BY <1>1, <1>3, <1>5, <1>6, <1>7, ProcessFrame DEF MigInv

\* Between its start and the copying.
LEMMA OpeningStep ==
  ASSUME MigInv, Upgrade \/ Start \/ Stat \/ EnsureFile \/ Schema
  PROVE  MigInv'
  <1> USE DEF MigInv
  <1>1. /\ UNCHANGED <<legacyVars, oldExists>>
        /\ UNCHANGED tables
    BY DEF Upgrade, Start, Stat, EnsureFile, Schema
  <1>2. Current' = Current /\ NoRows' = NoRows /\ Legacy' = Legacy
    BY <1>1, LegacyFrame DEF Current, NoRows, tables, keyVars, storeVars
  <1>3. AllOrNothing'
    BY <1>2 DEF AllOrNothing
  <1>4. CASE Upgrade
    BY <1>4, DownStep DEF Upgrade, NoAccident, Copying
  <1>5. CASE Start
    <2>1. mg.pc = "down" /\ UNCHANGED <<accidents, newDb>>
      BY <1>5 DEF Start, NoAccident
    <2>2. mg' \in MigState /\ mg'.pc = "stat" /\ mg'.migrating = mg.migrating
      BY <1>5, GotoIsState DEF Start, MigrationPc
    <2>3. TxInv'
      BY <2>2 DEF TxInv
    <2>4. FileInv'
      BY <1>1, <1>2, <2>1, <2>2 DEF FileInv, Copying
    <2> QED
      BY <1>1, <1>3, <2>1, <2>2, <2>3, <2>4, ProcessFrame
  <1>6. CASE Stat
    <2>1. CASE Down
      BY <1>6, <2>1, DownStep DEF Stat, StepFault, NoAccident, Copying
    <2>2. CASE mg' = [mg EXCEPT !.pc = "ensure", !.migrating = newDb = "absent" /\ oldExists]
      <3>1. mg.pc = "stat" /\ UNCHANGED <<accidents, newDb>>
        BY <1>6 DEF Stat, NoAccident, StepFault
      <3>2. /\ mg' \in MigState
            /\ mg'.pc = "ensure"
            /\ mg'.migrating = (newDb = "absent" /\ oldExists)
        BY <2>2 DEF MigState, MigrationPc
      <3>3. TxInv'
        BY <3>2 DEF TxInv
      <3>4. FileInv'
        BY <1>1, <1>2, <3>1, <3>2 DEF FileInv, Copying
      <3> QED
        BY <1>1, <1>3, <3>1, <3>2, <3>3, <3>4, ProcessFrame
    <2> QED
      BY <1>6, <2>1, <2>2 DEF Stat
  <1>7. CASE EnsureFile
    <2>1. CASE Down /\ UNCHANGED newDb
      BY <1>7, <2>1, DownStep DEF EnsureFile, StepFault, NoAccident, Copying
    <2>2. CASE newDb' = (IF newDb = "absent" THEN "empty" ELSE newDb) /\ Goto("schema")
      <3>1. mg.pc = "ensure" /\ UNCHANGED accidents
        BY <1>7 DEF EnsureFile, NoAccident, StepFault
      <3>2. /\ mg' \in MigState
            /\ mg'.pc = "schema"
            /\ mg'.migrating = mg.migrating
        BY <2>2, GotoIsState DEF MigrationPc
      <3>3. TxInv'
        BY <3>2 DEF TxInv
      <3>4. newDb' \in {"empty", "schema"} /\ (newDb # "absent" => newDb' = newDb)
        BY <2>2
      <3>5. accidents = 0 /\ ~ mg.migrating => Current = Legacy
        BY <3>1 DEF FileInv, Copying
      <3>6. mg.migrating => Current = NoRows
        BY <3>1 DEF FileInv
      <3>7. ~ oldExists => Legacy = NoRows
        BY DEF FileInv
      <3>8. FileInv'
        BY <1>1, <1>2, <3>1, <3>2, <3>4, <3>5, <3>6, <3>7 DEF FileInv, Copying
      <3> QED
        BY <1>1, <1>3, <3>1, <3>2, <3>3, <3>4, <3>8, ProcessFrame
    <2> QED
      BY <1>7, <2>1, <2>2 DEF EnsureFile
  <1>8. CASE Schema
    <2>1. mg.pc = "schema" /\ newDb # "absent"
      BY <1>8 DEF Schema, FileInv
    <2>2. SchemaApplicable
      BY <2>1 DEF SchemaApplicable
    <2>3. CASE Down /\ Accident /\ UNCHANGED newDb
      BY <1>1, <2>3, DownStep DEF Accident
    <2>4. CASE /\ newDb' = "schema"
               /\ Goto(IF mg.migrating THEN "legacy db" ELSE "serving")
               /\ NoAccident
      <3>1. UNCHANGED accidents
        BY <2>4 DEF NoAccident
      <3>2. /\ mg' \in MigState
            /\ mg'.pc = IF mg.migrating THEN "legacy db" ELSE "serving"
            /\ mg'.migrating = mg.migrating
        BY <2>4, GotoIsState DEF MigrationPc
      <3>3. TxInv'
        BY <3>2 DEF TxInv
      <3>4. mg.migrating => Current = NoRows
        BY <2>1 DEF FileInv
      <3>5. accidents = 0 /\ ~ mg.migrating => Current = Legacy
        BY <2>1 DEF FileInv, Copying
      <3>6. ~ oldExists => Legacy = NoRows
        BY DEF FileInv
      <3>7. FileInv'
        BY <1>1, <1>2, <2>4, <3>1, <3>2, <3>4, <3>5, <3>6 DEF FileInv, Copying
      <3> QED
        BY <1>1, <1>3, <2>4, <3>1, <3>2, <3>3, <3>7, ProcessFrame
    <2> QED
      BY <1>8, <2>2, <2>3, <2>4 DEF Schema
  <1> QED
    BY <1>4, <1>5, <1>6, <1>7, <1>8

\* The migration gives up: what it has done to the tables is rolled back.
LEMMA GiveUpStep ==
  ASSUME MigInv, mg.pc \in Copying, Goto("fail"),
         UNCHANGED <<tables, legacyVars, oldExists, newDb, accidents>>
  PROVE  MigInv'
  <1> USE DEF MigInv
  <1>1. Current' = Current /\ NoRows' = NoRows /\ Legacy' = Legacy
    BY LegacyFrame DEF Current, NoRows, tables, keyVars, storeVars
  <1>2. mg' \in MigState /\ mg'.pc = "fail"
    BY GotoIsState DEF MigrationPc
  <1>3. TxInv'
    BY <1>2 DEF TxInv
  <1>4. newDb # "absent" /\ Current = NoRows /\ (~ oldExists => Legacy = NoRows)
    BY DEF FileInv
  <1>5. FileInv'
    BY <1>1, <1>2, <1>4 DEF FileInv, Copying
  <1>6. AllOrNothing'
    BY <1>1 DEF AllOrNothing
  <1> QED
    BY <1>2, <1>3, <1>5, <1>6, ProcessFrame

\* The transaction goes on: the tables themselves do not change.
LEMMA GoOnStep ==
  ASSUME MigInv, mg.pc \in Copying, mg' \in MigState,
         mg'.pc \in {"keys", "repos", "artifacts", "commit"}, TxInv',
         UNCHANGED <<tables, legacyVars, oldExists, newDb, accidents>>
  PROVE  MigInv'
  <1> USE DEF MigInv
  <1>1. Current' = Current /\ NoRows' = NoRows /\ Legacy' = Legacy
    BY LegacyFrame DEF Current, NoRows, tables, keyVars, storeVars
  <1>2. newDb # "absent" /\ Current = NoRows /\ (~ oldExists => Legacy = NoRows)
    BY DEF FileInv
  <1>3. FileInv'
    BY <1>1, <1>2 DEF FileInv, Copying
  <1>4. AllOrNothing'
    BY <1>1 DEF AllOrNothing
  <1> QED
    BY <1>3, <1>4, ProcessFrame

LEMMA CopyingStep ==
  ASSUME MigInv, OpenLegacy \/ CopyKeys \/ CopyRepos \/ CopyArtifacts
  PROVE  MigInv'
  <1> USE DEF MigInv
  <1>1. /\ UNCHANGED <<tables, legacyVars, oldExists, newDb, accidents>>
        /\ mg.pc \in Copying
    BY DEF OpenLegacy, CopyKeys, CopyRepos, CopyArtifacts, Insert, NoAccident, StepFault, Copying
  <1>2. UNCHANGED <<lkeys, lrepos, lartifacts>>
    BY <1>1 DEF legacyVars
  <1>3. /\ lkeys \in SUBSET LegacyKey
        /\ lrepos \in SUBSET LegacyRepo
        /\ lartifacts \in SUBSET LegacyArtifact
    BY DEF LegacyInv, LegacyTypeOK
  <1>4. CASE Goto("fail")
    BY <1>1, <1>4, GiveUpStep
  <1>5. CASE OpenLegacy /\ Goto("keys")
    <2>1. mg' \in MigState /\ mg'.pc = "keys"
      BY <1>5, GotoIsState DEF MigrationPc
    <2>2. TxInv'
      BY <2>1 DEF TxInv
    <2> QED
      BY <1>1, <2>1, <2>2, GoOnStep
  <1>6. CASE CopyKeys /\ mg' = [mg EXCEPT !.tx["keys"] = lkeys, !.pc = "repos"]
    <2>1. mg' \in MigState /\ mg'.pc = "repos" /\ mg'.tx.keys = lkeys
      BY <1>3, <1>6 DEF MigState, MigrationPc
    <2>2. TxInv'
      BY <1>2, <2>1 DEF TxInv
    <2> QED
      BY <1>1, <2>1, <2>2, GoOnStep
  <1>7. CASE CopyRepos /\ mg' = [mg EXCEPT !.tx["repos"] = lrepos, !.pc = "artifacts"]
    <2>1. mg.tx.keys = lkeys
      BY <1>7 DEF CopyRepos, TxInv
    <2>2. /\ mg' \in MigState
          /\ mg'.pc = "artifacts"
          /\ mg'.tx.repos = lrepos
          /\ mg'.tx.keys = mg.tx.keys
      BY <1>3, <1>7 DEF MigState, MigrationPc
    <2>3. TxInv'
      BY <1>2, <2>1, <2>2 DEF TxInv
    <2> QED
      BY <1>1, <2>2, <2>3, GoOnStep
  <1>8. CASE CopyArtifacts
             /\ mg' = [mg EXCEPT !.tx["artifacts"] = lartifacts, !.pc = "commit"]
    <2>1. mg.tx.keys = lkeys /\ mg.tx.repos = lrepos
      BY <1>8 DEF CopyArtifacts, TxInv
    <2>2. /\ mg' \in MigState
          /\ mg'.pc = "commit"
          /\ mg'.tx.artifacts = lartifacts
          /\ mg'.tx.keys = mg.tx.keys
          /\ mg'.tx.repos = mg.tx.repos
      BY <1>3, <1>8 DEF MigState, MigrationPc
    <2>3. TxInv'
      BY <1>2, <2>1, <2>2 DEF TxInv
    <2> QED
      BY <1>1, <2>2, <2>3, GoOnStep
  <1> QED
    BY <1>4, <1>5, <1>6, <1>7, <1>8 DEF OpenLegacy, CopyKeys, CopyRepos, CopyArtifacts, Insert

LEMMA CommitStep ==
  ASSUME MigInv, Commit
  PROVE  MigInv'
  <1> USE DEF MigInv
  <1>1. mg.pc = "commit" /\ UNCHANGED <<legacyVars, oldExists, newDb>>
    BY DEF Commit
  <1>2. CASE Goto("fail") /\ StepFault /\ UNCHANGED tables
    BY <1>1, <1>2, GiveUpStep DEF StepFault, Copying
  <1>3. CASE /\ keys' = mg.tx.keys
             /\ repos' = mg.tx.repos
             /\ artifacts' = mg.tx.artifacts
             /\ mg' = [mg EXCEPT !.pc = "serving", !.tx = NoRows]
             /\ NoAccident
    <2>1. Legacy' = Legacy /\ NoRows' = NoRows
      BY <1>1, LegacyFrame DEF NoRows
    <2>2. mg.tx.keys = lkeys /\ mg.tx.repos = lrepos /\ mg.tx.artifacts = lartifacts
      BY <1>1 DEF TxInv
    <2>3. Current' = Legacy
      BY <1>3, <2>2 DEF Current, Legacy
    <2>4. /\ mg' \in MigState
          /\ mg'.pc = "serving"
      BY <1>3 DEF MigState, MigrationPc, NoRows
    <2>5. UNCHANGED accidents
      BY <1>3 DEF NoAccident
    <2>6. newDb # "absent" /\ (~ oldExists => Legacy = NoRows)
      BY <1>1 DEF FileInv, Copying
    <2>7. TxInv'
      BY <2>4 DEF TxInv
    <2>8. FileInv'
      BY <1>1, <2>1, <2>3, <2>4, <2>6 DEF FileInv, Copying
    <2>9. AllOrNothing'
      BY <2>1, <2>3 DEF AllOrNothing
    <2> QED
      BY <1>1, <2>4, <2>5, <2>7, <2>8, <2>9, ProcessFrame
  <1> QED
    BY <1>2, <1>3 DEF Commit

LEMMA FailStep ==
  ASSUME MigInv, Fail
  PROVE  MigInv'
  <1> USE DEF MigInv
  <1>1. Down /\ UNCHANGED <<legacyVars, oldExists>>
    BY DEF Fail
  <1>2. CASE Accident /\ UNCHANGED <<tables, newDb>>
    BY <1>1, <1>2, DownStep DEF Accident
  <1>3. CASE newDb' = "absent" /\ NoTables /\ NoAccident
    <2>1. Legacy' = Legacy /\ Current' = NoRows' /\ NoRows' = NoRows
      BY <1>1, <1>3, LegacyFrame DEF NoRows, NoTables, Current
    <2>2. mg' \in MigState /\ mg'.pc = "down"
      BY <1>1, DownIsState
    <2>3. ~ oldExists => Legacy = NoRows
      BY DEF FileInv
    <2>4. TxInv' /\ AllOrNothing'
      BY <2>1, <2>2 DEF TxInv, AllOrNothing
    <2>5. FileInv'
      BY <1>1, <1>3, <2>1, <2>2, <2>3 DEF FileInv, Copying
    <2> QED
      BY <1>1, <1>3, <2>2, <2>4, <2>5, ProcessFrame DEF NoAccident
  <1> QED
    BY <1>2, <1>3 DEF Fail

LEMMA EndStep ==
  ASSUME MigInv, Kill \/ Stop
  PROVE  MigInv'
  <1>1. CASE Kill
    BY <1>1, DownStep DEF Kill, Accident
  <1>2. CASE Stop
    BY <1>2, DownStep DEF Stop, NoAccident, Copying
  <1> QED
    BY <1>1, <1>2

LEMMA MigStutter ==
  ASSUME MigInv, UNCHANGED migrationVars
  PROVE  MigInv'
  <1> USE DEF MigInv
  <1>1. UNCHANGED <<legacyVars, oldExists, newDb, accidents, mg>>
        /\ UNCHANGED <<keys, repos, artifacts, lkeys, lrepos, lartifacts>>
    BY DEF migrationVars, storeVars, keyVars, legacyVars
  <1>2. (AllOrNothing /\ TxInv /\ FileInv)'
    BY <1>1 DEF AllOrNothing, TxInv, FileInv, Current, Legacy, NoRows
  <1> QED
    BY <1>1, <1>2, ProcessFrame

\* The tables, the transaction and the legacy data fit together at every step of
\* the process (migrate.go:31-150): the invariant the theorems below rest on.
THEOREM MigrationInvariant == MigrationSpec => []MigInv
  <1>1. MigrationInit => MigInv
    BY MigInit
  <1>2. MigInv /\ [MigrationNext]_migrationVars => MigInv'
    BY LegacyReleaseStep, OpeningStep, CopyingStep, CommitStep, FailStep, EndStep, MigStutter
    DEF MigrationNext
  <1> QED
    BY <1>1, <1>2, PTL DEF MigrationSpec

\* The transaction of the migration: its tables hold all of the legacy data or
\* none, whatever failed and wherever the process was killed (migrate.go:76-150).
THEOREM MigratesAllOrNothing == MigrationSpec => []AllOrNothing
  <1>1. MigInv => AllOrNothing
    BY DEF MigInv
  <1> QED
    BY <1>1, MigrationInvariant, PTL

\* Failed starts that clean up after themselves lose nothing: the one that
\* serves in the end serves the legacy data (migrate.go:67-71).
THEOREM MigratesInTheEnd == MigrationSpec => []RetriesUntilMigrated
  <1>1. MigInv => RetriesUntilMigrated
    BY DEF MigInv, FileInv, RetriesUntilMigrated, Copying
  <1> QED
    BY <1>1, MigrationInvariant, PTL

\* The index of the bbolt database leads to the name or the hash that was looked
\* up, although two repositories may share an entry (store/bblt/repos.go).
THEOREM LegacyLookupsAreSound == MigrationSpec => []LegacyIndexSound
  <1>1. MigInv => LegacyIndexSound
    BY DEF MigInv, LegacyInv
  <1> QED
    BY <1>1, MigrationInvariant, PTL

-----------------------------------------------------------------------------
(* Why a start fails. *)

\* What the checks of the bbolt store do guarantee.
LegacyUnique ==
    /\ \A k, l \in lkeys : k.hash = l.hash => k = l
    /\ \A a, b \in lartifacts : a.repoId = b.repoId /\ a.name = b.name => a = b

ReasonInv == LegacyUnique /\ faults \in Nat

LEMMA LegacyUniqueStep ==
  ASSUME LegacyTypeOK, LegacyUnique, LegacyNext
  PROVE  LegacyUnique'
  <1>1. CASE UNCHANGED <<lkeys, lartifacts>>
    BY <1>1 DEF LegacyUnique
  <1>2. ASSUME NEW i \in 1 .. lseq["repos"], NEW path \in Path, NEW u \in Upload,
               NEW t \in Instant, LegacyArtifactCreate(i, path, u, t)
        PROVE  LegacyUnique'
    <2> DEFINE row == [id |-> lseq'["artifacts"], name |-> path[2], repoId |-> i,
                       path |-> path, sha |-> u, createdAt |-> t]
    <2>1. lartifacts' = lartifacts \union {row} /\ lkeys' = lkeys
      BY <1>2 DEF LegacyArtifactCreate
    <2>2. \A a \in lartifacts : a.repoId = i => a.name # path[2]
      BY <1>2 DEF LegacyArtifactCreate, LegacyArtifactsOf
    <2>3. row.repoId = i /\ row.name = path[2]
      OBVIOUS
    <2> HIDE DEF row
    <2> QED
      BY <2>1, <2>2, <2>3 DEF LegacyUnique
  <1>3. ASSUME lartifacts' \subseteq lartifacts, lkeys' \subseteq lkeys
        PROVE  LegacyUnique'
    BY <1>3 DEF LegacyUnique
  <1>4. ASSUME NEW h \in LegacyHash, NEW readOnly \in BOOLEAN, LegacyKeyCreate(h, readOnly)
        PROVE  LegacyUnique'
    BY <1>4 DEF LegacyKeyCreate, LegacyUnique
  <1>5. ASSUME NEW k \in lkeys, NEW t \in Instant, LegacyKeyTouch(k, t)
        PROVE  LegacyUnique'
    <2> DEFINE row == [k EXCEPT !.lastUsed = t]
    <2>1. lkeys' = (lkeys \ {k}) \union {row} /\ lartifacts' = lartifacts
      BY <1>5 DEF LegacyKeyTouch
    <2>2. row.hash = k.hash
      BY DEF LegacyTypeOK, LegacyKey
    <2> HIDE DEF row
    <2> QED
      BY <2>1, <2>2 DEF LegacyUnique
  <1> QED
    BY <1>1, <1>2, <1>3, <1>4, <1>5
    DEF LegacyNext, LegacyRepoCreate, LegacyRepoDelete, LegacyRepoUpdate,
        LegacyArtifactDelete, LegacyArtifactDeleteByRepo, LegacyKeyDelete

LEMMA ReasonStep ==
  ASSUME MigInv, ReasonInv, [MigrationNext]_migrationVars
  PROVE  ReasonInv'
  <1> USE DEF ReasonInv
  <1>1. faults' = faults \/ faults' = faults + 1
    BY DEF MigrationNext, LegacyRelease, Upgrade, Start, Stat, EnsureFile, Schema, OpenLegacy,
           CopyKeys, CopyRepos, CopyArtifacts, Insert, Commit, Fail, Kill, Stop, NoAccident,
           Accident, StepFault, NoFault, Fault, envVars, migrationVars
  <1>2. CASE LegacyRelease
    BY <1>1, <1>2, LegacyUniqueStep DEF LegacyRelease, MigInv, LegacyInv
  <1>3. CASE UNCHANGED legacyVars
    BY <1>1, <1>3 DEF LegacyUnique, legacyVars
  <1> QED
    BY <1>2, <1>3
    DEF MigrationNext, Upgrade, Start, Stat, EnsureFile, Schema, OpenLegacy,
        CopyKeys, CopyRepos, CopyArtifacts, Insert, Commit, Fail, Kill, Stop, migrationVars

LEMMA StartStep ==
  ASSUME MigInv, ReasonInv, [MigrationNext]_migrationVars,
         mg.pc \notin {"legacy", "fail", "serving"}, mg'.pc \in {"fail", "down"}, Migratable,
         mg' # mg
  PROVE  faults' # faults \/ accidents' # accidents
  <1>1. StepFault => faults' # faults
    BY DEF StepFault, Fault, ReasonInv
  <1>2. Accident => accidents' # accidents
    BY DEF Accident, MigInv
  <1>3. mg \in MigState
    BY DEF MigInv
  <1>4. CASE Stat \/ EnsureFile
    <2>1. StepFault
      BY <1>3, <1>4 DEF Stat, EnsureFile, Goto, MigState
    <2> QED
      BY <1>1, <2>1
  <1>5. CASE Schema
    <2>1. SchemaApplicable
      BY <1>5 DEF Schema, SchemaApplicable, MigInv, FileInv
    <2>2. Accident
      BY <1>3, <1>5, <2>1 DEF Schema, Goto, MigState
    <2> QED
      BY <1>2, <2>2
  <1>6. CASE OpenLegacy
    <2>1. StepFault
      BY <1>3, <1>6 DEF OpenLegacy, Goto, MigState
    <2> QED
      BY <1>1, <2>1
  <1>7. CASE CopyKeys
    <2>1. \A k, l \in lkeys : k.hash = l.hash => k = l
      BY DEF ReasonInv, LegacyUnique
    <2>2. StepFault
      BY <1>3, <1>7, <2>1 DEF CopyKeys, Insert, MigState
    <2> QED
      BY <1>1, <2>2
  <1>8. CASE CopyRepos
    <2>1. \A r, s \in lrepos : r.name = s.name => r = s
      BY DEF Migratable
    <2>2. StepFault
      BY <1>3, <1>8, <2>1 DEF CopyRepos, Insert, MigState
    <2> QED
      BY <1>1, <2>2
  <1>9. CASE CopyArtifacts
    <2>1. ArtifactsAccepted
      BY <1>9 DEF CopyArtifacts, MigInv, TxInv, ArtifactsAccepted, ReasonInv, LegacyUnique,
                  Migratable
    <2>2. StepFault
      BY <1>3, <1>9, <2>1 DEF CopyArtifacts, Insert, MigState
    <2> QED
      BY <1>1, <2>2
  <1>10. CASE Commit
    <2>1. StepFault
      BY <1>3, <1>10 DEF Commit, Goto, MigState
    <2> QED
      BY <1>1, <2>1
  <1>11. CASE Kill
    BY <1>2, <1>11 DEF Kill
  <1>12. CASE Start
    BY <1>3, <1>12 DEF Start, Goto, MigState
  <1> QED
    BY <1>4, <1>5, <1>6, <1>7, <1>8, <1>9, <1>10, <1>11, <1>12
    DEF MigrationNext, LegacyRelease, Upgrade, Fail, Stop, migrationVars

\* A start of the server fails because something failed in it, or because the
\* legacy data break a constraint of the schema: nothing that earlier starts
\* left behind can stop it (migrate.go:39-74, store.go:33-77).
THEOREM StartsFailForAReason == MigrationSpec => StartFailsForAReason
  <1>1. MigrationInit => ReasonInv
    BY DEF MigrationInit, ReasonInv, LegacyInit, LegacyUnique, EnvironmentInit
  <1>2. MigInv /\ ReasonInv /\ [MigrationNext]_migrationVars => ReasonInv'
    BY ReasonStep
  <1>3. MigInv /\ ReasonInv /\ [MigrationNext]_migrationVars
            => [mg.pc \notin {"legacy", "fail", "serving"} /\ mg'.pc \in {"fail", "down"}
                    /\ Migratable => faults' # faults \/ accidents' # accidents]_migrationVars
    <2> SUFFICES ASSUME MigInv, ReasonInv, MigrationNext,
                        mg.pc \notin {"legacy", "fail", "serving"},
                        mg'.pc \in {"fail", "down"}, Migratable,
                        ~ (UNCHANGED migrationVars)
                 PROVE  faults' # faults \/ accidents' # accidents
      OBVIOUS
    <2>1. mg' # mg
      <3>1. mg' = mg => mg.pc = "down"
        OBVIOUS
      <3>2. mg.pc = "down" => mg'.pc = "stat"
        BY DEF MigrationNext, LegacyRelease, Upgrade, Start, Stat, EnsureFile, Schema,
               OpenLegacy, CopyKeys, CopyRepos, CopyArtifacts, Commit, Fail, Kill, Stop, Goto,
               MigInv, MigState
      <3> QED
        BY <3>1, <3>2
    <2> QED
      BY <2>1, StartStep
  <1> QED
    BY <1>1, <1>2, <1>3, MigrationInvariant, PTL DEF MigrationSpec, StartFailsForAReason

-----------------------------------------------------------------------------
(* What the server serves once the migration is done. *)

\* There is a largest id, since ids are bounded, and it is the one chosen.
LEMMA LargestIdBounds ==
  ASSUME NEW rows, \A r \in rows : r.id \in 1 .. MaxLegacyId
  PROVE  /\ LargestId(rows) \in 0 .. MaxLegacyId
         /\ \A r \in rows : r.id \in 1 .. LargestId(rows)
  <1> DEFINE Largest(i) == /\ \A r \in rows : r.id <= i
                           /\ i = 0 \/ \E r \in rows : r.id = i
             below == OpToRel(<, Nat)
             gap(r) == MaxLegacyId - r.id
             gaps == {gap(r) : r \in rows}
  <1>1. \E i \in 0 .. MaxLegacyId : Largest(i)
    <2>1. CASE rows = {}
      BY <2>1, LegacyAssumption
    <2>2. CASE rows # {}
      <3>1. gaps \subseteq Nat /\ gaps # {}
        BY <2>2, LegacyAssumption
      <3>2. \E x \in gaps : \A y \in gaps : ~ (<<y, x>> \in below)
        <4> HIDE DEF gaps, below
        <4>1. IsWellFoundedOn(below, Nat)
          BY NatLessThanWellFounded DEF below
        <4> QED
          BY <3>1, <4>1, WFMin
      <3>3. PICK r \in rows : \A s \in rows : ~ (<<gap(s), gap(r)>> \in below)
        BY <3>2
      <3>4. ASSUME NEW s \in rows PROVE s.id <= r.id
        <4>1. gap(s) \in Nat /\ gap(r) \in Nat
          BY LegacyAssumption
        <4>2. ~ (gap(s) < gap(r))
          BY <3>3, <4>1 DEF OpToRel
        <4> QED
          BY <4>2, LegacyAssumption
      <3> QED
        BY <3>4, LegacyAssumption
    <2> QED
      BY <2>1, <2>2
  <1>2. PICK i \in 0 .. MaxLegacyId : i = LargestId(rows) /\ Largest(i)
    <2>1. LargestId(rows) = CHOOSE i \in 0 .. MaxLegacyId : Largest(i)
      BY DEF LargestId
    <2> HIDE DEF Largest
    <2> QED
      BY <1>1, <2>1
  <1> QED
    BY <1>2, LegacyAssumption

\* What the transaction has been through: the constraints that its rows met.
AcceptedInv ==
    /\ mg.pc \in {"artifacts", "commit"} => \A r, s \in lrepos : r.name = s.name => r = s
    /\ mg.pc = "commit" => \A a \in lartifacts : \E r \in lrepos : r.id = a.repoId

ServedInv ==
    /\ AcceptedInv
    /\ MigratedIntegrity
    /\ MigrationTypeOK

\* Steps that write no row: the tables are what they were.
LEMMA SameTables ==
  ASSUME ServedInv, UNCHANGED tables
  PROVE  MigratedIntegrity' /\ StoreTypeOK' /\ KeyTypeOK'
  <1>1. UNCHANGED <<repos, artifacts, repoSeq, artifactSeq, keys, keySeq>>
    BY DEF tables, storeVars, keyVars
  <1> QED
    BY <1>1
    DEF ServedInv, MigratedIntegrity, MigrationTypeOK, StoreIntegrity, UniqueRepos,
        UniqueArtifacts, ForeignKeys, IdsFromSequence, KeyIntegrity, StoreTypeOK, KeyTypeOK

\* No rows break no constraint.
LEMMA NoTablesServed ==
  ASSUME NoTables
  PROVE  MigratedIntegrity' /\ StoreTypeOK' /\ KeyTypeOK'
  <1>1. 0 \in 0 .. MaxRowId /\ 0 \in 0 .. MaxKeyId
    BY StoreAssumption, KeyAssumption
  <1> QED
    BY <1>1
    DEF NoTables, MigratedIntegrity, StoreIntegrity, UniqueRepos, UniqueArtifacts, ForeignKeys,
        IdsFromSequence, KeyIntegrity, StoreTypeOK, KeyTypeOK

\* The rows of the bbolt database are rows of the tables.
LEMMA LegacyRowsAreRows == LegacyRepo \subseteq Repo /\ LegacyArtifact = Artifact
                             /\ LegacyKey = ApiKey
  BY MigrationAssumption DEF LegacyRepo, Repo, LegacyArtifact, Artifact, LegacyKey, ApiKey

\* The commit brings rows that met every constraint, and sequences above them.
LEMMA CommittedServed ==
  ASSUME MigInv, LegacyUnique, ServedInv, mg.pc = "commit",
         keys' = mg.tx.keys, repos' = mg.tx.repos, artifacts' = mg.tx.artifacts,
         keySeq' = LargestId(keys'), repoSeq' = LargestId(repos'),
         artifactSeq' = LargestId(artifacts')
  PROVE  MigratedIntegrity' /\ StoreTypeOK' /\ KeyTypeOK'
  <1>1. keys' = lkeys /\ repos' = lrepos /\ artifacts' = lartifacts
    BY DEF MigInv, TxInv
  <1>2. /\ lrepos \subseteq LegacyRepo
        /\ lartifacts \subseteq LegacyArtifact
        /\ lkeys \subseteq LegacyKey
    BY DEF MigInv, LegacyInv, LegacyTypeOK
  <1>3. /\ \A r \in lrepos : r.id \in 1 .. MaxLegacyId
        /\ \A a \in lartifacts : a.id \in 1 .. MaxLegacyId
        /\ \A k \in lkeys : k.id \in 1 .. MaxLegacyId
    BY LegacyAssumption DEF MigInv, LegacyInv, LegacyTypeOK, LegacyIdsUnique
  <1>4. /\ repoSeq' \in 0 .. MaxLegacyId /\ \A r \in lrepos : r.id \in 1 .. repoSeq'
        /\ artifactSeq' \in 0 .. MaxLegacyId /\ \A a \in lartifacts : a.id \in 1 .. artifactSeq'
        /\ keySeq' \in 0 .. MaxLegacyId /\ \A k \in lkeys : k.id \in 1 .. keySeq'
    BY <1>1, <1>3, LargestIdBounds
  <1>5. StoreTypeOK' /\ KeyTypeOK'
    BY <1>1, <1>2, <1>4, LegacyRowsAreRows, MigrationAssumption, LegacyAssumption,
       StoreAssumption, KeyAssumption
    DEF StoreTypeOK, KeyTypeOK
  <1>6. UniqueRepos' /\ ForeignKeys'
    BY <1>1 DEF UniqueRepos, ForeignKeys, ServedInv, AcceptedInv, MigInv, LegacyInv,
                LegacyIdsUnique
  <1>7. UniqueArtifacts'
    BY <1>1 DEF UniqueArtifacts, LegacyUnique, MigInv, LegacyInv, LegacyIdsUnique
  <1>8. IdsFromSequence'
    BY <1>1, <1>4 DEF IdsFromSequence
  <1>9. KeyIntegrity'
    BY <1>1, <1>4 DEF KeyIntegrity, LegacyUnique, MigInv, LegacyInv, LegacyIdsUnique
  <1> QED
    BY <1>5, <1>6, <1>7, <1>8, <1>9 DEF MigratedIntegrity, StoreIntegrity

\* Every step leaves the tables alone, empties them or commits.
LEMMA TablesStep ==
  ASSUME MigInv, LegacyUnique, ServedInv, [MigrationNext]_migrationVars
  PROVE  MigratedIntegrity' /\ StoreTypeOK' /\ KeyTypeOK'
  <1>1. CASE UNCHANGED tables
    BY <1>1, SameTables
  <1>2. CASE Commit
    BY <1>1, <1>2, CommittedServed DEF Commit
  <1>3. CASE Fail
    BY <1>1, <1>3, NoTablesServed DEF Fail
  <1> QED
    BY <1>1, <1>2, <1>3
    DEF MigrationNext, LegacyRelease, Upgrade, Start, Stat, EnsureFile, Schema, OpenLegacy,
        CopyKeys, CopyRepos, CopyArtifacts, Insert, Kill, Stop, migrationVars, tables

\* A table of the transaction was accepted as it went in.
LEMMA AcceptedStep ==
  ASSUME MigInv, ServedInv, [MigrationNext]_migrationVars
  PROVE  AcceptedInv'
  <1>1. CASE mg'.pc \notin {"artifacts", "commit"}
    BY <1>1 DEF AcceptedInv
  <1>2. CASE mg'.pc \in {"artifacts", "commit"}
    <2>1. UNCHANGED <<lrepos, lartifacts>>
      <3>1. CASE LegacyRelease
        BY <1>2, <3>1 DEF LegacyRelease
      <3> QED
        BY <3>1 DEF MigrationNext, Upgrade, Start, Stat, EnsureFile, Schema, OpenLegacy, CopyKeys,
                    CopyRepos, CopyArtifacts, Insert, Commit, Fail, Kill, Stop, migrationVars,
                    legacyVars
    <2>2. CASE mg' = mg
      BY <2>1, <2>2 DEF AcceptedInv, ServedInv
    <2>3. CASE CopyRepos
      BY <1>2, <2>1, <2>3 DEF CopyRepos, Insert, AcceptedInv, Goto, MigInv, MigState
    <2>4. CASE CopyArtifacts
      <3>1. mg.pc = "artifacts" /\ mg.tx.repos = lrepos
        BY <2>4 DEF CopyArtifacts, MigInv, TxInv
      <3>2. mg'.pc = "commit" /\ ArtifactsAccepted
        BY <1>2, <2>4 DEF CopyArtifacts, Insert, Goto, MigInv, MigState
      <3> QED
        BY <2>1, <3>1, <3>2 DEF ArtifactsAccepted, AcceptedInv, ServedInv
    <2>5. CASE Upgrade \/ Fail \/ Kill \/ Stop
      BY <1>2, <2>5 DEF Upgrade, Fail, Kill, Stop, Down
    <2>6. CASE Start \/ Stat \/ EnsureFile \/ Schema
      <3>1. mg'.pc \in {"down", "stat", "ensure", "schema", "legacy db", "serving"}
        <4>1. CASE Down
          BY <4>1, DownIsState
        <4>2. ASSUME NEW pc \in {"stat", "schema", "legacy db", "serving"}, Goto(pc)
              PROVE  mg'.pc = pc
          BY <4>2 DEF Goto, MigInv, MigState
        <4>3. CASE mg' = [mg EXCEPT !.pc = "ensure",
                                    !.migrating = newDb = "absent" /\ oldExists]
          BY <4>3 DEF MigInv, MigState
        <4> QED
          BY <2>6, <4>1, <4>2, <4>3 DEF Start, Stat, EnsureFile, Schema
      <3> QED
        BY <1>2, <3>1
    <2>7. CASE OpenLegacy \/ CopyKeys \/ Commit
      <3>1. mg'.pc \in {"keys", "repos", "serving", "fail"}
        BY <2>7 DEF OpenLegacy, CopyKeys, Insert, Commit, Goto, MigInv, MigState
      <3> QED
        BY <1>2, <3>1
    <2> QED
      BY <2>2, <2>3, <2>4, <2>5, <2>6, <2>7 DEF MigrationNext, LegacyRelease, migrationVars
  <1> QED
    BY <1>1, <1>2

LEMMA ServedTypeStep ==
  ASSUME MigInv, MigInv', LegacyUnique, ServedInv, [MigrationNext]_migrationVars
  PROVE  MigrationTypeOK'
  <1>1. StoreTypeOK' /\ KeyTypeOK'
    BY TablesStep
  <1>2. EnvironmentTypeOK' /\ accidents' \in 0 .. MaxAccidents
    <2>1. \/ UNCHANGED envVars /\ UNCHANGED accidents
          \/ Fault /\ UNCHANGED accidents
          \/ Accident
      BY DEF MigrationNext, LegacyRelease, Upgrade, Start, Stat, EnsureFile, Schema, OpenLegacy,
             CopyKeys, CopyRepos, CopyArtifacts, Insert, Commit, Fail, Kill, Stop, NoAccident,
             StepFault, NoFault, migrationVars
    <2> QED
      BY <2>1, EnvironmentAssumption, MigrationAssumption
      DEF Fault, Accident, envVars, ServedInv, MigrationTypeOK, EnvironmentTypeOK
  <1>3. oldExists' \in BOOLEAN
    BY DEF MigrationNext, LegacyRelease, Upgrade, Start, Stat, EnsureFile, Schema, OpenLegacy,
           CopyKeys, CopyRepos, CopyArtifacts, Insert, Commit, Fail, Kill, Stop, migrationVars,
           ServedInv, MigrationTypeOK
  <1>4. mg' \in [pc : MigrationPc, migrating : BOOLEAN, tx : Rows]
    <2>1. mg' \in MigState
      BY DEF MigInv
    <2> QED
      BY <2>1, LegacyRowsAreRows DEF MigState, Rows
  <1> QED
    BY <1>1, <1>2, <1>3, <1>4 DEF MigrationTypeOK, MigInv, LegacyInv

LEMMA ServedInit ==
  ASSUME MigrationInit
  PROVE  ServedInv
  <1>1. AcceptedInv
    BY DEF MigrationInit, AcceptedInv
  <1>2. MigratedIntegrity
    BY DEF MigrationInit, StoreInit, KeyInit, MigratedIntegrity, StoreIntegrity, UniqueRepos,
           UniqueArtifacts, ForeignKeys, IdsFromSequence, KeyIntegrity
  <1>3. StoreTypeOK /\ KeyTypeOK /\ EnvironmentTypeOK /\ accidents \in 0 .. MaxAccidents
    BY StoreAssumption, KeyAssumption, EnvironmentAssumption, MigrationAssumption,
       ClockAssumption
    DEF MigrationInit, StoreInit, KeyInit, EnvironmentInit, StoreTypeOK, KeyTypeOK,
        EnvironmentTypeOK, Instant
  <1>4. mg \in [pc : MigrationPc, migrating : BOOLEAN, tx : Rows]
    BY DEF MigrationInit, MigrationPc, NoRows, Rows
  <1>5. LegacyTypeOK
    BY MigInit DEF MigInv, LegacyInv
  <1> QED
    BY <1>1, <1>2, <1>3, <1>4, <1>5 DEF ServedInv, MigrationTypeOK, MigrationInit

\* What the copying has accepted, and the tables that come of it.
THEOREM ServedInvariant == MigrationSpec => []ServedInv
  <1>1. MigrationInit => ServedInv /\ ReasonInv
    BY ServedInit DEF MigrationInit, ReasonInv, LegacyInit, LegacyUnique, EnvironmentInit
  <1>2. MigInv /\ MigInv' /\ ReasonInv /\ ServedInv /\ [MigrationNext]_migrationVars
            => ReasonInv' /\ ServedInv'
    BY ReasonStep, TablesStep, AcceptedStep, ServedTypeStep DEF ServedInv, ReasonInv
  <1> QED
    BY <1>1, <1>2, MigrationInvariant, PTL DEF MigrationSpec

\* The types of the migration, for databases of any size.
THEOREM MigrationTypeCorrect == MigrationSpec => []MigrationTypeOK
  <1>1. ServedInv => MigrationTypeOK
    BY DEF ServedInv
  <1> QED
    BY <1>1, ServedInvariant, PTL

\* Whatever the bbolt database had in it, the tables that are served keep the
\* promises of the schema, and new ids are above the migrated ones
\* (migrate.go:94-148, migrations.go).
THEOREM MigratedTablesAreSound == MigrationSpec => []MigratedIntegrity
  <1>1. ServedInv => MigratedIntegrity
    BY DEF ServedInv
  <1> QED
    BY <1>1, ServedInvariant, PTL
=============================================================================
