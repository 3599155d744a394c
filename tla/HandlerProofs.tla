----------------------------- MODULE HandlerProofs -----------------------------
(***************************************************************************)
(* The parts that the server and the administrator's commands share, for   *)
(* every value of the constants.  First the tables: they keep what the     *)
(* schema promises, under any sequence of calls.  Then the handlers, one   *)
(* lemma for each and each question: which statements of the store its     *)
(* steps make, that they keep the types, and that a repository's id and    *)
(* its name stay together.                                                 *)
(***************************************************************************)
EXTENDS UploadHandler, RepoHandlers, TLAPS

StoreInv == StoreTypeOK /\ StoreIntegrity

LEMMA StoreInitInv == StoreInit => StoreInv
  BY StoreAssumption, ClockAssumption
     DEF StoreInit, StoreInv, StoreTypeOK, StoreIntegrity, UniqueRepos,
         UniqueArtifacts, ForeignKeys, IdsFromSequence

\* One lemma per statement.

LEMMA RepoCreateInv ==
  ASSUME StoreInv, NEW n \in RepoName, NEW p \in Policy, RepoCreate(n, p)
  PROVE  StoreInv'
  <1> DEFINE new == [id |-> NextRepoId, name |-> n,
                     keepCount |-> p.keepCount, keepDays |-> p.keepDays]
  <1>0. repoSeq \in Nat
    BY StoreAssumption DEF StoreInv, StoreTypeOK
  <1>1. /\ repos' = repos \union {new}
        /\ repoSeq' = repoSeq + 1
        /\ artifacts' = artifacts /\ artifactSeq' = artifactSeq
        /\ new.id = repoSeq + 1 /\ new.name = n
        /\ \A r \in repos : r.name # n
        /\ repoSeq < MaxRowId
    BY <1>0 DEF RepoCreate, RepoCreatable, ReposNamed, NextRepoId
  <1>2. new \in Repo
    BY StoreAssumption DEF StoreInv, StoreTypeOK, Policy, Repo, NextRepoId
  <1> HIDE DEF new
  <1>3. StoreTypeOK'
    BY <1>1, <1>2, StoreAssumption DEF StoreInv, StoreTypeOK
  <1>4. \A r \in repos : r.id \in 1 .. repoSeq
    BY DEF StoreInv, StoreIntegrity, IdsFromSequence
  <1>6. UniqueRepos'
    BY <1>1, <1>4, <1>0 DEF StoreInv, StoreIntegrity, UniqueRepos
  <1>7. UniqueArtifacts' /\ ForeignKeys'
    BY <1>1 DEF StoreInv, StoreIntegrity, UniqueArtifacts, ForeignKeys
  <1>8. IdsFromSequence'
    BY <1>1, <1>4, <1>0 DEF StoreInv, StoreIntegrity, IdsFromSequence
  <1> QED
    BY <1>3, <1>6, <1>7, <1>8 DEF StoreInv, StoreIntegrity

LEMMA RepoUpdateInv ==
  ASSUME StoreInv, NEW row \in Repo, RepoUpdate(row)
  PROVE  StoreInv'
  <1>1. /\ repos' = {r \in repos : r.id # row.id} \union {row}
        /\ UNCHANGED <<artifacts, repoSeq, artifactSeq>>
        /\ \A r \in repos : r.name = row.name => r.id = row.id
        /\ \E r \in repos : r.id = row.id
    BY DEF RepoUpdate, RepoUpdatable, ReposNamed, ReposWithId
  <1>2. StoreTypeOK'
    BY <1>1 DEF StoreInv, StoreTypeOK
  <1>3. UniqueRepos'
    BY <1>1 DEF StoreInv, StoreIntegrity, UniqueRepos
  <1>4. UniqueArtifacts'
    BY <1>1 DEF StoreInv, StoreIntegrity, UniqueArtifacts
  <1>5. ForeignKeys'
    BY <1>1 DEF StoreInv, StoreIntegrity, ForeignKeys
  <1>6. IdsFromSequence'
    BY <1>1 DEF StoreInv, StoreIntegrity, IdsFromSequence
  <1> QED
    BY <1>2, <1>3, <1>4, <1>5, <1>6 DEF StoreInv, StoreIntegrity

LEMMA RepoDeleteInv ==
  ASSUME StoreInv, NEW i, RepoDelete(i)
  PROVE  StoreInv'
  <1>1. /\ repos' = {r \in repos : r.id # i}
        /\ UNCHANGED <<artifacts, repoSeq, artifactSeq>>
        /\ \A a \in artifacts : a.repoId # i
    BY DEF RepoDelete, RepoDeletable, ReposWithId, ArtifactsOf
  <1> QED
    BY <1>1 DEF StoreInv, StoreTypeOK, StoreIntegrity, UniqueRepos,
                UniqueArtifacts, ForeignKeys, IdsFromSequence

LEMMA ArtifactCreateInv ==
  ASSUME StoreInv, NEW i \in Nat, NEW path \in Path, NEW u \in Upload, NEW t \in Instant,
         ArtifactCreate(i, path, u, t)
  PROVE  StoreInv'
  <1> DEFINE new == [id |-> NextArtifactId, name |-> path[2], repoId |-> i,
                     path |-> path, sha |-> u, createdAt |-> t]
  <1>1. /\ artifacts' = artifacts \union {new}
        /\ artifactSeq' = artifactSeq + 1
        /\ repos' = repos /\ repoSeq' = repoSeq
        /\ new.id = artifactSeq + 1 /\ new.repoId = i /\ new.name = path[2]
        /\ \E r \in repos : r.id = i
        /\ \A a \in artifacts : ~ (a.repoId = i /\ a.name = path[2])
        /\ artifactSeq < MaxRowId
    BY DEF ArtifactCreate, ArtifactCreatable, ArtifactTaken, ArtifactsNamed,
           ArtifactsOf, ReposWithId, NextArtifactId
  <1>2. new \in Artifact
    BY StoreAssumption
       DEF StoreInv, StoreTypeOK, Artifact, Path, NextArtifactId
  <1> HIDE DEF new
  <1>3. StoreTypeOK'
    BY <1>1, <1>2, StoreAssumption DEF StoreInv, StoreTypeOK
  <1>4. \A a \in artifacts : a.id \in 1 .. artifactSeq
    BY DEF StoreInv, StoreIntegrity, IdsFromSequence
  <1>5. artifactSeq \in Nat
    BY StoreAssumption DEF StoreInv, StoreTypeOK
  <1>6. UniqueArtifacts'
    BY <1>1, <1>4, <1>5 DEF StoreInv, StoreIntegrity, UniqueArtifacts
  <1>7. UniqueRepos' /\ ForeignKeys'
    BY <1>1 DEF StoreInv, StoreIntegrity, UniqueRepos, ForeignKeys
  <1>8. IdsFromSequence'
    BY <1>1, <1>4, <1>5 DEF StoreInv, StoreIntegrity, IdsFromSequence
  <1> QED
    BY <1>3, <1>6, <1>7, <1>8 DEF StoreInv, StoreIntegrity

\* Both deletions, and any other that takes rows away from artifacts only.
LEMMA FewerArtifactsInv ==
  ASSUME StoreInv, artifacts' \subseteq artifacts, UNCHANGED <<repos, repoSeq, artifactSeq>>
  PROVE  StoreInv'
  BY DEF StoreInv, StoreTypeOK, StoreIntegrity, UniqueRepos, UniqueArtifacts,
         ForeignKeys, IdsFromSequence

LEMMA StoreStepInv == StoreInv /\ [StoreNext]_storeVars => StoreInv'
  <1> SUFFICES ASSUME StoreInv, [StoreNext]_storeVars PROVE StoreInv'
    OBVIOUS
  <1>1. ASSUME NEW n \in RepoName, NEW p \in Policy, RepoCreate(n, p) PROVE StoreInv'
    BY <1>1, RepoCreateInv
  <1>2. ASSUME NEW i \in 1 .. repoSeq, NEW n \in RepoName, NEW k \in Keep, NEW d \in Keep,
               RepoUpdate([id |-> i, name |-> n, keepCount |-> k, keepDays |-> d])
        PROVE  StoreInv'
    <2>1. [id |-> i, name |-> n, keepCount |-> k, keepDays |-> d] \in Repo
      BY StoreAssumption DEF Repo, StoreInv, StoreTypeOK
    <2> QED
      BY <1>2, <2>1, RepoUpdateInv
  <1>3. ASSUME NEW i \in 1 .. repoSeq, RepoDelete(i) PROVE StoreInv'
    BY <1>3, RepoDeleteInv
  <1>4. ASSUME NEW i \in 1 .. repoSeq, NEW path \in Path, NEW u \in Upload, NEW t \in Instant,
               ArtifactCreate(i, path, u, t)
        PROVE  StoreInv'
    BY <1>4, ArtifactCreateInv, StoreAssumption DEF StoreInv, StoreTypeOK
  <1>5. ASSUME NEW i \in 1 .. artifactSeq, ArtifactDelete(i) PROVE StoreInv'
    BY <1>5, FewerArtifactsInv DEF ArtifactDelete
  <1>6. ASSUME NEW i \in 1 .. repoSeq, ArtifactDeleteByRepo(i) PROVE StoreInv'
    BY <1>6, FewerArtifactsInv DEF ArtifactDeleteByRepo
  <1>7. CASE UNCHANGED storeVars
    BY <1>7, FewerArtifactsInv DEF storeVars
  <1> QED
    BY <1>1, <1>2, <1>3, <1>4, <1>5, <1>6, <1>7 DEF StoreNext

\* The columns and the two sequences have the types the schema gives them.
THEOREM StoreTypeCorrect == StoreSpec => []StoreTypeOK
  <1>1. StoreInv => StoreTypeOK
    BY DEF StoreInv
  <1> QED
    BY <1>1, StoreInitInv, StoreStepInv, PTL DEF StoreSpec

\* Ids and names identify rows and every artifact belongs to a repository
\* (migrations.go:20-53).
THEOREM StoreKeepsIntegrity == StoreSpec => []StoreIntegrity
  <1>1. StoreInv => StoreIntegrity
    BY DEF StoreInv
  <1> QED
    BY <1>1, StoreInitInv, StoreStepInv, PTL DEF StoreSpec

-----------------------------------------------------------------------------
(* Ids.  A step adds a row only under the id after the largest ever used.  *)

FreshArtifacts ==
  /\ \A a \in artifacts' : a \in artifacts \/ a.id = artifactSeq + 1
  /\ artifactSeq <= artifactSeq'

FreshRepos == \A r \in repos' : (\E s \in repos : s.id = r.id) \/ r.id = repoSeq + 1

LEMMA StoreStepFresh ==
  StoreInv /\ [StoreNext]_storeVars => FreshArtifacts /\ FreshRepos
  <1> SUFFICES ASSUME StoreInv, [StoreNext]_storeVars PROVE FreshArtifacts /\ FreshRepos
    OBVIOUS
  <1>0. artifactSeq \in Int /\ repoSeq \in Int
    BY StoreAssumption DEF StoreInv, StoreTypeOK
  <1>1. ASSUME NEW n \in RepoName, NEW p \in Policy, RepoCreate(n, p)
        PROVE  FreshArtifacts /\ FreshRepos
    BY <1>0, <1>1 DEF RepoCreate, NextRepoId, FreshArtifacts, FreshRepos
  <1>2. ASSUME NEW i \in 1 .. repoSeq, NEW n \in RepoName, NEW k \in Keep, NEW d \in Keep,
               RepoUpdate([id |-> i, name |-> n, keepCount |-> k, keepDays |-> d])
        PROVE  FreshArtifacts /\ FreshRepos
    BY <1>0, <1>2
       DEF RepoUpdate, RepoUpdatable, ReposWithId, FreshArtifacts, FreshRepos
  <1>3. ASSUME NEW i \in 1 .. repoSeq, RepoDelete(i) PROVE FreshArtifacts /\ FreshRepos
    BY <1>0, <1>3 DEF RepoDelete, FreshArtifacts, FreshRepos
  <1>4. ASSUME NEW i \in 1 .. repoSeq, NEW path \in Path, NEW u \in Upload, NEW t \in Instant,
               ArtifactCreate(i, path, u, t)
        PROVE  FreshArtifacts /\ FreshRepos
    BY <1>0, <1>4 DEF ArtifactCreate, NextArtifactId, FreshArtifacts, FreshRepos
  <1>5. ASSUME NEW i \in 1 .. artifactSeq, ArtifactDelete(i)
        PROVE  FreshArtifacts /\ FreshRepos
    BY <1>0, <1>5 DEF ArtifactDelete, FreshArtifacts, FreshRepos
  <1>6. ASSUME NEW i \in 1 .. repoSeq, ArtifactDeleteByRepo(i)
        PROVE  FreshArtifacts /\ FreshRepos
    BY <1>0, <1>6 DEF ArtifactDeleteByRepo, FreshArtifacts, FreshRepos
  <1>7. CASE UNCHANGED storeVars
    BY <1>0, <1>7 DEF storeVars, FreshArtifacts, FreshRepos
  <1> QED
    BY <1>1, <1>2, <1>3, <1>4, <1>5, <1>6, <1>7 DEF StoreNext

IdsStayGone ==
  /\ \A i \in 1 .. artifactSeq :
         (\A a \in artifacts : a.id # i) => (\A a \in artifacts' : a.id # i)
  /\ \A i \in 1 .. repoSeq :
         (\A r \in repos : r.id # i) => (\A r \in repos' : r.id # i)

LEMMA StoreStepIds == StoreInv /\ [StoreNext]_storeVars => IdsStayGone
  <1>1. StoreInv => artifactSeq \in Int /\ repoSeq \in Int
    BY StoreAssumption DEF StoreInv, StoreTypeOK
  <1> QED
    BY <1>1, StoreStepFresh DEF FreshArtifacts, FreshRepos, IdsStayGone

\* The id of a row that is gone never names another row (the AUTOINCREMENT of
\* migrations.go:32, 44).
THEOREM StoreNeverReusesIds == StoreSpec => IdsNeverReused
  <1>1. StoreSpec => []StoreInv
    BY StoreInitInv, StoreStepInv, PTL DEF StoreSpec
  <1>2. StoreInv /\ [StoreNext]_storeVars => [IdsStayGone]_storeVars
    BY StoreStepIds
  <1>3. IdsNeverReused <=> [][IdsStayGone]_storeVars
    BY DEF IdsNeverReused, IdsStayGone
  <1> QED
    BY <1>1, <1>2, <1>3, PTL DEF StoreSpec

-----------------------------------------------------------------------------
(* The handlers.                                                           *)

(***************************************************************************)
(* What each program counter says of the locals beside it.                 *)
(***************************************************************************)
UploadLocals ==
  \A u \in Upload :
    up[u].pc \in {"check", "temp", "copy", "rename", "insert", "rollback409", "rollback500"}
      => up[u].path \in Path

AdminLocals ==
  /\ \A c \in CreateReq : cr[c].pc \in {"insert", "rmdir"} => cr[c].name \in RepoName
  /\ \A c \in CreateReq : cr[c].pc = "insert" => cr[c].policy \in Policies
  /\ \A p \in UpdateReq : pt[p].pc = "put" => pt[p].row \in Repo /\ pt[p].patch \in Patches
  /\ \A d \in DeleteReq :
        dl[d].pc \in {"rows", "row", "list", "unlink"} => dl[d].name \in RepoName

HandlersInv ==
  /\ EnvironmentTypeOK
  /\ StoreTypeOK
  /\ DataDirTypeOK
  /\ UploadTypeOK
  /\ AdminTypeOK
  /\ StoreIntegrity
  /\ UploadLocals
  /\ AdminLocals

-----------------------------------------------------------------------------
(* Every step of a handler is a step of the store, or leaves it alone.     *)

LEMMA UploadStoreStep ==
  ASSUME HandlersInv, NEW u \in Upload, UploadStep(u)
  PROVE  [StoreNext]_storeVars
  <1>1. CASE UploadInsert(u)
    <2>1. CASE ArtifactCreate(up[u].repoId, up[u].path, u, up[u].createdAt)
      <3>1. up[u].path \in Path /\ up[u].createdAt \in Instant
        BY <1>1 DEF UploadInsert, HandlersInv, UploadTypeOK, UploadState, UploadLocals
      <3>2. up[u].repoId \in 1 .. repoSeq
        BY <2>1 DEF ArtifactCreate, ArtifactCreatable, ReposWithId, HandlersInv,
                    StoreIntegrity, IdsFromSequence
      <3> QED
        BY <2>1, <3>1, <3>2 DEF StoreNext
    <2> QED
      BY <1>1, <2>1 DEF UploadInsert
  <1> QED
    BY <1>1 DEF UploadStep, UploadLookup, UploadCheck, UploadCreateTemp, UploadCopy,
                UploadCopyFails, UploadRename, UploadRollback, UploadQueryFails

LEMMA CreateStoreStep ==
  ASSUME HandlersInv, NEW c \in CreateReq, CreateStep(c)
  PROVE  [StoreNext]_storeVars
  <1>1. CASE CreateInsert(c)
    <2>1. cr[c].name \in RepoName /\ cr[c].policy \in Policy
      BY <1>1, RepoHandlersAssumption DEF CreateInsert, HandlersInv, AdminLocals
    <2> QED
      BY <1>1, <2>1 DEF CreateInsert, StoreNext
  <1> QED
    BY <1>1 DEF CreateStep, CreateMkdir, CreateRmdir

LEMMA PatchedType ==
  ASSUME NEW row \in Repo, NEW patch \in Patches
  PROVE  /\ Patched(row, patch) \in Repo
         /\ Patched(row, patch).id = row.id
         /\ Patched(row, patch).name = row.name
  BY RepoHandlersAssumption DEF Patched, Repo

LEMMA UpdateStoreStep ==
  ASSUME HandlersInv, NEW p \in UpdateReq, UpdateStep(p)
  PROVE  [StoreNext]_storeVars
  <1>1. CASE UpdatePut(p) /\ RepoUpdate(Patched(pt[p].row, pt[p].patch))
    <2> DEFINE new == Patched(pt[p].row, pt[p].patch)
    <2>1. new \in Repo
      BY <1>1, PatchedType DEF UpdatePut, HandlersInv, AdminLocals
    <2>2. new.id \in 1 .. repoSeq
      BY <1>1
         DEF RepoUpdate, RepoUpdatable, ReposWithId, HandlersInv, StoreIntegrity, IdsFromSequence
    <2>3. new = [id |-> new.id, name |-> new.name,
                 keepCount |-> new.keepCount, keepDays |-> new.keepDays]
      BY <2>1 DEF Repo
    <2>4. new.name \in RepoName /\ new.keepCount \in Keep /\ new.keepDays \in Keep
      BY <2>1 DEF Repo
    <2>5. RepoUpdate(new)
      BY <1>1
    <2> HIDE DEF new
    <2> QED
      BY <2>2, <2>3, <2>4, <2>5 DEF StoreNext
  <1> QED
    BY <1>1 DEF UpdateStep, UpdateGet, UpdatePut

\* A deletion that finds no row is not even a step of the store.
LEMMA ArtifactDeleteStep ==
  ASSUME HandlersInv, NEW i, ArtifactDelete(i)
  PROVE  [StoreNext]_storeVars
  <1>1. CASE \E a \in artifacts : a.id = i
    BY <1>1 DEF HandlersInv, StoreIntegrity, IdsFromSequence, StoreNext
  <1>2. CASE \A a \in artifacts : a.id # i
    BY <1>2 DEF ArtifactDelete, storeVars
  <1> QED
    BY <1>1, <1>2

LEMMA ArtifactDeleteByRepoStep ==
  ASSUME HandlersInv, NEW i, ArtifactDeleteByRepo(i)
  PROVE  [StoreNext]_storeVars
  <1>1. CASE \E a \in artifacts : a.repoId = i
    <2>1. i \in 1 .. repoSeq
      BY <1>1 DEF HandlersInv, StoreIntegrity, ForeignKeys, IdsFromSequence
    <2> QED
      BY <2>1 DEF StoreNext
  <1>2. CASE \A a \in artifacts : a.repoId # i
    BY <1>2 DEF ArtifactDeleteByRepo, ArtifactsOf, storeVars
  <1> QED
    BY <1>1, <1>2

LEMMA DeleteStoreStep ==
  ASSUME HandlersInv, NEW d \in DeleteReq, DeleteStep(d)
  PROVE  [StoreNext]_storeVars
  <1>1. CASE DeleteRows(d)
    BY <1>1, ArtifactDeleteByRepoStep DEF DeleteRows
  <1>2. CASE DeleteRow(d) /\ RepoDelete(dl[d].id)
    <2>1. dl[d].id \in 1 .. repoSeq
      BY <1>2
         DEF RepoDelete, RepoDeletable, ReposWithId, HandlersInv, StoreIntegrity, IdsFromSequence
    <2> QED
      BY <1>2, <2>1 DEF StoreNext
  <1>3. CASE DeleteRow(d) /\ ~ RepoDelete(dl[d].id)
    BY <1>3 DEF DeleteRow
  <1> QED
    BY <1>1, <1>2, <1>3
       DEF DeleteStep, DeleteGet, DeleteList, DeleteUnlink, DeleteRmdir, DeleteRemoveFails

-----------------------------------------------------------------------------
(* Types.  First the environment and the operations on the directory.      *)

LEMMA HandlersInitType ==
  EnvironmentInit /\ UploadInit /\ AdminInit =>
    /\ EnvironmentTypeOK
    /\ UploadTypeOK /\ UploadLocals
    /\ AdminTypeOK /\ AdminLocals
  <1>1. EnvironmentInit => EnvironmentTypeOK
    BY ClockAssumption, EnvironmentAssumption DEF EnvironmentInit, EnvironmentTypeOK, Instant
  <1>2. UploadInit => UploadTypeOK /\ UploadLocals
    BY ClockAssumption DEF UploadInit, UploadTypeOK, UploadState, UploadPc, UploadLocals, Instant
  <1>3. AdminInit => AdminTypeOK /\ AdminLocals
    BY DEF AdminInit, AdminTypeOK, CreateState, UpdateState, DeleteState, AdminAnswered,
           AdminLocals
  <1> QED
    BY <1>1, <1>2, <1>3

LEMMA EnvironmentStepType ==
  ASSUME EnvironmentTypeOK, Fault \/ NoFault
  PROVE  EnvironmentTypeOK'
  BY EnvironmentAssumption DEF EnvironmentTypeOK, Fault, NoFault, envVars, Instant

LEMMA DirectoryStepType ==
  ASSUME DataDirTypeOK, NEW d \in RepoName, MkdirAll(d) \/ RemoveDir(d)
  PROVE  DataDirTypeOK'
  BY DEF DataDirTypeOK, MkdirAll, RemoveDir

LEMMA RemoveFileType ==
  ASSUME DataDirTypeOK, NEW p \in Path, RemoveFile(p)
  PROVE  DataDirTypeOK'
  BY DEF DataDirTypeOK, RemoveFile

LEMMA TempStepType ==
  ASSUME DataDirTypeOK, NEW u \in Upload, NEW p \in Path,
         CreateTemp(u, p[1]) \/ WriteTemp(u) \/ RemoveTemp(u) \/ RenameTemp(u, p)
  PROVE  DataDirTypeOK'
  <1>1. p[1] \in RepoName
    BY DEF Path
  <1>2. CASE CreateTemp(u, p[1])
    BY <1>1, <1>2 DEF DataDirTypeOK, CreateTemp, Temp
  <1>3. CASE WriteTemp(u)
    <2>1. HasTemp(u) => temps[u] \in Temp
      BY DEF DataDirTypeOK, HasTemp
    <2>2. HasTemp(u) => [temps EXCEPT ![u].body = u] \in [Upload -> Temp \union {NoFile}]
      BY <2>1 DEF DataDirTypeOK, Temp
    <2> QED
      BY <1>3, <2>2 DEF DataDirTypeOK, WriteTemp
  <1>4. CASE RemoveTemp(u)
    BY <1>4 DEF DataDirTypeOK, RemoveTemp
  <1>5. CASE RenameTemp(u, p)
    BY <1>5 DEF DataDirTypeOK, RenameTemp, HasTemp, Temp
  <1> QED
    BY <1>2, <1>3, <1>4, <1>5

LEMMA UnlinkType ==
  ASSUME DataDirTypeOK, NEW d, NEW e, Unlink(d, e)
  PROVE  DataDirTypeOK'
  <1>1. \A p \in Path : files'[p] \in Upload \union {NoFile, Partial}
    BY DEF DataDirTypeOK, Unlink
  <1>2. \A u \in Upload : temps'[u] \in Temp \union {NoFile}
    BY DEF DataDirTypeOK, Unlink
  <1> QED
    BY <1>1, <1>2 DEF DataDirTypeOK, Unlink

LEMMA UploadStepType ==
  ASSUME HandlersInv, NEW u \in Upload, UploadStep(u)
  PROVE  /\ EnvironmentTypeOK'
         /\ DataDirTypeOK'
         /\ UploadTypeOK'
         /\ UploadLocals'
  <1> USE DEF HandlersInv
  <1>0. 0 \in Instant
    BY ClockAssumption DEF Instant
  <1>1. /\ up \in [Upload -> UploadState]
        /\ up[u].pc \in {"check", "temp", "copy", "rename", "insert",
                         "rollback409", "rollback500"} => up[u].path \in Path
    BY DEF UploadTypeOK, UploadLocals
  \* Every action writes fields of up[u] with values of their types.
  <1>2. ASSUME NEW pc \in UploadPc, NEW path \in Path \union {NoPath}, NEW i \in Nat,
               NEW t \in Instant,
               up' = [up EXCEPT ![u] = [pc |-> pc, path |-> path, repoId |-> i, createdAt |-> t]],
               pc \in {"check", "temp", "copy", "rename", "insert",
                       "rollback409", "rollback500"} => path \in Path
        PROVE  UploadTypeOK' /\ UploadLocals'
    <2>1. UploadTypeOK'
      BY <1>1, <1>2 DEF UploadTypeOK, UploadState
    <2>2. UploadLocals'
      BY <1>1, <1>2 DEF UploadLocals
    <2> QED
      BY <2>1, <2>2
  <1>3. up[u].path \in Path \union {NoPath} /\ up[u].repoId \in Nat /\ up[u].createdAt \in Instant
    BY <1>1 DEF UploadState
  <1>4. ASSUME NEW s \in UploadPc, UploadAnswer(u, s), s \in UploadAnswered
        PROVE  UploadTypeOK' /\ UploadLocals'
    BY <1>0, <1>2, <1>3, <1>4 DEF UploadAnswer, UploadAnswered
  <1>5. ASSUME NEW s \in UploadPc, UploadGoto(u, s), up[u].path \in Path
        PROVE  UploadTypeOK' /\ UploadLocals'
    <2>1. UploadTypeOK'
      BY <1>1, <1>5 DEF UploadGoto, UploadTypeOK, UploadState
    <2>2. UploadLocals'
      BY <1>1, <1>5 DEF UploadGoto, UploadLocals, UploadTypeOK, UploadState
    <2> QED
      BY <2>1, <2>2
  <1>6. UploadTypeOK' /\ UploadLocals'
    <2>1. CASE UploadLookup(u)
      <3>1. PICK p \in Path :
              \/ up' = [up EXCEPT ![u] = [pc |-> "404", path |-> p, repoId |-> 0,
                                         createdAt |-> 0]]
              \/ \E r \in ReposNamed(p[1]) :
                    up' = [up EXCEPT ![u] = [pc |-> "check", path |-> p, repoId |-> r.id,
                                             createdAt |-> 0]]
        BY <2>1 DEF UploadLookup
      <3>2. \A r \in ReposNamed(p[1]) : r.id \in Nat
        BY DEF ReposNamed, StoreTypeOK, Repo
      <3> QED
        BY <1>0, <1>2, <3>1, <3>2 DEF UploadPc
    <2>2. CASE UploadCheck(u) \/ UploadCreateTemp(u) \/ UploadCopy(u) \/ UploadCopyFails(u)
      BY <1>1, <1>4, <1>5, <2>2
         DEF UploadCheck, UploadCreateTemp, UploadCopy, UploadCopyFails, UploadPc, UploadAnswered
    <2>3. CASE UploadRename(u)
      <3>1. Timestamp \in Instant /\ up[u].path \in Path
        BY <1>1, <2>3 DEF EnvironmentTypeOK, UploadRename, Timestamp
      <3> QED
        BY <1>2, <1>3, <1>4, <2>3, <3>1 DEF UploadRename, UploadPc, UploadAnswered
    <2>4. CASE UploadInsert(u)
      BY <1>1, <1>4, <1>5, <2>4 DEF UploadInsert, UploadPc, UploadAnswered
    <2>5. CASE UploadRollback(u) \/ UploadQueryFails(u)
      BY <1>4, <2>5 DEF UploadRollback, UploadQueryFails, UploadPc, UploadAnswered
    <2> QED
      BY <2>1, <2>2, <2>3, <2>4, <2>5 DEF UploadStep
  <1>7. EnvironmentTypeOK'
    <2>1. Fault \/ NoFault
      BY DEF UploadStep, UploadLookup, UploadCheck, UploadCreateTemp, UploadCopy,
             UploadCopyFails, UploadRename, UploadInsert, UploadRollback, UploadQueryFails
    <2> QED
      BY <2>1, EnvironmentStepType
  <1>8. DataDirTypeOK'
    <2>1. CASE UploadCreateTemp(u) \/ UploadCopy(u) \/ UploadCopyFails(u) \/ UploadRename(u)
      <3>1. up[u].path \in Path
        BY <1>1, <2>1 DEF UploadCreateTemp, UploadCopy, UploadCopyFails, UploadRename
      <3>2. \/ CreateTemp(u, up[u].path[1])
            \/ WriteTemp(u)
            \/ RemoveTemp(u)
            \/ RenameTemp(u, up[u].path)
            \/ UNCHANGED dirVars
        BY <2>1 DEF UploadCreateTemp, UploadCopy, UploadCopyFails, UploadRename
      <3>3. CASE UNCHANGED dirVars
        BY <3>3 DEF dirVars, DataDirTypeOK
      <3> QED
        BY <3>1, <3>2, <3>3, TempStepType
    <2>2. CASE UploadRollback(u)
      BY <1>1, <2>2, RemoveFileType DEF UploadRollback
    <2>3. CASE UNCHANGED dirVars
      BY <2>3 DEF dirVars, DataDirTypeOK
    <2> QED
      BY <2>1, <2>2, <2>3
         DEF UploadStep, UploadLookup, UploadCheck, UploadInsert, UploadQueryFails
  <1> QED
    BY <1>6, <1>7, <1>8

LEMMA CreateStepType ==
  ASSUME HandlersInv, NEW c \in CreateReq, CreateStep(c)
  PROVE  /\ EnvironmentTypeOK'
         /\ DataDirTypeOK'
         /\ AdminTypeOK'
         /\ AdminLocals'
  <1> USE DEF HandlersInv
  <1>1. cr[c] \in CreateState /\ (cr[c].pc \in {"insert", "rmdir"} => cr[c].name \in RepoName)
    BY DEF AdminTypeOK, AdminLocals
  <1>2. EnvironmentTypeOK'
    BY EnvironmentStepType DEF CreateStep, CreateMkdir, CreateInsert, CreateRmdir
  <1>3. DataDirTypeOK'
    <2>1. ASSUME NEW n \in RepoName, MkdirAll(n) \/ RemoveDir(n) PROVE DataDirTypeOK'
      BY <2>1, DirectoryStepType
    <2>2. CASE UNCHANGED dirVars
      BY <2>2 DEF dirVars, DataDirTypeOK
    <2>3. CASE CreateRmdir(c)
      BY <1>1, <2>1, <2>3 DEF CreateRmdir
    <2> QED
      BY <2>1, <2>2, <2>3 DEF CreateStep, CreateMkdir, CreateInsert
  <1>4. cr' \in [CreateReq -> CreateState]
    <2>1. CASE CreateMkdir(c)
      BY <1>1, <2>1 DEF CreateMkdir, CreateAnswer, AdminTypeOK, CreateState, AdminAnswered
    <2>2. CASE CreateInsert(c)
      BY <1>1, <2>2 DEF CreateInsert, CreateAnswer, AdminTypeOK, CreateState, AdminAnswered
    <2>3. CASE CreateRmdir(c)
      BY <1>1, <2>3 DEF CreateRmdir, CreateAnswer, AdminTypeOK, CreateState, AdminAnswered
    <2> QED
      BY <2>1, <2>2, <2>3 DEF CreateStep
  <1>5. \A e \in CreateReq :
          /\ cr'[e].pc \in {"insert", "rmdir"} => cr'[e].name \in RepoName
          /\ cr'[e].pc = "insert" => cr'[e].policy \in Policies
    <2>1. CASE CreateMkdir(c)
      BY <2>1 DEF CreateMkdir, CreateAnswer, AdminTypeOK, AdminLocals
    <2>2. CASE CreateInsert(c)
      BY <1>1, <2>2 DEF CreateInsert, CreateAnswer, AdminTypeOK, AdminLocals, CreateState
    <2>3. CASE CreateRmdir(c)
      BY <2>3 DEF CreateRmdir, CreateAnswer, AdminTypeOK, AdminLocals
    <2> QED
      BY <2>1, <2>2, <2>3 DEF CreateStep
  <1>6. pt' = pt /\ dl' = dl
    BY DEF CreateStep, CreateMkdir, CreateInsert, CreateRmdir
  <1> QED
    BY <1>2, <1>3, <1>4, <1>5, <1>6 DEF AdminTypeOK, AdminLocals

LEMMA UpdateStepType ==
  ASSUME HandlersInv, NEW p \in UpdateReq, UpdateStep(p)
  PROVE  /\ EnvironmentTypeOK'
         /\ DataDirTypeOK'
         /\ AdminTypeOK'
         /\ AdminLocals'
  <1> USE DEF HandlersInv
  <1>1. pt[p] \in UpdateState
    BY DEF AdminTypeOK
  <1>2. EnvironmentTypeOK'
    BY EnvironmentStepType DEF UpdateStep, UpdateGet, UpdatePut
  <1>3. UNCHANGED <<dirVars, cr, dl>>
    BY DEF UpdateStep, UpdateGet, UpdatePut
  <1>4. /\ pt' \in [UpdateReq -> UpdateState]
        /\ \A q \in UpdateReq :
              pt'[q].pc = "put" => pt'[q].row \in Repo /\ pt'[q].patch \in Patches
    <2>1. CASE UpdateGet(p)
      <3>1. \A i : ReposWithId(i) \subseteq Repo
        BY DEF ReposWithId, StoreTypeOK
      <3> QED
        BY <1>1, <2>1, <3>1
           DEF UpdateGet, UpdateAnswer, AdminTypeOK, AdminLocals, UpdateState, AdminAnswered
    <2>2. CASE UpdatePut(p)
      BY <1>1, <2>2
         DEF UpdatePut, UpdateAnswer, AdminTypeOK, AdminLocals, UpdateState, AdminAnswered
    <2> QED
      BY <2>1, <2>2 DEF UpdateStep
  <1> QED
    BY <1>2, <1>3, <1>4 DEF AdminTypeOK, AdminLocals, dirVars, DataDirTypeOK

LEMMA DeleteStepType ==
  ASSUME HandlersInv, NEW d \in DeleteReq, DeleteStep(d)
  PROVE  /\ EnvironmentTypeOK'
         /\ DataDirTypeOK'
         /\ AdminTypeOK'
         /\ AdminLocals'
  <1> USE DEF HandlersInv
  <1>1. /\ dl[d] \in DeleteState
        /\ dl[d].pc \in {"rows", "row", "list", "unlink"} => dl[d].name \in RepoName
    BY DEF AdminTypeOK, AdminLocals
  <1>2. EnvironmentTypeOK'
    BY EnvironmentStepType
       DEF DeleteStep, DeleteGet, DeleteRows, DeleteRow, DeleteList, DeleteUnlink,
           DeleteRmdir, DeleteRemoveFails
  <1>3. DataDirTypeOK'
    <2>1. CASE DeleteList(d) \/ DeleteRmdir(d)
      BY <1>1, <2>1, DirectoryStepType DEF DeleteList, DeleteRmdir
    <2>2. CASE DeleteUnlink(d)
      BY <2>2, UnlinkType DEF DeleteUnlink
    <2>3. CASE UNCHANGED dirVars
      BY <2>3 DEF dirVars, DataDirTypeOK
    <2> QED
      BY <2>1, <2>2, <2>3 DEF DeleteStep, DeleteGet, DeleteRows, DeleteRow, DeleteRemoveFails
  <1>4. Entries(dl[d].name) \in SUBSET (ArtifactName \union Upload)
    BY DEF Entries
  <1>5. /\ dl' \in [DeleteReq -> DeleteState]
        /\ \A e \in DeleteReq :
              dl'[e].pc \in {"rows", "row", "list", "unlink"} => dl'[e].name \in RepoName
    <2>1. CASE DeleteGet(d)
      <3>1. \A i : \A r \in ReposWithId(i) : r.name \in RepoName
        BY DEF ReposWithId, StoreTypeOK, Repo
      <3>2. \A i \in 1 .. repoSeq : i \in Nat
        BY StoreAssumption DEF StoreTypeOK
      <3> QED
        BY <1>1, <2>1, <3>1, <3>2
           DEF DeleteGet, DeleteAnswer, AdminTypeOK, AdminLocals, DeleteState, AdminAnswered
    <2>2. CASE DeleteRows(d) \/ DeleteRow(d) \/ DeleteRemoveFails(d)
      BY <1>1, <2>2
         DEF DeleteRows, DeleteRow, DeleteRemoveFails, DeleteAnswer, AdminTypeOK, AdminLocals,
             DeleteState, AdminAnswered
    <2>3. CASE DeleteList(d) \/ DeleteRmdir(d)
      BY <1>1, <1>4, <2>3
         DEF DeleteList, DeleteRmdir, DeleteAnswer, AdminTypeOK, AdminLocals,
             DeleteState, AdminAnswered
    <2>4. CASE DeleteUnlink(d)
      BY <1>1, <2>4 DEF DeleteUnlink, AdminTypeOK, AdminLocals, DeleteState
    <2> QED
      BY <2>1, <2>2, <2>3, <2>4 DEF DeleteStep
  <1>6. cr' = cr /\ pt' = pt
    BY DEF DeleteStep, DeleteGet, DeleteRows, DeleteRow, DeleteList, DeleteUnlink,
           DeleteRmdir, DeleteRemoveFails
  <1> QED
    BY <1>2, <1>3, <1>5, <1>6 DEF AdminTypeOK, AdminLocals

LEMMA UploadCrashType ==
  ASSUME HandlersInv, UploadCrash
  PROVE  UploadTypeOK' /\ UploadLocals'
  BY ClockAssumption
     DEF HandlersInv, UploadCrash, UploadInFlight, UploadAnswered, UploadTypeOK, UploadState,
         UploadPc, UploadLocals, Instant

LEMMA AdminCrashType ==
  ASSUME HandlersInv, AdminCrash
  PROVE  AdminTypeOK' /\ AdminLocals'
  <1>1. cr' \in [CreateReq -> CreateState] /\ \A c \in CreateReq : cr'[c].pc \in AdminAnswered
    BY DEF HandlersInv, AdminCrash, AdminTypeOK, CreateState, AdminAnswered
  <1>2. pt' \in [UpdateReq -> UpdateState] /\ \A p \in UpdateReq : pt'[p].pc \in AdminAnswered
    BY DEF HandlersInv, AdminCrash, AdminTypeOK, UpdateState, AdminAnswered
  <1>3. dl' \in [DeleteReq -> DeleteState] /\ \A d \in DeleteReq : dl'[d].pc \in AdminAnswered
    BY DEF HandlersInv, AdminCrash, AdminTypeOK, DeleteState, AdminAnswered
  <1> QED
    BY <1>1, <1>2, <1>3 DEF AdminTypeOK, AdminLocals, AdminAnswered

-----------------------------------------------------------------------------
(***************************************************************************)
(* Names.  A handler goes by a path made of a name, and by the id that the *)
(* name had when it looked.  The two keep belonging together: an id,       *)
(* whether its row is still there or not, never comes to mean a repository *)
(* of another name.                                                        *)
(***************************************************************************)

NamedSo(i, n) == i \in 1 .. repoSeq /\ \A r \in repos : r.id = i => r.name = n

UpdateNames ==
  \A p \in UpdateReq : pt[p].pc = "put" => NamedSo(pt[p].row.id, pt[p].row.name)

DeleteNames ==
  \A d \in DeleteReq :
    dl[d].pc \in {"rows", "row", "list", "unlink", "200"} => NamedSo(dl[d].id, dl[d].name)

RepoNamesStay ==
  /\ repoSeq \in Int /\ repoSeq' \in Int /\ repoSeq <= repoSeq'
  /\ \A r \in repos' : r.id \in 1 .. repoSeq => \E s \in repos : s.id = r.id /\ s.name = r.name

\* A row that a query returns is the only one with its id.
LEMMA RowNamedSo ==
  ASSUME HandlersInv, NEW r \in repos
  PROVE  NamedSo(r.id, r.name)
  BY DEF HandlersInv, StoreIntegrity, UniqueRepos, IdsFromSequence, NamedSo

LEMMA FewerReposNamesStay ==
  ASSUME HandlersInv, repos' \subseteq repos, repoSeq' = repoSeq
  PROVE  RepoNamesStay
  BY StoreAssumption DEF HandlersInv, StoreTypeOK, RepoNamesStay

LEMMA UploadNamesStay ==
  ASSUME HandlersInv, NEW u \in Upload, UploadStep(u)
  PROVE  RepoNamesStay
  BY FewerReposNamesStay
     DEF UploadStep, UploadLookup, UploadCheck, UploadCreateTemp, UploadCopy, UploadCopyFails,
         UploadRename, UploadInsert, UploadRollback, UploadQueryFails, ArtifactCreate, storeVars

LEMMA CreateNamesStay ==
  ASSUME HandlersInv, NEW c \in CreateReq, CreateStep(c)
  PROVE  RepoNamesStay
  <1>1. CASE RepoCreate(cr[c].name, cr[c].policy)
    BY <1>1, StoreAssumption DEF HandlersInv, StoreTypeOK, RepoCreate, NextRepoId, RepoNamesStay
  <1> QED
    BY <1>1, FewerReposNamesStay DEF CreateStep, CreateMkdir, CreateInsert, CreateRmdir, storeVars

LEMMA UpdateNamesStay ==
  ASSUME HandlersInv, UpdateNames, NEW p \in UpdateReq, UpdateStep(p)
  PROVE  RepoNamesStay
  <1>1. CASE pt[p].pc = "put" /\ RepoUpdate(Patched(pt[p].row, pt[p].patch))
    <2> DEFINE row == Patched(pt[p].row, pt[p].patch)
    <2>1. row.id = pt[p].row.id /\ row.name = pt[p].row.name
      BY <1>1, PatchedType DEF HandlersInv, AdminLocals
    <2>2. NamedSo(row.id, row.name)
      BY <1>1, <2>1 DEF UpdateNames
    <2>3. RepoUpdate(row)
      BY <1>1
    <2> HIDE DEF row
    <2> QED
      BY <2>2, <2>3, StoreAssumption
         DEF HandlersInv, StoreTypeOK, RepoUpdate, RepoUpdatable, ReposWithId, RepoNamesStay,
             NamedSo
  <1> QED
    BY <1>1, FewerReposNamesStay DEF UpdateStep, UpdateGet, UpdatePut, storeVars

LEMMA DeleteNamesStay ==
  ASSUME HandlersInv, NEW d \in DeleteReq, DeleteStep(d)
  PROVE  RepoNamesStay
  BY FewerReposNamesStay
     DEF DeleteStep, DeleteGet, DeleteRows, DeleteRow, DeleteList, DeleteUnlink, DeleteRmdir,
         DeleteRemoveFails, RepoDelete, ArtifactDeleteByRepo, storeVars

LEMMA UpdateNamesStep ==
  ASSUME HandlersInv, UpdateNames, RepoNamesStay, NEW p \in UpdateReq, UpdateStep(p)
  PROVE  UpdateNames'
  <1>1. pt \in [UpdateReq -> UpdateState]
    BY DEF HandlersInv, AdminTypeOK
  <1>2. \A q \in UpdateReq : q # p => pt'[q] = pt[q]
    BY <1>1 DEF UpdateStep, UpdateGet, UpdatePut, UpdateAnswer
  <1>3. pt'[p].pc = "put" => UNCHANGED storeVars /\ pt'[p].row \in repos
    BY <1>1 DEF UpdateStep, UpdateGet, UpdatePut, UpdateAnswer, ReposWithId
  <1> QED
    BY <1>2, <1>3, RowNamedSo DEF RepoNamesStay, UpdateNames, NamedSo, storeVars

LEMMA DeleteNamesStep ==
  ASSUME HandlersInv, DeleteNames, RepoNamesStay, NEW d \in DeleteReq, DeleteStep(d)
  PROVE  DeleteNames'
  <1>1. dl \in [DeleteReq -> DeleteState]
    BY DEF HandlersInv, AdminTypeOK
  <1>2. \A e \in DeleteReq : e # d => dl'[e] = dl[e]
    BY <1>1
       DEF DeleteStep, DeleteGet, DeleteRows, DeleteRow, DeleteList, DeleteUnlink, DeleteRmdir,
           DeleteRemoveFails, DeleteAnswer
  <1>3. CASE DeleteGet(d) /\ dl'[d].pc \in {"rows", "row", "list", "unlink", "200"}
    <2>1. \E r \in repos : dl'[d].id = r.id /\ dl'[d].name = r.name
      BY <1>1, <1>3 DEF DeleteGet, DeleteAnswer, ReposWithId
    <2>2. UNCHANGED storeVars
      BY <1>3 DEF DeleteGet
    <2> QED
      BY <1>2, <2>1, <2>2, RowNamedSo DEF DeleteNames, NamedSo, storeVars
  <1>4. CASE ~ DeleteGet(d)
    <2>1. /\ dl'[d].id = dl[d].id /\ dl'[d].name = dl[d].name
          /\ dl[d].pc \in {"rows", "row", "list", "unlink"}
      BY <1>1, <1>4
         DEF DeleteStep, DeleteRows, DeleteRow, DeleteList, DeleteUnlink, DeleteRmdir,
             DeleteRemoveFails, DeleteAnswer, DeleteState
    <2> QED
      BY <1>2, <2>1 DEF RepoNamesStay, DeleteNames, NamedSo
  <1>5. CASE dl'[d].pc \notin {"rows", "row", "list", "unlink", "200"}
    BY <1>2, <1>5 DEF RepoNamesStay, DeleteNames, NamedSo
  <1> QED
    BY <1>3, <1>4, <1>5

\* Once its row is gone, the id of a repository stays without a row, also while
\* its directory is being removed.
RowsGone ==
  \A d \in DeleteReq : dl[d].pc \in {"list", "unlink", "200"} => \A r \in repos : r.id # dl[d].id

LEMMA OthersRowsGone ==
  ASSUME DeleteNames, RowsGone, IdsStayGone,
         \A d \in DeleteReq : dl'[d].pc \in {"list", "unlink", "200"} =>
            dl[d].pc \in {"list", "unlink", "200"} /\ dl'[d].id = dl[d].id
  PROVE  RowsGone'
  BY DEF RowsGone, IdsStayGone, DeleteNames, NamedSo

LEMMA DeleteRowsGone ==
  ASSUME HandlersInv, DeleteNames, RowsGone, IdsStayGone, NEW d \in DeleteReq, DeleteStep(d)
  PROVE  RowsGone'
  <1>1. dl \in [DeleteReq -> DeleteState]
    BY DEF HandlersInv, AdminTypeOK
  <1>2. \A e \in DeleteReq : e # d => dl'[e] = dl[e]
    BY <1>1
       DEF DeleteStep, DeleteGet, DeleteRows, DeleteRow, DeleteList, DeleteUnlink, DeleteRmdir,
           DeleteRemoveFails, DeleteAnswer
  <1>3. CASE DeleteRow(d) /\ RepoDelete(dl[d].id)
    <2>1. dl'[d].id = dl[d].id
      BY <1>1, <1>3 DEF DeleteRow, DeleteAnswer, DeleteState
    <2>2. \A r \in repos' : r.id # dl[d].id
      BY <1>3 DEF RepoDelete, ReposWithId
    <2> QED
      BY <1>2, <2>1, <2>2 DEF RowsGone, IdsStayGone, DeleteNames, NamedSo
  <1>4. CASE ~ (DeleteRow(d) /\ RepoDelete(dl[d].id))
    <2>1. dl'[d].pc \in {"list", "unlink", "200"} =>
             dl[d].pc \in {"list", "unlink", "200"} /\ dl'[d].id = dl[d].id
      BY <1>1, <1>4
         DEF DeleteStep, DeleteGet, DeleteRows, DeleteRow, DeleteList, DeleteUnlink, DeleteRmdir,
             DeleteRemoveFails, DeleteAnswer, DeleteState
    <2> QED
      BY <1>2, <2>1, OthersRowsGone
  <1> QED
    BY <1>3, <1>4
================================================================================
