--------------------------- MODULE ArtfServerProofs ---------------------------
(***************************************************************************)
(* The server, for every number of requests, names, policies, crashes and  *)
(* faults: its types, the integrity of its tables, and that the cleaner    *)
(* never deletes more than the policy it works from allows.                *)
(***************************************************************************)
EXTENDS ArtfServer, HandlerProofs, FiniteSetTheorems

CleanerLocals ==
  /\ cl.pc \in {"remove", "record"} => cl.repo \in Repo
  /\ cl.pc = "record" => cl.item \in cl.todo
  /\ cl.pc \in {"idle", "repo"} => cl.todo = {}

DownloadLocals ==
  \A d \in Download :
    /\ dn[d].pc = "find" => dn[d].path \in RepoName \X (ArtifactName \union {Latest})
    /\ dn[d].pc = "serve" => dn[d].record \in Artifact

TypeInv ==
  TypeOK /\ StoreIntegrity /\ UploadLocals /\ AdminLocals /\ CleanerLocals /\ DownloadLocals

LEMMA ServerHandlers == TypeInv => HandlersInv
  BY DEF TypeInv, TypeOK, HandlersInv

LEMMA ServerInitStore == Init => StoreInv
  <1> SUFFICES ASSUME Init PROVE StoreInv
    OBVIOUS
  <1>1. Cardinality(Existing) \in Nat
    BY ServerAssumption, FS_CardinalityType
  <1>2. PICK id \in [Existing -> 1 .. Cardinality(Existing)], policy \in [Existing -> Policies] :
          /\ \A m, n \in Existing : id[m] = id[n] => m = n
          /\ repos = {[id |-> id[n], name |-> n, keepCount |-> policy[n].keepCount,
                       keepDays |-> policy[n].keepDays] : n \in Existing}
    BY DEF Init
  <1>3. repos \subseteq Repo
    BY <1>1, <1>2, RepoHandlersAssumption, ServerAssumption DEF Repo, Policy
  <1>4. repoSeq = Cardinality(Existing) /\ artifacts = {} /\ artifactSeq = 0
    BY DEF Init
  <1>5. StoreTypeOK
    BY <1>1, <1>3, <1>4, StoreAssumption, ServerAssumption DEF StoreTypeOK
  <1>6. UniqueRepos
    BY <1>2 DEF UniqueRepos
  <1>7. IdsFromSequence
    BY <1>1, <1>2, <1>4 DEF IdsFromSequence
  <1> QED
    BY <1>4, <1>5, <1>6, <1>7
       DEF StoreInv, StoreIntegrity, UniqueArtifacts, ForeignKeys

LEMMA ServerInitType == Init => TypeInv
  <1> SUFFICES ASSUME Init PROVE TypeInv
    OBVIOUS
  <1>1. StoreTypeOK /\ StoreIntegrity
    BY ServerInitStore DEF StoreInv
  <1>2. /\ EnvironmentTypeOK
        /\ UploadTypeOK /\ UploadLocals
        /\ AdminTypeOK /\ AdminLocals
    BY HandlersInitType DEF Init
  <1>3. DataDirTypeOK
    BY ServerAssumption DEF Init, DataDirInit, DataDirTypeOK
  <1>4. CleanerTypeOK /\ CleanerLocals
    BY ClockAssumption
       DEF Init, CleanerInit, CleanerIdle, CleanerTypeOK, CleanerState, CleanerLocals, Instant
  <1>5. DownloadTypeOK /\ DownloadLocals
    BY DEF Init, DownloadInit, DownloadIdle, DownloadTypeOK, DownloadState,
           DownloadPc, DownloadLocals
  <1> QED
    BY <1>1, <1>2, <1>3, <1>4, <1>5 DEF TypeInv, TypeOK

-----------------------------------------------------------------------------
(* Every step of the server is a step of the store, or leaves it alone.    *)

LEMMA CleanerStoreStep ==
  ASSUME TypeInv, CleanerStep
  PROVE  [StoreNext]_storeVars
  <1>1. CASE CleanerRecord
    BY <1>1, ServerHandlers, ArtifactDeleteStep DEF CleanerRecord
  <1> QED
    BY <1>1 DEF CleanerStep, CleanerStart, CleanerRepo, CleanerPassEnds, CleanerRemove

LEMMA ServerStoreStep == TypeInv /\ [Next]_vars => [StoreNext]_storeVars
  <1> SUFFICES ASSUME TypeInv, [Next]_vars PROVE [StoreNext]_storeVars
    OBVIOUS
  <1>1. ASSUME NEW u \in Upload, UploadNext(u) PROVE [StoreNext]_storeVars
    BY <1>1, ServerHandlers, UploadStoreStep DEF UploadNext
  <1>2. ASSUME NEW c \in CreateReq, CreateNext(c) PROVE [StoreNext]_storeVars
    BY <1>2, ServerHandlers, CreateStoreStep DEF CreateNext
  <1>3. ASSUME NEW p \in UpdateReq, UpdateNext(p) PROVE [StoreNext]_storeVars
    BY <1>3, ServerHandlers, UpdateStoreStep DEF UpdateNext
  <1>4. ASSUME NEW d \in DeleteReq, DeleteNext(d) PROVE [StoreNext]_storeVars
    BY <1>4, ServerHandlers, DeleteStoreStep DEF DeleteNext
  <1>5. CASE CleanerNext
    BY <1>5, CleanerStoreStep DEF CleanerNext
  <1>6. ASSUME NEW d \in Download, DownloadNext(d) PROVE [StoreNext]_storeVars
    BY <1>6 DEF DownloadNext, DownloadStep, DownloadLookup, DownloadFind,
                DownloadServe, DownloadQueryFails
  <1>7. CASE ClockNext \/ Crash
    BY <1>7 DEF ClockNext, Crash
  <1>8. CASE UNCHANGED vars
    BY <1>8 DEF vars
  <1> QED
    BY <1>1, <1>2, <1>3, <1>4, <1>5, <1>6, <1>7, <1>8 DEF Next

-----------------------------------------------------------------------------
(* Types.                                                                  *)

LEMMA CleanerThroughType ==
  ASSUME CleanerTypeOK, CleanerLocals, NEW a, CleanerThrough(a), cl.pc \in {"remove", "record"}
  PROVE  CleanerTypeOK' /\ CleanerLocals'
  <1>1. cl \in CleanerState /\ cl.repo \in Repo
    BY DEF CleanerTypeOK, CleanerLocals
  <1>2. CASE cl.todo = {a}
    BY <1>1, <1>2 DEF CleanerThrough, CleanerTypeOK, CleanerState, CleanerLocals
  <1>3. CASE cl.todo # {a}
    BY <1>1, <1>3 DEF CleanerThrough, CleanerTypeOK, CleanerState, CleanerLocals
  <1> QED
    BY <1>2, <1>3

\* What a pass keeps comes from the list.
LEMMA RetainedSubset ==
  ASSUME NEW list, NEW r, NEW day, NEW kept \in Retained(list, r, day)
  PROVE  kept \subseteq list
  BY DEF Retained, Newest

LEMMA CleanerStepType ==
  ASSUME TypeInv, CleanerStep
  PROVE  /\ EnvironmentTypeOK'
         /\ DataDirTypeOK'
         /\ CleanerTypeOK'
         /\ CleanerLocals'
  <1> USE DEF TypeInv, TypeOK
  <1>1. cl \in CleanerState
    BY DEF CleanerTypeOK
  <1>2. EnvironmentTypeOK'
    BY EnvironmentStepType
       DEF CleanerStep, CleanerStart, CleanerRepo, CleanerPassEnds, CleanerRemove, CleanerRecord
  <1>3. DataDirTypeOK'
    <2>1. ASSUME NEW a \in cl.todo, CleanerRemove(a), RemoveFile(a.path) PROVE DataDirTypeOK'
      <3>1. a.path \in Path
        BY <1>1 DEF CleanerState, Artifact
      <3> QED
        BY <2>1, <3>1, RemoveFileType
    <2>2. CASE UNCHANGED dirVars
      BY <2>2 DEF dirVars, DataDirTypeOK
    <2> QED
      BY <2>1, <2>2
         DEF CleanerStep, CleanerStart, CleanerRepo, CleanerPassEnds, CleanerRemove, CleanerRecord
  <1>4. CleanerTypeOK' /\ CleanerLocals'
    <2>1. CASE CleanerStart
      BY <2>1, ClockAssumption
         DEF CleanerStart, CleanerIdle, CleanerTypeOK, CleanerState, CleanerLocals,
             EnvironmentTypeOK, StoreTypeOK, Instant
    <2>2. ASSUME NEW r \in cl.queue, CleanerRepo(r) PROVE CleanerTypeOK' /\ CleanerLocals'
      <3>1. r \in Repo
        BY <1>1 DEF CleanerState
      <3>2. CASE CleanerSkip(r)
        BY <1>1, <2>2, <3>2 DEF CleanerSkip, CleanerRepo, CleanerTypeOK, CleanerState, CleanerLocals
      <3>3. ASSUME NEW kept \in Retained(ArtifactsOf(r.id), r, cl.day),
                   cl' = [cl EXCEPT !.pc = "remove", !.queue = @ \ {r}, !.repo = r,
                                    !.kept = kept, !.todo = ArtifactsOf(r.id) \ kept]
            PROVE  CleanerTypeOK' /\ CleanerLocals'
        <4>1. ArtifactsOf(r.id) \subseteq Artifact
          BY DEF ArtifactsOf, StoreTypeOK
        <4>2. kept \subseteq Artifact
          BY <4>1, RetainedSubset
        <4> QED
          BY <1>1, <3>1, <3>3, <4>1, <4>2 DEF CleanerTypeOK, CleanerState, CleanerLocals
      <3> QED
        BY <2>2, <3>2, <3>3 DEF CleanerRepo
    <2>3. CASE CleanerPassEnds
      BY <2>3, ClockAssumption
         DEF CleanerPassEnds, CleanerIdle, CleanerTypeOK, CleanerState, CleanerLocals, Instant
    <2>4. ASSUME NEW a \in cl.todo, CleanerRemove(a) PROVE CleanerTypeOK' /\ CleanerLocals'
      <3>1. CASE CleanerThrough(a)
        BY <2>4, <3>1, CleanerThroughType DEF CleanerRemove
      <3>2. CASE cl' = [cl EXCEPT !.pc = "record", !.item = a]
        <4>1. a \in Artifact /\ cl.repo \in Repo
          BY <1>1, <2>4 DEF CleanerState, CleanerRemove, CleanerLocals
        <4> QED
          BY <1>1, <3>2, <4>1 DEF CleanerTypeOK, CleanerState, CleanerLocals
      <3> QED
        BY <2>4, <3>1, <3>2 DEF CleanerRemove
    <2>5. CASE CleanerRecord
      BY <2>5, CleanerThroughType DEF CleanerRecord
    <2> QED
      BY <2>1, <2>2, <2>3, <2>4, <2>5 DEF CleanerStep
  <1> QED
    BY <1>2, <1>3, <1>4

LEMMA DownloadStepType ==
  ASSUME TypeInv, NEW d \in Download, DownloadStep(d)
  PROVE  /\ EnvironmentTypeOK'
         /\ DataDirTypeOK'
         /\ DownloadTypeOK'
         /\ DownloadLocals'
  <1> USE DEF TypeInv, TypeOK
  <1>1. EnvironmentTypeOK'
    BY EnvironmentStepType
       DEF DownloadStep, DownloadLookup, DownloadFind, DownloadServe, DownloadQueryFails
  <1>2. UNCHANGED dirVars
    BY DEF DownloadStep, DownloadLookup, DownloadFind, DownloadServe, DownloadQueryFails
  <1>3. ASSUME NEW s \in DownloadState,
               dn' = [dn EXCEPT ![d] = s],
               s.pc = "find" => s.path \in RepoName \X (ArtifactName \union {Latest}),
               s.pc = "serve" => s.record \in Artifact
        PROVE  DownloadTypeOK' /\ DownloadLocals'
    BY <1>3 DEF DownloadTypeOK, DownloadLocals
  <1>4. ASSUME NEW pc \in DownloadPc \ {"find", "serve"}, DownloadAnswer(d, pc)
        PROVE  DownloadTypeOK' /\ DownloadLocals'
    <2>1. [DownloadIdle EXCEPT !.pc = pc] \in DownloadState
      BY DEF DownloadIdle, DownloadState
    <2>2. [DownloadIdle EXCEPT !.pc = pc].pc = pc
      BY DEF DownloadIdle
    <2> QED
      BY <1>3, <1>4, <2>1, <2>2 DEF DownloadAnswer
  <1>5. DownloadTypeOK' /\ DownloadLocals'
    <2>1. CASE DownloadLookup(d)
      <3>1. CASE DownloadAnswer(d, "404")
        BY <1>4, <3>1 DEF DownloadPc
      <3>2. ASSUME NEW p \in RepoName \X (ArtifactName \union {Latest}),
                   NEW r \in ReposNamed(p[1]),
                   dn' = [dn EXCEPT ![d] = [DownloadIdle EXCEPT !.pc = "find", !.path = p,
                                                               !.repoId = r.id]]
            PROVE  DownloadTypeOK' /\ DownloadLocals'
        <4> DEFINE s == [DownloadIdle EXCEPT !.pc = "find", !.path = p, !.repoId = r.id]
        <4>1. r.id \in Nat
          BY DEF ReposNamed, StoreTypeOK, Repo
        <4>2. s \in DownloadState /\ s.pc = "find" /\ s.path = p
          BY <4>1 DEF DownloadIdle, DownloadState, DownloadPc
        <4> HIDE DEF s
        <4> QED
          BY <1>3, <3>2, <4>2 DEF s
      <3> QED
        BY <2>1, <3>1, <3>2 DEF DownloadLookup
    <2>2. CASE DownloadFind(d)
      <3>1. CASE DownloadAnswer(d, "404")
        BY <1>4, <3>1 DEF DownloadPc
      <3>2. ASSUME NEW a \in Wanted(dn[d].repoId, dn[d].path[2]),
                   dn' = [dn EXCEPT ![d] = [DownloadIdle EXCEPT !.pc = "serve", !.record = a]]
            PROVE  DownloadTypeOK' /\ DownloadLocals'
        <4> DEFINE s == [DownloadIdle EXCEPT !.pc = "serve", !.record = a]
        <4>1. a \in Artifact
          BY DEF Wanted, LatestOf, ArtifactsNamed, ArtifactsOf, StoreTypeOK
        <4>2. s \in DownloadState /\ s.pc = "serve" /\ s.record = a
          BY <4>1 DEF DownloadIdle, DownloadState, DownloadPc
        <4> HIDE DEF s
        <4> QED
          BY <1>3, <3>2, <4>1, <4>2 DEF s
      <3> QED
        BY <2>2, <3>1, <3>2 DEF DownloadFind
    <2>3. CASE DownloadServe(d)
      <3>1. CASE DownloadAnswer(d, "404")
        BY <1>4, <3>1 DEF DownloadPc
      <3>2. CASE dn' = [dn EXCEPT ![d] = [DownloadIdle EXCEPT !.pc = "200", !.record = dn[d].record,
                                                             !.body = files[dn[d].record.path]]]
        <4> DEFINE s == [DownloadIdle EXCEPT !.pc = "200", !.record = dn[d].record,
                                             !.body = files[dn[d].record.path]]
        <4>1. dn[d].record \in Artifact
          BY <2>3 DEF DownloadServe, DownloadLocals
        <4>2. files[dn[d].record.path] \in Upload \union {NoFile, Partial}
          BY <4>1 DEF DataDirTypeOK, Artifact
        <4>3. s \in DownloadState /\ s.pc = "200"
          BY <4>1, <4>2 DEF DownloadIdle, DownloadState, DownloadPc
        <4> HIDE DEF s
        <4> QED
          BY <1>3, <3>2, <4>3 DEF s
      <3> QED
        BY <2>3, <3>1, <3>2 DEF DownloadServe
    <2>4. CASE DownloadQueryFails(d)
      BY <1>4, <2>4 DEF DownloadQueryFails, DownloadPc
    <2> QED
      BY <2>1, <2>2, <2>3, <2>4 DEF DownloadStep
  <1> QED
    BY <1>1, <1>2, <1>5 DEF dirVars, DataDirTypeOK

LEMMA CrashType ==
  ASSUME TypeInv, Crash
  PROVE  /\ EnvironmentTypeOK' /\ DataDirTypeOK'
         /\ UploadTypeOK' /\ UploadLocals'
         /\ AdminTypeOK' /\ AdminLocals'
         /\ CleanerTypeOK' /\ CleanerLocals'
         /\ DownloadTypeOK' /\ DownloadLocals'
  <1> USE DEF TypeInv, TypeOK
  <1>1. EnvironmentTypeOK' /\ DataDirTypeOK'
    BY EnvironmentStepType DEF Crash, dirVars, DataDirTypeOK
  <1>2. UploadTypeOK' /\ UploadLocals'
    BY ServerHandlers, UploadCrashType DEF Crash
  <1>3. AdminTypeOK' /\ AdminLocals'
    BY ServerHandlers, AdminCrashType DEF Crash
  <1>4. CleanerTypeOK' /\ CleanerLocals'
    BY ClockAssumption
       DEF Crash, CleanerCrash, CleanerIdle, CleanerTypeOK, CleanerState, CleanerLocals, Instant
  <1>5. DownloadTypeOK' /\ DownloadLocals'
    BY DEF Crash, DownloadCrash, DownloadIdle, DownloadTypeOK, DownloadState, DownloadPc,
           DownloadLocals
  <1> QED
    BY <1>1, <1>2, <1>3, <1>4, <1>5

LEMMA ServerStepType == TypeInv /\ [Next]_vars => TypeInv'
  <1> SUFFICES ASSUME TypeInv, [Next]_vars PROVE TypeInv'
    OBVIOUS
  <1>1. StoreTypeOK' /\ StoreIntegrity'
    BY ServerStoreStep, StoreStepInv DEF TypeInv, TypeOK, StoreInv
  <1>2. ASSUME NEW u \in Upload, UploadNext(u) PROVE TypeInv'
    BY <1>1, <1>2, ServerHandlers, UploadStepType
       DEF UploadNext, TypeInv, TypeOK, adminVars, AdminTypeOK, AdminLocals, CleanerTypeOK,
           CleanerLocals, DownloadTypeOK, DownloadLocals
  <1>3. ASSUME NEW c \in CreateReq, CreateNext(c) PROVE TypeInv'
    BY <1>1, <1>3, ServerHandlers, CreateStepType
       DEF CreateNext, TypeInv, TypeOK, UploadTypeOK, UploadLocals, CleanerTypeOK,
           CleanerLocals, DownloadTypeOK, DownloadLocals
  <1>4. ASSUME NEW p \in UpdateReq, UpdateNext(p) PROVE TypeInv'
    BY <1>1, <1>4, ServerHandlers, UpdateStepType
       DEF UpdateNext, TypeInv, TypeOK, UploadTypeOK, UploadLocals, CleanerTypeOK,
           CleanerLocals, DownloadTypeOK, DownloadLocals
  <1>5. ASSUME NEW d \in DeleteReq, DeleteNext(d) PROVE TypeInv'
    BY <1>1, <1>5, ServerHandlers, DeleteStepType
       DEF DeleteNext, TypeInv, TypeOK, UploadTypeOK, UploadLocals, CleanerTypeOK,
           CleanerLocals, DownloadTypeOK, DownloadLocals
  <1>6. CASE CleanerNext
    BY <1>1, <1>6, CleanerStepType
       DEF CleanerNext, TypeInv, TypeOK, UploadTypeOK, UploadLocals, adminVars, AdminTypeOK,
           AdminLocals, DownloadTypeOK, DownloadLocals
  <1>7. ASSUME NEW d \in Download, DownloadNext(d) PROVE TypeInv'
    BY <1>1, <1>7, DownloadStepType
       DEF DownloadNext, TypeInv, TypeOK, UploadTypeOK, UploadLocals, adminVars, AdminTypeOK,
           AdminLocals, CleanerTypeOK, CleanerLocals
  <1>8. CASE ClockNext
    <2>1. EnvironmentTypeOK'
      BY <1>8, ClockAssumption DEF ClockNext, Tick, TypeInv, TypeOK, EnvironmentTypeOK, Instant
    <2> QED
      BY <1>1, <1>8, <2>1
         DEF ClockNext, TypeInv, TypeOK, dirVars, DataDirTypeOK, UploadTypeOK, UploadLocals,
             adminVars, AdminTypeOK, AdminLocals, CleanerTypeOK, CleanerLocals,
             DownloadTypeOK, DownloadLocals
  <1>9. CASE Crash
    BY <1>1, <1>9, CrashType DEF TypeInv, TypeOK
  <1>10. CASE UNCHANGED vars
    BY <1>1, <1>10
       DEF vars, TypeInv, TypeOK, envVars, EnvironmentTypeOK, dirVars, DataDirTypeOK,
           UploadTypeOK, UploadLocals, adminVars, AdminTypeOK, AdminLocals, CleanerTypeOK,
           CleanerLocals, DownloadTypeOK, DownloadLocals
  <1> QED
    BY <1>2, <1>3, <1>4, <1>5, <1>6, <1>7, <1>8, <1>9, <1>10 DEF Next

\* Tables, files and the locals of every request have their types.
THEOREM ServerTypeCorrect == Spec => []TypeOK
  <1>1. TypeInv => TypeOK
    BY DEF TypeInv
  <1> QED
    BY <1>1, ServerInitType, ServerStepType, PTL DEF Spec

\* Whatever runs concurrently, each step of the server is at most one statement
\* of the store, with arguments that StoreNext allows: handlers and cleaner use
\* the database by way of the interface in store/store.go only.
THEOREM ServerUsesStore == Spec => [][StoreNext]_storeVars
  <1>1. Spec => []TypeInv
    BY ServerInitType, ServerStepType, PTL DEF Spec
  <1>2. TypeInv /\ [Next]_vars => [StoreNext]_storeVars
    BY ServerStoreStep
  <1> QED
    BY <1>1, <1>2, PTL DEF Spec

\* However requests, cleaner and crashes interleave, the tables keep what the
\* schema promises: no handler calls the store in a way that breaks it.
THEOREM ServerKeepsIntegrity == Spec => []StoreIntegrity
  <1>1. TypeInv => StoreIntegrity
    BY DEF TypeInv
  <1> QED
    BY <1>1, ServerInitType, ServerStepType, PTL DEF Spec

\* No step of the server reuses the id of a row that is gone, so an id that a
\* request or the cleaner still holds never means another row.
THEOREM ServerNeverReusesIds == Spec => IdsNeverReused
  <1>1. Spec => []TypeInv
    BY ServerInitType, ServerStepType, PTL DEF Spec
  <1>2. TypeInv /\ [Next]_vars => [IdsStayGone]_storeVars
    BY ServerStoreStep, StoreStepIds DEF TypeInv, TypeOK, StoreInv
  <1>3. IdsNeverReused <=> [][IdsStayGone]_storeVars
    BY DEF IdsNeverReused, IdsStayGone
  <1> QED
    BY <1>1, <1>2, <1>3, PTL DEF Spec

-----------------------------------------------------------------------------
(***************************************************************************)
(* Retention.  RetentionSafe is not inductive: that enough artifacts stay  *)
(* when a record goes depends on the lists that the cleaner made earlier.  *)
(* RetentionInv says what remains true of these lists while others change  *)
(* the tables: they are rows that once were there, under ids of their own; *)
(* what was kept is newer and numerous enough; and as long as one of the   *)
(* rows to remove is still there, so are all that were kept - since rows   *)
(* go either by the cleaner, or with all others of their repository.       *)
(***************************************************************************)

Listed == cl.kept \union cl.todo

ListedRows ==
  /\ \A a \in Listed : a.repoId = cl.repo.id /\ a.id <= artifactSeq
  /\ \A a, b \in Listed : a.id = b.id => a = b
  /\ \A a \in Listed, b \in artifacts : a.id = b.id => a = b
  /\ cl.kept \intersect cl.todo = {}

KeptSuffices ==
  /\ \A a \in cl.todo, k \in cl.kept : a.createdAt <= k.createdAt
  /\ \A a \in cl.todo : cl.repo.keepCount <= 0 => a.createdAt < cl.day - cl.repo.keepDays
  /\ cl.todo # {} => IsFiniteSet(cl.kept) /\ Quota(cl.repo) <= Cardinality(cl.kept)

KeptStay == (\E a \in cl.todo : a \in artifacts) => cl.kept \subseteq artifacts

RetentionInv ==
  /\ IsFiniteSet(artifacts)
  /\ cl.pc \in {"idle", "repo"} => Listed = {}
  /\ ListedRows
  /\ KeptSuffices
  /\ KeptStay

\* What a pass decides to keep is at least as new as the rest and fills the
\* quota of the policy; without KeepCount, the rest is older than the cutoff.
LEMMA RetainedSuffices ==
  ASSUME NEW list, IsFiniteSet(list), list \subseteq Artifact, NEW r \in Repo, NEW day \in Instant,
         NEW kept \in Retained(list, r, day), kept # list
  PROVE  /\ kept \subseteq list /\ IsFiniteSet(kept)
         /\ Quota(r) <= Cardinality(kept)
         /\ \A a \in list \ kept, k \in kept : a.createdAt <= k.createdAt
         /\ \A a \in list \ kept : r.keepCount <= 0 => a.createdAt < day - r.keepDays
  <1>1. kept \subseteq list /\ IsFiniteSet(kept)
    BY RetainedSubset, FS_Subset
  <1>2. Cardinality(list) \in Nat /\ Cardinality(kept) \in Nat
    BY <1>1, FS_CardinalityType
  <1>3. r.keepCount \in Int /\ r.keepDays \in Int /\ day \in Int
    <2>1. r.keepCount \in Keep /\ r.keepDays \in Keep
      BY DEF Repo
    <2>2. r.keepCount \in Int /\ r.keepDays \in Int
      BY <2>1, StoreAssumption
    <2>3. day \in Int
      BY DEF Instant
    <2> QED
      BY <2>2, <2>3
  <1>4. \A a \in list : a.createdAt \in Int
    BY DEF Artifact, Instant
  <1>5. CASE r.keepCount > 0
    <2>1. kept \in Newest(list, r.keepCount)
      BY <1>5 DEF Retained
    <2>2. Cardinality(kept) # Cardinality(list)
      BY <1>1, FS_Subset
    <2>3. Cardinality(kept) = r.keepCount
      BY <2>1, <2>2 DEF Newest
    <2> QED
      BY <1>1, <1>2, <1>3, <1>4, <1>5, <2>1, <2>3 DEF Newest, Quota
  <1>6. CASE ~ (r.keepCount > 0)
    <2>1. PICK s \in Newest(list, 1) :
            kept = s \union {a \in list : ~ (a.createdAt < day - r.keepDays)}
      BY <1>6 DEF Retained
    <2>2. s \subseteq kept /\ IsFiniteSet(s) /\ Cardinality(s) <= Cardinality(kept)
      BY <1>1, <2>1, FS_Subset
    <2>3. Cardinality(list) # 0
      BY <1>1, FS_EmptySet
    <2>4. Cardinality(s) = 1
      BY <1>2, <2>1, <2>3 DEF Newest
    <2>5. \A a \in list \ kept, k \in s : a.createdAt <= k.createdAt
      BY <2>1, <2>2 DEF Newest
    <2>6. \A a \in list \ kept : a.createdAt < day - r.keepDays
      BY <2>1
    <2>7. \A a \in list \ kept, k \in kept \ s : a.createdAt <= k.createdAt
      BY <1>1, <1>3, <1>4, <2>1, <2>6
    <2> QED
      BY <1>1, <1>2, <1>3, <1>6, <2>2, <2>4, <2>5, <2>6, <2>7 DEF Quota
  <1> QED
    BY <1>5, <1>6

\* Steps of others: they leave the cleaner's lists alone, add rows under fresh
\* ids, and remove rows only together with their repository's other rows.
WholeRepositories ==
  \A a, b \in artifacts : a.repoId = b.repoId /\ a \in artifacts' => b \in artifacts'

LEMMA OthersRetentionInv ==
  ASSUME TypeInv, RetentionInv, cl' = cl, FreshArtifacts, WholeRepositories,
         IsFiniteSet(artifacts'), StoreTypeOK'
  PROVE  RetentionInv'
  <1>1. artifactSeq \in Int
    BY StoreAssumption DEF TypeInv, TypeOK, StoreTypeOK
  <1>2. \A a \in Listed : a.id \in Int
    BY DEF Listed, TypeInv, TypeOK, CleanerTypeOK, CleanerState, Artifact
  <1>3. artifactSeq' \in Int /\ artifactSeq <= artifactSeq'
    BY StoreAssumption DEF FreshArtifacts, StoreTypeOK
  <1>4. ListedRows'
    BY <1>1, <1>2, <1>3 DEF RetentionInv, ListedRows, Listed, FreshArtifacts
  <1>5. KeptStay'
    <2>1. \A a \in cl.todo : a \in artifacts' => a \in artifacts
      BY <1>1, <1>2 DEF RetentionInv, ListedRows, Listed, FreshArtifacts
    <2> QED
      BY <2>1 DEF RetentionInv, KeptStay, ListedRows, Listed, WholeRepositories
  <1> QED
    BY <1>4, <1>5 DEF RetentionInv, KeptSuffices, Listed, Quota

LEMMA FiniteArtifacts ==
  ASSUME IsFiniteSet(artifacts), [StoreNext]_storeVars
  PROVE  IsFiniteSet(artifacts')
  <1>1. CASE artifacts' \subseteq artifacts
    BY <1>1, FS_Subset
  <1>2. ASSUME NEW a, artifacts' = artifacts \union {a} PROVE IsFiniteSet(artifacts')
    BY <1>2, FS_AddElement
  <1> QED
    BY <1>1, <1>2
       DEF StoreNext, storeVars, RepoCreate, RepoUpdate, RepoDelete, ArtifactCreate,
           ArtifactDelete, ArtifactDeleteByRepo

\* The cleaner is through with an artifact and has not touched the others.
LEMMA ThroughRetentionInv ==
  ASSUME TypeInv, RetentionInv, NEW a \in cl.todo, CleanerThrough(a),
         cl.pc \in {"remove", "record"},
         UNCHANGED artifactSeq,
         artifacts' \subseteq artifacts,
         \A b \in artifacts : b \in artifacts' \/ b.id = a.id
  PROVE  RetentionInv'
  <1>1. cl \in CleanerState
    BY DEF TypeInv, TypeOK, CleanerTypeOK
  <1>2. IsFiniteSet(artifacts')
    BY FS_Subset DEF RetentionInv
  <1>3. CASE cl.todo = {a}
    <2>1. Listed' = {} /\ cl'.todo = {} /\ cl'.kept = {}
      BY <1>1, <1>3 DEF CleanerThrough, CleanerState, Listed
    <2> QED
      BY <1>2, <2>1 DEF RetentionInv, ListedRows, KeptSuffices, KeptStay
  <1>4. CASE cl.todo # {a}
    <2>1. /\ cl'.kept = cl.kept /\ cl'.todo = cl.todo \ {a} /\ cl'.repo = cl.repo
          /\ cl'.day = cl.day /\ cl'.pc = "remove"
      BY <1>1, <1>4 DEF CleanerThrough, CleanerState
    <2>2. Listed' \subseteq Listed
      BY <2>1 DEF Listed
    <2>3. ListedRows'
      BY <2>1, <2>2 DEF RetentionInv, ListedRows
    <2>4. KeptSuffices'
      BY <2>1 DEF RetentionInv, KeptSuffices, Quota
    <2>5. KeptStay'
      <3>1. \A k \in cl.kept : k.id # a.id
        BY DEF RetentionInv, ListedRows, Listed
      <3> QED
        BY <2>1, <3>1 DEF RetentionInv, KeptStay
    <2> QED
      BY <1>2, <2>1, <2>3, <2>4, <2>5 DEF RetentionInv
  <1> QED
    BY <1>3, <1>4

LEMMA CleanerRetentionInv ==
  ASSUME TypeInv, RetentionInv, CleanerStep
  PROVE  RetentionInv'
  <1>1. cl \in CleanerState
    BY DEF TypeInv, TypeOK, CleanerTypeOK
  \* Nothing listed: nothing to show.
  <1>2. ASSUME cl'.kept = {}, cl'.todo = {}, UNCHANGED storeVars PROVE RetentionInv'
    BY <1>2 DEF RetentionInv, Listed, ListedRows, KeptSuffices, KeptStay, storeVars
  <1>3. CASE CleanerStart \/ CleanerPassEnds
    <2>1. cl'.kept = {} /\ cl'.todo = {}
      <3>1. CASE CleanerStart
        <4>1. CASE cl' = [CleanerIdle EXCEPT !.pc = "repo", !.day = now, !.queue = repos]
          BY <4>1 DEF CleanerIdle
        <4>2. CASE UNCHANGED cl
          BY <3>1, <4>2 DEF CleanerStart, RetentionInv, Listed
        <4> QED
          BY <3>1, <4>1, <4>2 DEF CleanerStart
      <3>2. CASE CleanerPassEnds
        <4>1. cl' = CleanerIdle
          BY <3>2 DEF CleanerPassEnds
        <4> QED
          BY <4>1 DEF CleanerIdle
      <3> QED
        BY <1>3, <3>1, <3>2
    <2>2. UNCHANGED storeVars
      BY <1>3 DEF CleanerStart, CleanerPassEnds
    <2> QED
      BY <1>2, <2>1, <2>2
  <1>4. ASSUME NEW r \in cl.queue, CleanerRepo(r) PROVE RetentionInv'
    <2>1. CASE CleanerSkip(r)
      <3>1. cl.kept = {} /\ cl.todo = {}
        BY <1>4 DEF CleanerRepo, RetentionInv, Listed
      <3> QED
        BY <1>1, <1>2, <1>4, <2>1, <3>1 DEF CleanerSkip, CleanerRepo, CleanerState
    <2>2. ASSUME NEW kept \in Retained(ArtifactsOf(r.id), r, cl.day),
                 kept # ArtifactsOf(r.id),
                 cl' = [cl EXCEPT !.pc = "remove", !.queue = @ \ {r}, !.repo = r,
                                  !.kept = kept, !.todo = ArtifactsOf(r.id) \ kept]
          PROVE  RetentionInv'
      <3> DEFINE list == ArtifactsOf(r.id)
      <3>1. /\ cl'.kept = kept /\ cl'.todo = list \ kept /\ cl'.repo = r
            /\ cl'.day = cl.day /\ cl'.pc = "remove"
        BY <1>1, <2>2 DEF CleanerState
      <3>2. UNCHANGED storeVars
        BY <1>4 DEF CleanerRepo
      <3>3. list \subseteq artifacts /\ IsFiniteSet(list) /\ list \subseteq Artifact
        BY FS_Subset DEF ArtifactsOf, RetentionInv, TypeInv, TypeOK, StoreTypeOK
      <3>4. r \in Repo /\ cl.day \in Instant
        BY <1>1 DEF CleanerState
      <3>5. /\ kept \subseteq list /\ IsFiniteSet(kept) /\ Quota(r) <= Cardinality(kept)
            /\ \A a \in list \ kept, k \in kept : a.createdAt <= k.createdAt
            /\ \A a \in list \ kept : r.keepCount <= 0 => a.createdAt < cl.day - r.keepDays
        BY <2>2, <3>3, <3>4, RetainedSuffices
      <3>6. Listed' = list
        BY <3>1, <3>5 DEF Listed
      <3>7. \A a \in list : a.repoId = r.id
        BY DEF ArtifactsOf
      <3> HIDE DEF list
      <3>8. /\ \A a \in artifacts : a.id <= artifactSeq
            /\ \A a, b \in artifacts : a.id = b.id => a = b
        BY StoreAssumption DEF TypeInv, TypeOK, StoreTypeOK, StoreIntegrity,
                               UniqueArtifacts, IdsFromSequence
      <3>9. ListedRows'
        BY <3>1, <3>2, <3>3, <3>6, <3>7, <3>8 DEF ListedRows, storeVars
      <3>10. KeptSuffices'
        BY <3>1, <3>5 DEF KeptSuffices, Quota
      <3>11. KeptStay'
        BY <3>1, <3>2, <3>3, <3>5 DEF KeptStay, storeVars
      <3> QED
        BY <3>1, <3>2, <3>9, <3>10, <3>11 DEF RetentionInv, storeVars
    <2> QED
      BY <1>4, <2>1, <2>2 DEF CleanerRepo
  <1>5. ASSUME NEW a \in cl.todo, CleanerRemove(a) PROVE RetentionInv'
    <2>1. CASE CleanerThrough(a)
      BY <1>5, <2>1, ThroughRetentionInv DEF CleanerRemove, storeVars
    <2>2. CASE cl' = [cl EXCEPT !.pc = "record", !.item = a]
      <3>1. /\ cl'.kept = cl.kept /\ cl'.todo = cl.todo /\ cl'.repo = cl.repo
            /\ cl'.day = cl.day /\ cl'.pc = "record"
        BY <1>1, <2>2 DEF CleanerState
      <3>2. UNCHANGED storeVars
        BY <1>5 DEF CleanerRemove
      <3> QED
        BY <3>1, <3>2
           DEF RetentionInv, Listed, ListedRows, KeptSuffices, KeptStay, storeVars, Quota
    <2> QED
      BY <1>5, <2>1, <2>2 DEF CleanerRemove
  <1>6. CASE CleanerRecord
    <2>1. cl.item \in cl.todo
      BY <1>6 DEF CleanerRecord, TypeInv, CleanerLocals
    <2> QED
      BY <1>6, <2>1, ThroughRetentionInv DEF CleanerRecord, ArtifactDelete, storeVars
  <1> QED
    BY <1>3, <1>4, <1>5, <1>6 DEF CleanerStep

\* Deleting a repository's rows takes all of them; nobody but the cleaner
\* deletes a single row.
LEMMA OthersKeepRepositoriesWhole ==
  ASSUME TypeInv, [Next]_vars, ~ CleanerNext
  PROVE  WholeRepositories
  <1>1. ASSUME artifacts \subseteq artifacts' PROVE WholeRepositories
    BY <1>1 DEF WholeRepositories
  <1>2. ASSUME NEW i, ArtifactDeleteByRepo(i) PROVE WholeRepositories
    BY <1>2 DEF ArtifactDeleteByRepo, ArtifactsOf, WholeRepositories
  <1>3. ASSUME NEW u \in Upload, UploadNext(u) PROVE WholeRepositories
    BY <1>1, <1>3
       DEF UploadNext, UploadStep, UploadLookup, UploadCheck, UploadCreateTemp, UploadCopy,
           UploadCopyFails, UploadRename, UploadInsert, UploadRollback, UploadQueryFails,
           ArtifactCreate, storeVars
  <1>4. ASSUME NEW c \in CreateReq, CreateNext(c) PROVE WholeRepositories
    BY <1>1, <1>4
       DEF CreateNext, CreateStep, CreateMkdir, CreateInsert, CreateRmdir, RepoCreate, storeVars
  <1>5. ASSUME NEW p \in UpdateReq, UpdateNext(p) PROVE WholeRepositories
    BY <1>1, <1>5 DEF UpdateNext, UpdateStep, UpdateGet, UpdatePut, RepoUpdate, storeVars
  <1>6. ASSUME NEW d \in DeleteReq, DeleteNext(d) PROVE WholeRepositories
    BY <1>1, <1>2, <1>6
       DEF DeleteNext, DeleteStep, DeleteGet, DeleteRows, DeleteRow, DeleteList, DeleteUnlink,
           DeleteRmdir, DeleteRemoveFails, RepoDelete, storeVars
  <1>7. ASSUME NEW d \in Download, DownloadNext(d) PROVE WholeRepositories
    BY <1>1, <1>7
       DEF DownloadNext, DownloadStep, DownloadLookup, DownloadFind, DownloadServe,
           DownloadQueryFails, storeVars
  <1>8. CASE ClockNext \/ Crash \/ UNCHANGED vars
    BY <1>1, <1>8 DEF ClockNext, Crash, vars, storeVars
  <1> QED
    BY <1>3, <1>4, <1>5, <1>6, <1>7, <1>8 DEF Next

LEMMA ServerStepRetention == TypeInv /\ RetentionInv /\ [Next]_vars => RetentionInv'
  <1> SUFFICES ASSUME TypeInv, RetentionInv, [Next]_vars PROVE RetentionInv'
    OBVIOUS
  <1>1. CASE CleanerNext
    BY <1>1, CleanerRetentionInv DEF CleanerNext
  <1>2. CASE ~ CleanerNext /\ cl' = cl
    <2>1. FreshArtifacts
      BY ServerStoreStep, StoreStepFresh DEF TypeInv, TypeOK, StoreInv
    <2>2. IsFiniteSet(artifacts')
      BY ServerStoreStep, FiniteArtifacts DEF RetentionInv
    <2>3. StoreTypeOK'
      BY ServerStepType DEF TypeInv, TypeOK
    <2> QED
      BY <1>2, <2>1, <2>2, <2>3, OthersKeepRepositoriesWhole, OthersRetentionInv
  <1>3. CASE Crash
    <2>1. cl'.kept = {} /\ cl'.todo = {} /\ artifacts' = artifacts
      BY <1>3 DEF Crash, CleanerCrash, CleanerIdle, storeVars
    <2> QED
      BY <2>1 DEF RetentionInv, Listed, ListedRows, KeptSuffices, KeptStay
  <1>4. CleanerNext \/ Crash \/ cl' = cl
    BY DEF Next, UploadNext, CreateNext, UpdateNext, DeleteNext, DownloadNext, ClockNext, vars
  <1> QED
    BY <1>1, <1>2, <1>3, <1>4

LEMMA ServerInitRetention == Init => RetentionInv
  <1> SUFFICES ASSUME Init PROVE RetentionInv
    OBVIOUS
  <1>1. artifacts = {} /\ cl.kept = {} /\ cl.todo = {}
    BY DEF Init, CleanerInit, CleanerIdle
  <1> QED
    BY <1>1, FS_EmptySet DEF RetentionInv, Listed, ListedRows, KeptSuffices, KeptStay

SafeRemoval ==
  cl' # cl => \A a \in artifacts \ artifacts' :
      /\ Cardinality(NewerOrEqual(artifacts', a)) >= Quota(cl.repo)
      /\ cl.repo.keepCount <= 0 => a.createdAt < cl.day - cl.repo.keepDays

LEMMA ServerStepSafeRemoval == TypeInv /\ RetentionInv /\ [Next]_vars => SafeRemoval
  <1> SUFFICES ASSUME TypeInv, RetentionInv, [Next]_vars, cl' # cl, NEW a \in artifacts \ artifacts'
               PROVE  /\ Cardinality(NewerOrEqual(artifacts', a)) >= Quota(cl.repo)
                      /\ cl.repo.keepCount <= 0 => a.createdAt < cl.day - cl.repo.keepDays
    BY DEF SafeRemoval
  \* Only the cleaner, deleting a record, both moves on and removes a row.
  <1>1. CleanerRecord /\ ArtifactDelete(cl.item.id)
    <2>1. CleanerNext
      BY DEF Next, UploadNext, CreateNext, UpdateNext, DeleteNext, DownloadNext, ClockNext,
             Crash, vars, storeVars
    <2> QED
      BY <2>1 DEF CleanerNext, CleanerStep, CleanerStart, CleanerRepo, CleanerPassEnds,
                  CleanerRemove, CleanerRecord, storeVars
  <1>2. cl.item \in cl.todo
    BY <1>1 DEF CleanerRecord, TypeInv, CleanerLocals
  <1>3. artifacts' = {b \in artifacts : b.id # cl.item.id} /\ a.id = cl.item.id
    BY <1>1 DEF ArtifactDelete
  <1>4. a \in cl.todo
    BY <1>2, <1>3 DEF RetentionInv, ListedRows, Listed
  <1>5. cl.kept \subseteq artifacts'
    <2>1. cl.kept \subseteq artifacts
      BY <1>4 DEF RetentionInv, KeptStay
    <2>2. \A k \in cl.kept : k.id # a.id
      BY <1>4 DEF RetentionInv, ListedRows, Listed
    <2> QED
      BY <1>3, <2>1, <2>2
  <1>6. cl.kept \subseteq NewerOrEqual(artifacts', a)
    <2>1. \A k \in cl.kept : k.repoId = a.repoId /\ a.createdAt <= k.createdAt
      BY <1>4 DEF RetentionInv, ListedRows, KeptSuffices, Listed
    <2>2. \A k \in cl.kept : k.id # a.id
      BY <1>3, <1>5
    <2> QED
      BY <1>5, <2>1, <2>2 DEF NewerOrEqual
  <1>7. IsFiniteSet(NewerOrEqual(artifacts', a))
    BY <1>3, FS_Subset DEF RetentionInv, NewerOrEqual
  <1>8. Cardinality(cl.kept) <= Cardinality(NewerOrEqual(artifacts', a))
    BY <1>6, <1>7, FS_Subset
  <1>9. /\ Quota(cl.repo) <= Cardinality(cl.kept)
        /\ cl.repo.keepCount <= 0 => a.createdAt < cl.day - cl.repo.keepDays
    BY <1>4 DEF RetentionInv, KeptSuffices
  <1>10. /\ Quota(cl.repo) \in Int
         /\ Cardinality(cl.kept) \in Int
         /\ Cardinality(NewerOrEqual(artifacts', a)) \in Int
    <2>1. cl.repo \in Repo
      BY <1>1 DEF CleanerRecord, TypeInv, CleanerLocals
    <2>2. cl.repo.keepCount \in Keep
      BY <2>1 DEF Repo
    <2>3. Quota(cl.repo) \in Int
      <3>1. cl.repo.keepCount \in Int
        BY <2>2, StoreAssumption
      <3> QED
        BY <3>1 DEF Quota
    <2>4. IsFiniteSet(cl.kept)
      BY <1>4 DEF RetentionInv, KeptSuffices
    <2>5. Cardinality(cl.kept) \in Nat
      BY <2>4, FS_CardinalityType
    <2>6. Cardinality(NewerOrEqual(artifacts', a)) \in Nat
      BY <1>7, FS_CardinalityType
    <2> QED
      BY <2>3, <2>5, <2>6
  <1> QED
    BY <1>8, <1>9, <1>10

\* The cleaner never deletes a record unless as many records of its repository
\* as the policy has it keep, none of them older, are still there; for every
\* number of concurrent uploads, updates and deletions, and however stale the
\* cleaner's lists are (cleanup.go:89-143).
THEOREM CleanerRetains == Spec => RetentionSafe
  <1>1. Spec => [](TypeInv /\ RetentionInv)
    BY ServerInitType, ServerStepType, ServerInitRetention, ServerStepRetention, PTL DEF Spec
  <1>2. TypeInv /\ RetentionInv /\ [Next]_vars => [SafeRemoval]_vars
    BY ServerStepSafeRemoval
  <1>3. RetentionSafe <=> [][SafeRemoval]_vars
    BY DEF RetentionSafe, SafeRemoval
  <1> QED
    BY <1>1, <1>2, <1>3, PTL DEF Spec
=============================================================================
