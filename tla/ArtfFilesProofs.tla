--------------------------- MODULE ArtfFilesProofs ---------------------------
(***************************************************************************)
(* Records, names and files of the server, for every number of requests,   *)
(* crashes and faults.  In this order: what is at a final path is a whole  *)
(* body; temporary files are removed; ids and names belong together; every *)
(* file has an owner; a deletion is complete; the cleaner takes files only *)
(* from what it listed; folders stay; and, for clients that upload to a    *)
(* path from one side at a time, records and files fit, and the server     *)
(* implements ArtifactPublishing.                                          *)
(*                                                                         *)
(* The first invariant: the file that an upload is about to rename holds   *)
(* its whole body, and a file at a final path names an upload that has     *)
(* been there, whose path stays what it was however the request ends.      *)
(***************************************************************************)
EXTENDS ArtfServerProofs

PublishedWhole ==
  \A p \in Path : HasFile(p) =>
    files[p] \in Upload /\ up[files[p]].path = p /\ up[files[p]].pc # "idle"

RenamesWhole ==
  \A u \in Upload : up[u].pc = "rename" /\ HasTemp(u) => temps[u].body = u

FileInv == PublishedWhole /\ RenamesWhole

\* Whoever is no upload only removes files.
LEMMA OnlyRemovesFileInv ==
  ASSUME FileInv, UNCHANGED up,
         \A p \in Path : files'[p] \in {files[p], NoFile},
         \A u \in Upload : temps'[u] \in {temps[u], NoFile}
  PROVE  FileInv'
  BY DEF FileInv, PublishedWhole, RenamesWhole, HasFile, HasTemp

\* An upload's request keeps its path and never becomes idle again.
LEMMA UploadKeepsPath ==
  ASSUME TypeInv, NEW u \in Upload, UploadStep(u)
  PROVE  /\ up' \in [Upload -> UploadState]
         /\ \A v \in Upload : v # u => up'[v] = up[v]
         /\ up'[u].pc # "idle"
         /\ up[u].pc # "idle" => up'[u].path = up[u].path
         /\ up'[u].pc = "rename" => UploadCopy(u)
  <1>1. up \in [Upload -> UploadState] /\ up' \in [Upload -> UploadState]
    BY ServerHandlers, UploadStepType DEF TypeInv, TypeOK, UploadTypeOK
  <1>2. CASE UploadLookup(u)
    BY <1>1, <1>2 DEF UploadLookup
  <1>3. CASE UploadCheck(u) \/ UploadCreateTemp(u) \/ UploadCopy(u)
    BY <1>1, <1>3
       DEF UploadCheck, UploadCreateTemp, UploadCopy, UploadAnswer, UploadGoto, UploadState
  <1>4. CASE UploadCopyFails(u) \/ UploadRename(u) \/ UploadQueryFails(u)
    BY <1>1, <1>4
       DEF UploadCopyFails, UploadRename, UploadQueryFails, UploadAnswer, UploadState
  <1>5. CASE UploadInsert(u) \/ UploadRollback(u)
    BY <1>1, <1>5
       DEF UploadInsert, UploadRollback, UploadAnswer, UploadGoto, UploadState
  <1> QED
    BY <1>2, <1>3, <1>4, <1>5 DEF UploadStep

LEMMA UploadFileInv ==
  ASSUME TypeInv, FileInv, NEW u \in Upload, UploadStep(u)
  PROVE  FileInv'
  <1>1. /\ files \in [Path -> Upload \union {NoFile, Partial}]
        /\ temps \in [Upload -> Temp \union {NoFile}]
    BY DEF TypeInv, TypeOK, DataDirTypeOK
  \* The request is the same path's, so what is published remains its file.
  <1>2. ASSUME NEW p \in Path, files'[p] = files[p], HasFile(p)'
        PROVE  files'[p] \in Upload /\ up'[files'[p]].path = p /\ up'[files'[p]].pc # "idle"
    BY <1>2, UploadKeepsPath DEF FileInv, PublishedWhole, HasFile
  <1>3. CASE UploadRename(u) /\ RenameTemp(u, up[u].path)
    <2>1. files' = [files EXCEPT ![up[u].path] = u] /\ temps' = [temps EXCEPT ![u] = NoFile]
      BY <1>3 DEF RenameTemp, UploadRename, FileInv, RenamesWhole
    <2>2. up'[u].path = up[u].path /\ up'[u].pc # "idle"
      BY <1>3, UploadKeepsPath DEF UploadRename
    <2>3. PublishedWhole'
      BY <1>1, <1>2, <2>1, <2>2 DEF PublishedWhole, HasFile
    <2>4. RenamesWhole'
      BY <1>1, <2>1, UploadKeepsPath DEF FileInv, RenamesWhole, HasTemp
    <2> QED
      BY <2>3, <2>4 DEF FileInv
  <1>4. CASE ~ (UploadRename(u) /\ RenameTemp(u, up[u].path))
    <2>1. \A p \in Path : files'[p] \in {files[p], NoFile}
      BY <1>1, <1>4
         DEF UploadStep, UploadLookup, UploadCheck, UploadCreateTemp, UploadCopy,
             UploadCopyFails, UploadRename, UploadInsert, UploadRollback, UploadQueryFails,
             CreateTemp, WriteTemp, RemoveTemp, RemoveFile, dirVars
    <2>2. PublishedWhole'
      BY <1>2, <2>1 DEF PublishedWhole, HasFile
    <2>3. \A v \in Upload : v # u => temps'[v] = temps[v]
      BY <1>1, <1>4
         DEF UploadStep, UploadLookup, UploadCheck, UploadCreateTemp, UploadCopy,
             UploadCopyFails, UploadRename, UploadInsert, UploadRollback, UploadQueryFails,
             CreateTemp, WriteTemp, RemoveTemp, RemoveFile, dirVars
    <2>4. UploadCopy(u) => (HasTemp(u)' => temps'[u].body = u)
      <3>1. HasTemp(u) => temps[u] \in Temp
        BY <1>1 DEF HasTemp
      <3> QED
        BY <1>1, <3>1 DEF UploadCopy, WriteTemp, HasTemp, Temp
    <2>5. RenamesWhole'
      BY <2>3, <2>4, UploadKeepsPath DEF FileInv, RenamesWhole, HasTemp
    <2> QED
      BY <2>2, <2>5 DEF FileInv
  <1> QED
    BY <1>3, <1>4

\* What a crash leaves of a request has the path it had.
LEMMA CrashFileInv ==
  ASSUME TypeInv, FileInv, Crash
  PROVE  FileInv'
  BY DEF Crash, UploadCrash, UploadInFlight, UploadAnswered, dirVars, TypeInv, TypeOK,
         UploadTypeOK, UploadState, FileInv, PublishedWhole, RenamesWhole, HasFile, HasTemp

LEMMA ServerStepFileInv == TypeInv /\ FileInv /\ [Next]_vars => FileInv'
  <1> SUFFICES ASSUME TypeInv, FileInv, [Next]_vars PROVE FileInv'
    OBVIOUS
  <1>0. /\ files \in [Path -> Upload \union {NoFile, Partial}]
        /\ temps \in [Upload -> Temp \union {NoFile}]
    BY DEF TypeInv, TypeOK, DataDirTypeOK
  <1>1. ASSUME NEW u \in Upload, UploadNext(u) PROVE FileInv'
    BY <1>1, UploadFileInv DEF UploadNext
  <1>2. ASSUME NEW c \in CreateReq, CreateNext(c) PROVE FileInv'
    BY <1>0, <1>2, OnlyRemovesFileInv
       DEF CreateNext, CreateStep, CreateMkdir, CreateInsert, CreateRmdir, MkdirAll, RemoveDir,
           dirVars
  <1>3. ASSUME NEW d \in DeleteReq, DeleteNext(d) PROVE FileInv'
    BY <1>0, <1>3, OnlyRemovesFileInv
       DEF DeleteNext, DeleteStep, DeleteGet, DeleteRows, DeleteRow, DeleteList, DeleteUnlink,
           DeleteRmdir, DeleteRemoveFails, RemoveDir, Unlink, dirVars
  <1>4. CASE CleanerNext
    BY <1>0, <1>4, OnlyRemovesFileInv
       DEF CleanerNext, CleanerStep, CleanerStart, CleanerRepo, CleanerPassEnds,
           CleanerRemove, CleanerRecord, RemoveFile, dirVars
  <1>5. CASE UNCHANGED <<dirVars, up>>
    BY <1>5, OnlyRemovesFileInv DEF dirVars
  <1>6. CASE Crash
    BY <1>6, CrashFileInv
  <1> QED
    BY <1>1, <1>2, <1>3, <1>4, <1>5, <1>6
       DEF Next, UpdateNext, UpdateStep, UpdateGet, UpdatePut, DownloadNext, DownloadStep,
           DownloadLookup, DownloadFind, DownloadServe, DownloadQueryFails, ClockNext, vars

\* A final path only ever holds the whole body of an upload to that path, for
\* every number of concurrent uploads - also to one path - and at every crash.
THEOREM FilesAreWhole == Spec => []WholeFiles
  <1>1. Init => FileInv
    BY DEF Init, DataDirInit, UploadInit, FileInv, PublishedWhole, RenamesWhole, HasFile, HasTemp
  <1>2. FileInv => WholeFiles
    BY DEF FileInv, PublishedWhole, WholeFiles
  <1> QED
    BY <1>1, <1>2, ServerInitType, ServerStepType, ServerStepFileInv, PTL DEF Spec

-----------------------------------------------------------------------------

LEMMA UploadTempStep ==
  ASSUME TypeInv, NoTempLeft, NEW u \in Upload, UploadStep(u)
  PROVE  NoTempLeft'
  <1>1. /\ up \in [Upload -> UploadState] /\ up' \in [Upload -> UploadState]
        /\ temps \in [Upload -> Temp \union {NoFile}]
    BY ServerHandlers, UploadStepType DEF TypeInv, TypeOK, UploadTypeOK, DataDirTypeOK
  <1>2. \A v \in Upload : v # u => temps'[v] = temps[v]
    BY <1>1
       DEF UploadStep, UploadLookup, UploadCheck, UploadCreateTemp, UploadCopy, UploadCopyFails,
           UploadRename, UploadInsert, UploadRollback, UploadQueryFails, CreateTemp, WriteTemp,
           RemoveTemp, RenameTemp, RemoveFile, dirVars
  <1>3. HasTemp(u)' => up'[u].pc \in {"copy", "rename", "lost"}
    <2>1. CASE UploadCreateTemp(u) \/ UploadCopy(u)
      BY <1>1, <2>1
         DEF NoTempLeft, HasTemp, UploadCreateTemp, UploadCopy, UploadGoto, UploadState, dirVars
    <2>2. CASE UploadCopyFails(u) \/ UploadRename(u)
      BY <1>1, <2>2 DEF UploadCopyFails, UploadRename, RemoveTemp, RenameTemp, HasTemp
    <2>3. CASE UploadLookup(u) \/ UploadCheck(u) \/ UploadInsert(u) \/ UploadRollback(u)
                 \/ UploadQueryFails(u)
      BY <2>3 DEF NoTempLeft, HasTemp, UploadLookup, UploadCheck, UploadInsert,
                  UploadRollback, UploadQueryFails, RemoveFile, dirVars
    <2> QED
      BY <2>1, <2>2, <2>3 DEF UploadStep
  <1> QED
    BY <1>2, <1>3, UploadKeepsPath DEF NoTempLeft, HasTemp

LEMMA CrashTempStep ==
  ASSUME TypeInv, NoTempLeft, Crash
  PROVE  NoTempLeft'
  BY DEF Crash, UploadCrash, UploadInFlight, UploadAnswered, dirVars, TypeInv, TypeOK,
         UploadTypeOK, UploadState, NoTempLeft, HasTemp

LEMMA ServerStepTemps == TypeInv /\ NoTempLeft /\ [Next]_vars => NoTempLeft'
  <1> SUFFICES ASSUME TypeInv, NoTempLeft, [Next]_vars PROVE NoTempLeft'
    OBVIOUS
  <1>1. ASSUME NEW u \in Upload, UploadNext(u) PROVE NoTempLeft'
    BY <1>1, UploadTempStep DEF UploadNext
  <1>2. ASSUME UNCHANGED up, \A u \in Upload : temps'[u] \in {temps[u], NoFile}
        PROVE  NoTempLeft'
    BY <1>2 DEF NoTempLeft, HasTemp
  <1>3. ASSUME NEW d \in DeleteReq, DeleteNext(d) PROVE NoTempLeft'
    BY <1>2, <1>3
       DEF DeleteNext, DeleteStep, DeleteGet, DeleteRows, DeleteRow, DeleteList, DeleteUnlink,
           DeleteRmdir, DeleteRemoveFails, RemoveDir, Unlink, dirVars
  <1>4. CASE UNCHANGED <<temps, up>>
    BY <1>4 DEF NoTempLeft, HasTemp
  <1>5. CASE Crash
    BY <1>5, CrashTempStep
  <1>6. ASSUME NEW c \in CreateReq, CreateNext(c) PROVE UNCHANGED <<temps, up>>
    BY <1>6 DEF CreateNext, CreateStep, CreateMkdir, CreateInsert, CreateRmdir, MkdirAll,
                RemoveDir, dirVars
  <1>7. ASSUME CleanerNext PROVE UNCHANGED <<temps, up>>
    BY <1>7 DEF CleanerNext, CleanerStep, CleanerStart, CleanerRepo, CleanerPassEnds,
                CleanerRemove, CleanerRecord, RemoveFile, dirVars
  <1> QED
    BY <1>1, <1>3, <1>4, <1>5, <1>6, <1>7
       DEF Next, UpdateNext, UpdateStep, UpdateGet, UpdatePut, DownloadNext, DownloadStep,
           DownloadLookup, DownloadFind, DownloadServe, DownloadQueryFails, ClockNext, vars,
           dirVars

\* An upload leaves a temporary file behind only if the process dies under it:
\* each of its error paths removes the file, and nobody else makes one.
THEOREM NoTempIsLeft == Spec => []NoTempLeft
  <1>1. Init => NoTempLeft
    BY DEF Init, DataDirInit, NoTempLeft, HasTemp
  <1> QED
    BY <1>1, ServerInitType, ServerStepType, ServerStepTemps, PTL DEF Spec

-----------------------------------------------------------------------------
(***************************************************************************)
(* Names.  NamesInv says of artifacts, uploads and the requests of an      *)
(* administrator that the id and the name they go by belong together.      *)
(***************************************************************************)

ArtifactNames == \A a \in artifacts : a.name = a.path[2] /\ NamedSo(a.repoId, a.path[1])

UploadNames == \A u \in Upload : UploadInFlight(u) => NamedSo(up[u].repoId, up[u].path[1])

NamesInv == ArtifactNames /\ UploadNames /\ UpdateNames /\ DeleteNames

LEMMA SequenceTypes == TypeInv => repoSeq \in Int /\ artifactSeq \in Int
  BY StoreAssumption DEF TypeInv, TypeOK, StoreTypeOK

LEMMA ServerNamesStay == TypeInv /\ NamesInv /\ [Next]_vars => RepoNamesStay
  <1> SUFFICES ASSUME TypeInv, NamesInv, [Next]_vars PROVE RepoNamesStay
    OBVIOUS
  <1>0. HandlersInv
    BY ServerHandlers
  <1>1. ASSUME NEW u \in Upload, UploadNext(u) PROVE RepoNamesStay
    BY <1>0, <1>1, UploadNamesStay DEF UploadNext
  <1>2. ASSUME NEW c \in CreateReq, CreateNext(c) PROVE RepoNamesStay
    BY <1>0, <1>2, CreateNamesStay DEF CreateNext
  <1>3. ASSUME NEW p \in UpdateReq, UpdateNext(p) PROVE RepoNamesStay
    BY <1>0, <1>3, UpdateNamesStay DEF UpdateNext, NamesInv
  <1>4. ASSUME NEW d \in DeleteReq, DeleteNext(d) PROVE RepoNamesStay
    BY <1>0, <1>4, DeleteNamesStay DEF DeleteNext
  <1>5. CASE UNCHANGED <<repos, repoSeq>>
    BY <1>0, <1>5, FewerReposNamesStay
  <1>6. CASE CleanerNext
    BY <1>5, <1>6
       DEF CleanerNext, CleanerStep, CleanerStart, CleanerRepo, CleanerPassEnds, CleanerRemove,
           CleanerRecord, ArtifactDelete, storeVars
  <1>7. ASSUME NEW d \in Download, DownloadNext(d) PROVE RepoNamesStay
    BY <1>5, <1>7
       DEF DownloadNext, DownloadStep, DownloadLookup, DownloadFind, DownloadServe,
           DownloadQueryFails, storeVars
  <1>8. CASE ClockNext \/ Crash \/ UNCHANGED vars
    BY <1>5, <1>8 DEF ClockNext, Crash, vars, storeVars
  <1> QED
    BY <1>1, <1>2, <1>3, <1>4, <1>6, <1>7, <1>8 DEF Next

LEMMA UploadNamesStep ==
  ASSUME TypeInv, NamesInv, RepoNamesStay, NEW u \in Upload, UploadStep(u)
  PROVE  ArtifactNames' /\ UploadNames'
  <1>1. up \in [Upload -> UploadState] /\ up' \in [Upload -> UploadState]
    BY ServerHandlers, UploadStepType DEF TypeInv, TypeOK, UploadTypeOK
  <1>2. ASSUME artifacts' \subseteq artifacts PROVE ArtifactNames'
    BY <1>2 DEF RepoNamesStay, NamesInv, ArtifactNames, NamedSo
  <1>3. CASE UploadLookup(u)
    <2>1. UploadInFlight(u)' =>
             \E r \in repos : up'[u].repoId = r.id /\ up'[u].path[1] = r.name
      BY <1>1, <1>3 DEF UploadLookup, ReposNamed, UploadInFlight, UploadAnswered
    <2>2. UNCHANGED storeVars
      BY <1>3 DEF UploadLookup
    <2>3. UploadNames'
      BY <1>1, <2>1, <2>2, ServerHandlers, RowNamedSo, UploadKeepsPath
         DEF NamesInv, UploadNames, NamedSo, UploadInFlight, storeVars
    <2> QED
      BY <1>2, <2>2, <2>3 DEF storeVars
  <1>4. CASE ~ UploadLookup(u)
    <2>1. UploadInFlight(u)' =>
             UploadInFlight(u) /\ up'[u].repoId = up[u].repoId /\ up'[u].path = up[u].path
      <3>1. CASE UploadCheck(u) \/ UploadCreateTemp(u) \/ UploadCopy(u) \/ UploadCopyFails(u)
        BY <1>1, <3>1
           DEF UploadCheck, UploadCreateTemp, UploadCopy, UploadCopyFails, UploadAnswer,
               UploadGoto, UploadState, UploadInFlight, UploadAnswered
      <3>2. CASE UploadRename(u) \/ UploadInsert(u) \/ UploadRollback(u) \/ UploadQueryFails(u)
        BY <1>1, <3>2
           DEF UploadRename, UploadInsert, UploadRollback, UploadQueryFails, UploadAnswer,
               UploadGoto, UploadState, UploadInFlight, UploadAnswered
      <3> QED
        BY <1>4, <3>1, <3>2 DEF UploadStep
    <2>2. UploadNames'
      BY <2>1, UploadKeepsPath
         DEF RepoNamesStay, NamesInv, UploadNames, NamedSo, UploadInFlight
    <2>3. ArtifactNames'
      <3>1. CASE /\ up[u].pc = "insert"
                 /\ ArtifactCreate(up[u].repoId, up[u].path, u, up[u].createdAt)
        <4>1. NamedSo(up[u].repoId, up[u].path[1])
          BY <3>1 DEF NamesInv, UploadNames, UploadInFlight, UploadAnswered
        <4> QED
          BY <3>1, <4>1 DEF ArtifactCreate, NamesInv, ArtifactNames, NamedSo
      <3> QED
        BY <1>2, <1>4, <3>1
           DEF UploadStep, UploadCheck, UploadCreateTemp, UploadCopy, UploadCopyFails,
               UploadRename, UploadInsert, UploadRollback, UploadQueryFails, storeVars
    <2> QED
      BY <2>2, <2>3
  <1> QED
    BY <1>3, <1>4

LEMMA ServerStepNames == TypeInv /\ NamesInv /\ [Next]_vars => NamesInv'
  <1> SUFFICES ASSUME TypeInv, NamesInv, [Next]_vars PROVE NamesInv'
    OBVIOUS
  <1>1. RepoNamesStay
    BY ServerNamesStay
  <1>2. UNCHANGED up => UploadNames'
    BY <1>1 DEF RepoNamesStay, NamesInv, UploadNames, NamedSo, UploadInFlight
  <1>3. UNCHANGED pt => UpdateNames'
    BY <1>1 DEF RepoNamesStay, NamesInv, UpdateNames, NamedSo
  <1>4. UNCHANGED dl => DeleteNames'
    BY <1>1 DEF RepoNamesStay, NamesInv, DeleteNames, NamedSo
  <1>5. artifacts' \subseteq artifacts => ArtifactNames'
    BY <1>1 DEF RepoNamesStay, NamesInv, ArtifactNames, NamedSo
  <1>6. ASSUME NEW u \in Upload, UploadNext(u) PROVE NamesInv'
    BY <1>1, <1>3, <1>4, <1>6, UploadNamesStep DEF UploadNext, adminVars, NamesInv
  <1>7. ASSUME NEW c \in CreateReq, CreateNext(c) PROVE NamesInv'
    BY <1>2, <1>3, <1>4, <1>5, <1>7
       DEF CreateNext, CreateStep, CreateMkdir, CreateInsert, CreateRmdir, RepoCreate,
           storeVars, NamesInv
  <1>8. ASSUME NEW p \in UpdateReq, UpdateNext(p) PROVE NamesInv'
    <2>1. UNCHANGED <<artifacts, up, dl>>
      BY <1>8 DEF UpdateNext, UpdateStep, UpdateGet, UpdatePut, RepoUpdate, storeVars
    <2> QED
      BY <1>1, <1>2, <1>4, <1>5, <1>8, <2>1, ServerHandlers, UpdateNamesStep
         DEF UpdateNext, NamesInv
  <1>9. ASSUME NEW d \in DeleteReq, DeleteNext(d) PROVE NamesInv'
    <2>1. artifacts' \subseteq artifacts /\ UNCHANGED <<up, pt>>
      BY <1>9
         DEF DeleteNext, DeleteStep, DeleteGet, DeleteRows, DeleteRow, DeleteList, DeleteUnlink,
             DeleteRmdir, DeleteRemoveFails, RepoDelete, ArtifactDeleteByRepo, storeVars
    <2> QED
      BY <1>1, <1>2, <1>3, <1>5, <1>9, <2>1, ServerHandlers, DeleteNamesStep
         DEF DeleteNext, NamesInv
  <1>10. CASE CleanerNext
    <2>1. artifacts' \subseteq artifacts
      BY <1>10
         DEF CleanerNext, CleanerStep, CleanerStart, CleanerRepo, CleanerPassEnds, CleanerRemove,
             CleanerRecord, ArtifactDelete, storeVars
    <2> QED
      BY <1>2, <1>3, <1>4, <1>5, <1>10, <2>1 DEF CleanerNext, adminVars, NamesInv
  <1>11. CASE UNCHANGED <<storeVars, up, adminVars>>
    BY <1>2, <1>3, <1>4, <1>5, <1>11 DEF storeVars, adminVars, NamesInv
  <1>12. CASE Crash
    BY <1>12
       DEF Crash, UploadCrash, AdminCrash, AdminAnswered, UploadInFlight, UploadAnswered, storeVars,
           NamesInv, ArtifactNames, UploadNames, UpdateNames, DeleteNames, NamedSo
  <1> QED
    BY <1>6, <1>7, <1>8, <1>9, <1>10, <1>11, <1>12
       DEF Next, DownloadNext, DownloadStep, DownloadLookup, DownloadFind, DownloadServe,
           DownloadQueryFails, ClockNext, vars

LEMMA ServerInitNames == Init => NamesInv
  BY DEF Init, UploadInit, AdminInit, UploadInFlight, UploadAnswered, NamesInv, ArtifactNames,
         UploadNames, UpdateNames, DeleteNames

-----------------------------------------------------------------------------
(***************************************************************************)
(* Owners.  FilesOwned is not inductive: the record that owns a file may   *)
(* be the one the cleaner is about to delete.  OwnedInv does not count     *)
(* that record, since the cleaner has removed its file already, and what   *)
(* is there now was put there by an upload since.                          *)
(***************************************************************************)

BeingDeleted(a) == cl.pc = "record" /\ cl.item.id = a.id

HasRecord(p) == \E a \in artifacts : a.path = p /\ ~ BeingDeleted(a)

HasUpload(p) == up[files[p]].pc \in {"insert", "rollback409", "rollback500", "lost"}

HasDeletion(p) ==
  \E d \in DeleteReq :
    dl[d].name = p[1] /\ dl[d].pc \in {"row", "list", "unlink", "500", "lost"}

OwnedInv == \A p \in Path : HasFile(p) => HasRecord(p) \/ HasUpload(p) \/ HasDeletion(p)

\* The row that the cleaner is about to delete is the one it listed.
LEMMA ItemIsRow ==
  ASSUME TypeInv, RetentionInv, NEW b \in cl.todo
  PROVE  /\ b \in Artifact /\ b.id <= artifactSeq
         /\ \A a \in artifacts : a.id = b.id => a = b
  BY DEF TypeInv, TypeOK, CleanerTypeOK, CleanerState, RetentionInv, ListedRows, Listed

LEMMA UploadOwnedInv ==
  ASSUME TypeInv, RetentionInv, FileInv, OwnedInv, NEW u \in Upload, UploadNext(u)
  PROVE  OwnedInv'
  <1>1. /\ files \in [Path -> Upload \union {NoFile, Partial}]
        /\ up \in [Upload -> UploadState] /\ up' \in [Upload -> UploadState]
    BY ServerHandlers, UploadStepType DEF TypeInv, TypeOK, UploadTypeOK, DataDirTypeOK, UploadNext
  <1>2. cl' = cl /\ dl' = dl
    BY DEF UploadNext, adminVars
  <1>3. artifacts \subseteq artifacts'
    BY DEF UploadNext, UploadStep, UploadLookup, UploadCheck, UploadCreateTemp, UploadCopy,
           UploadCopyFails, UploadRename, UploadInsert, UploadRollback, UploadQueryFails,
           ArtifactCreate, storeVars
  <1>4. \A v \in Upload : v # u => up'[v] = up[v]
    BY UploadKeepsPath DEF UploadNext
  \* A file that this upload does not touch, or one of its own.
  <1>5. ASSUME NEW p \in Path, HasFile(p), files'[p] = files[p],
               files[p] = u => HasUpload(p)' \/ HasRecord(p)' \/ ~ HasUpload(p)
        PROVE  HasRecord(p)' \/ HasUpload(p)' \/ HasDeletion(p)'
    BY <1>2, <1>3, <1>4, <1>5
       DEF FileInv, PublishedWhole, OwnedInv, HasRecord, HasUpload, HasDeletion, BeingDeleted
  <1>6. CASE up[u].pc = "rename" /\ RenameTemp(u, up[u].path) /\ up'[u].pc = "insert"
    <2>1. files' = [files EXCEPT ![up[u].path] = u]
      BY <1>6 DEF RenameTemp, FileInv, RenamesWhole
    <2> QED
      BY <1>1, <1>5, <1>6, <2>1 DEF OwnedInv, HasFile, HasUpload
  <1>7. CASE UploadInsert(u)
    <2>1. UNCHANGED files
      BY <1>7 DEF UploadInsert, dirVars
    <2>2. CASE ArtifactCreate(up[u].repoId, up[u].path, u, up[u].createdAt)
      <3> DEFINE new == [id |-> NextArtifactId, name |-> up[u].path[2], repoId |-> up[u].repoId,
                         path |-> up[u].path, sha |-> u, createdAt |-> up[u].createdAt]
      <3>1. new \in artifacts' /\ new.path = up[u].path /\ new.id = artifactSeq + 1
        BY <2>2 DEF ArtifactCreate, NextArtifactId
      <3>2. cl.pc = "record" => cl.item.id \in Nat /\ cl.item.id <= artifactSeq
        BY ItemIsRow DEF TypeInv, CleanerLocals, Artifact
      <3>3. ~ (cl'.pc = "record" /\ cl'.item.id = new.id)
        BY <1>2, <3>1, <3>2, SequenceTypes
      <3> HIDE DEF new
      <3>4. ASSUME NEW p \in Path, p = up[u].path PROVE HasRecord(p)'
        BY <3>1, <3>3, <3>4 DEF HasRecord, BeingDeleted
      <3> QED
        BY <1>5, <2>1, <3>4 DEF OwnedInv, HasFile, FileInv, PublishedWhole
    <2>3. CASE up'[u].pc \in {"rollback409", "rollback500"}
      BY <1>5, <2>1, <2>3 DEF OwnedInv, HasFile, HasUpload
    <2> QED
      BY <1>1, <1>7, <2>2, <2>3 DEF UploadInsert, UploadGoto, UploadState
  <1>8. CASE UploadRollback(u)
    <2>1. files' = [files EXCEPT ![up[u].path] = NoFile]
      BY <1>8 DEF UploadRollback, RemoveFile
    <2>2. \A p \in Path : HasFile(p)' => files'[p] = files[p] /\ files[p] # u
      BY <1>1, <2>1 DEF HasFile, FileInv, PublishedWhole
    <2> QED
      BY <1>5, <2>2 DEF OwnedInv, HasFile
  <1>9. CASE UNCHANGED files /\ up[u].pc \in {"idle", "check", "temp", "copy", "rename"}
    BY <1>5, <1>9 DEF OwnedInv, HasFile, HasUpload
  <1> QED
    BY <1>1, <1>6, <1>7, <1>8, <1>9
       DEF UploadNext, UploadStep, UploadLookup, UploadCheck, UploadCreateTemp, UploadCopy,
           UploadCopyFails, UploadRename, UploadQueryFails, CreateTemp, WriteTemp, RemoveTemp,
           dirVars

\* The rows that DeleteRows removes are under the name of the repository.
LEMMA RowsUnderName ==
  ASSUME TypeInv, NamesInv, NEW d \in DeleteReq, dl[d].pc = "rows",
         NEW a \in artifacts, a.repoId = dl[d].id
  PROVE  a.path[1] = dl[d].name
  <1>1. PICK r \in repos : r.id = a.repoId
    BY DEF TypeInv, StoreIntegrity, ForeignKeys
  <1>2. r.name = a.path[1]
    BY <1>1 DEF NamesInv, ArtifactNames, NamedSo
  <1>3. r.name = dl[d].name
    BY <1>1 DEF NamesInv, DeleteNames, NamedSo
  <1> QED
    BY <1>2, <1>3

LEMMA DeleteOwnedInv ==
  ASSUME TypeInv, NamesInv, OwnedInv, NEW d \in DeleteReq, DeleteNext(d)
  PROVE  OwnedInv'
  <1>1. /\ dl \in [DeleteReq -> DeleteState]
        /\ files \in [Path -> Upload \union {NoFile, Partial}]
    BY DEF TypeInv, TypeOK, AdminTypeOK, DataDirTypeOK
  <1>2. up' = up /\ cl' = cl
    BY DEF DeleteNext
  <1>3. \A e \in DeleteReq : e # d => dl'[e] = dl[e]
    BY <1>1
       DEF DeleteNext, DeleteStep, DeleteGet, DeleteRows, DeleteRow, DeleteList, DeleteUnlink,
           DeleteRmdir, DeleteRemoveFails, DeleteAnswer
  <1>4. \A p \in Path : files'[p] \in {files[p], NoFile}
    BY <1>1
       DEF DeleteNext, DeleteStep, DeleteGet, DeleteRows, DeleteRow, DeleteList, DeleteUnlink,
           DeleteRmdir, DeleteRemoveFails, RemoveDir, Unlink, dirVars
  \* A file without this deletion for an owner keeps the owner it has.
  <1>5. ASSUME NEW p \in Path, HasFile(p)', HasUpload(p) \/ HasRecord(p)' \/ HasDeletion(p)'
        PROVE  HasRecord(p)' \/ HasUpload(p)' \/ HasDeletion(p)'
    BY <1>2, <1>4, <1>5 DEF HasFile, HasUpload
  <1>6. ASSUME UNCHANGED artifacts, NEW p \in Path, HasRecord(p) PROVE HasRecord(p)'
    BY <1>2, <1>6 DEF HasRecord, BeingDeleted
  <1>7. CASE DeleteRows(d) /\ dl'[d].pc = "row"
    <2>1. /\ dl[d].pc = "rows" /\ dl'[d].name = dl[d].name
          /\ UNCHANGED files
          /\ artifacts' = artifacts \ ArtifactsOf(dl[d].id)
      BY <1>1, <1>7
         DEF DeleteRows, ArtifactDeleteByRepo, DeleteAnswer, DeleteState, dirVars
    <2>2. ASSUME NEW p \in Path, HasRecord(p) PROVE HasRecord(p)' \/ HasDeletion(p)'
      <3>1. PICK a \in artifacts : a.path = p /\ ~ BeingDeleted(a)
        BY <2>2 DEF HasRecord
      <3>2. CASE a.repoId = dl[d].id
        BY <1>7, <2>1, <3>1, <3>2, RowsUnderName DEF HasDeletion
      <3>3. CASE a.repoId # dl[d].id
        BY <1>2, <2>1, <3>1, <3>3 DEF ArtifactsOf, HasRecord, BeingDeleted
      <3> QED
        BY <3>2, <3>3
    <2>3. ASSUME NEW p \in Path, HasDeletion(p) PROVE HasDeletion(p)'
      BY <1>3, <1>7, <2>1, <2>3 DEF HasDeletion
    <2> QED
      BY <1>5, <2>1, <2>2, <2>3 DEF OwnedInv, HasFile
  <1>8. CASE (DeleteList(d) \/ DeleteRmdir(d)) /\ dl'[d].pc = "200"
    <2>1. Entries(dl[d].name) = {} /\ UNCHANGED <<artifacts, files>>
      BY <1>1, <1>8 DEF DeleteList, DeleteRmdir, DeleteAnswer, RemoveDir, storeVars
    <2>2. ASSUME NEW p \in Path, HasFile(p) PROVE p[1] # dl[d].name
      <3>1. p = <<p[1], p[2]>> /\ p[2] \in ArtifactName
        BY DEF Path
      <3> QED
        BY <2>1, <2>2, <3>1 DEF Entries
    <2>3. ASSUME NEW p \in Path, HasFile(p), HasDeletion(p) PROVE HasDeletion(p)'
      BY <1>3, <2>2, <2>3 DEF HasDeletion
    <2> QED
      BY <1>5, <1>6, <2>1, <2>3 DEF OwnedInv, HasFile
  <1>9. CASE ~ (DeleteRows(d) /\ dl'[d].pc = "row") /\ dl'[d].pc # "200"
    <2>1. UNCHANGED artifacts
      BY <1>1, <1>9
         DEF DeleteNext, DeleteStep, DeleteGet, DeleteRows, DeleteRow, DeleteList, DeleteUnlink,
             DeleteRmdir, DeleteRemoveFails, RepoDelete, DeleteState, storeVars
    <2>2. dl[d].pc \in {"row", "list", "unlink", "500", "lost"} =>
             dl'[d].pc \in {"row", "list", "unlink", "500", "lost"} /\ dl'[d].name = dl[d].name
      BY <1>1, <1>9
         DEF DeleteNext, DeleteStep, DeleteGet, DeleteRows, DeleteRow, DeleteList, DeleteUnlink,
             DeleteRmdir, DeleteRemoveFails, DeleteAnswer, DeleteState
    <2>3. ASSUME NEW p \in Path, HasDeletion(p) PROVE HasDeletion(p)'
      BY <1>3, <2>2, <2>3 DEF HasDeletion
    <2> QED
      BY <1>4, <1>5, <1>6, <2>1, <2>3 DEF OwnedInv, HasFile
  <1> QED
    BY <1>1, <1>7, <1>8, <1>9
       DEF DeleteNext, DeleteStep, DeleteGet, DeleteRows, DeleteRow, DeleteUnlink,
           DeleteRemoveFails, DeleteAnswer, DeleteState

LEMMA CleanerOwnedInv ==
  ASSUME TypeInv, RetentionInv, OwnedInv, CleanerNext
  PROVE  OwnedInv'
  <1>1. /\ cl \in CleanerState
        /\ files \in [Path -> Upload \union {NoFile, Partial}]
    BY DEF TypeInv, TypeOK, CleanerTypeOK, DataDirTypeOK
  <1>2. up' = up /\ dl' = dl
    BY DEF CleanerNext, adminVars
  <1>3. \A p \in Path : files'[p] \in {files[p], NoFile}
    BY <1>1
       DEF CleanerNext, CleanerStep, CleanerStart, CleanerRepo, CleanerPassEnds, CleanerRemove,
           CleanerRecord, RemoveFile, dirVars
  <1>4. ASSUME \A p \in Path : HasFile(p)' /\ HasRecord(p) => HasRecord(p)'
        PROVE  OwnedInv'
    BY <1>2, <1>3, <1>4 DEF OwnedInv, HasFile, HasUpload, HasDeletion
  <1>5. CASE CleanerRecord
    <2>1. cl'.pc # "record"
      BY <1>1, <1>5 DEF CleanerRecord, CleanerThrough, CleanerState
    <2>2. \A a \in artifacts : ~ BeingDeleted(a) => a \in artifacts'
      BY <1>5 DEF CleanerRecord, ArtifactDelete, BeingDeleted, storeVars
    <2>3. \A p \in Path : HasRecord(p) => HasRecord(p)'
      BY <2>1, <2>2 DEF HasRecord, BeingDeleted
    <2> QED
      BY <1>4, <2>3
  <1>6. ASSUME NEW b \in cl.todo, CleanerRemove(b), RemoveFile(b.path)
        PROVE  OwnedInv'
    <2>1. b \in Artifact
      BY <1>6, ItemIsRow
    <2>2. /\ files' = [files EXCEPT ![b.path] = NoFile] /\ UNCHANGED artifacts
          /\ cl'.item = b \/ cl'.pc # "record"
      BY <1>1, <1>6 DEF CleanerRemove, CleanerThrough, CleanerState, RemoveFile, storeVars
    <2>3. ASSUME NEW p \in Path, HasFile(p)', HasRecord(p) PROVE HasRecord(p)'
      <3>1. PICK a \in artifacts : a.path = p
        BY <2>3 DEF HasRecord
      <3>2. a # b
        BY <1>1, <2>1, <2>2, <2>3, <3>1 DEF HasFile, Artifact
      <3>3. a.id # b.id
        BY <1>6, <3>2, ItemIsRow
      <3> QED
        BY <2>2, <3>1, <3>3 DEF HasRecord, BeingDeleted
    <2> QED
      BY <1>4, <2>3
  <1>7. CASE UNCHANGED artifacts /\ cl'.pc # "record"
    BY <1>4, <1>7 DEF HasRecord, BeingDeleted
  <1>8. CASE CleanerStart \/ (\E r \in cl.queue : CleanerRepo(r)) \/ CleanerPassEnds
    <2>1. ASSUME CleanerStart \/ CleanerPassEnds
          PROVE  cl'.pc # "record" /\ UNCHANGED artifacts
      <3>1. CASE cl' = [CleanerIdle EXCEPT !.pc = "repo", !.day = now, !.queue = repos]
        BY <3>1, <2>1 DEF CleanerStart, CleanerPassEnds, CleanerIdle, storeVars
      <3>2. CASE cl' # [CleanerIdle EXCEPT !.pc = "repo", !.day = now, !.queue = repos]
        BY <3>2, <2>1 DEF CleanerStart, CleanerPassEnds, CleanerIdle, storeVars
      <3> QED
        BY <3>1, <3>2
    <2>2. ASSUME NEW r \in cl.queue, CleanerRepo(r)
          PROVE  cl'.pc # "record" /\ UNCHANGED artifacts
      BY <1>1, <2>2 DEF CleanerRepo, CleanerSkip, CleanerState, storeVars
    <2> QED
      BY <1>7, <1>8, <2>1, <2>2
  <1>9. ASSUME NEW b \in cl.todo, CleanerRemove(b), ~ RemoveFile(b.path)
        PROVE  OwnedInv'
    BY <1>1, <1>7, <1>9 DEF CleanerRemove, CleanerThrough, CleanerState, storeVars
  <1> QED
    BY <1>5, <1>6, <1>8, <1>9 DEF CleanerNext, CleanerStep

LEMMA ServerStepOwned ==
  TypeInv /\ RetentionInv /\ FileInv /\ NamesInv /\ OwnedInv /\ [Next]_vars => OwnedInv'
  <1> SUFFICES ASSUME TypeInv, RetentionInv, FileInv, NamesInv, OwnedInv, [Next]_vars
               PROVE  OwnedInv'
    OBVIOUS
  <1>1. ASSUME NEW u \in Upload, UploadNext(u) PROVE OwnedInv'
    BY <1>1, UploadOwnedInv
  <1>2. ASSUME NEW d \in DeleteReq, DeleteNext(d) PROVE OwnedInv'
    BY <1>2, DeleteOwnedInv
  <1>3. CASE CleanerNext
    BY <1>3, CleanerOwnedInv
  <1>4. CASE Crash
    <2>1. UNCHANGED <<artifacts, files>> /\ cl'.pc # "record"
      BY <1>4 DEF Crash, CleanerCrash, CleanerIdle, storeVars, dirVars
    <2>2. ASSUME NEW p \in Path, HasFile(p), HasUpload(p) PROVE HasUpload(p)'
      BY <1>4, <2>1, <2>2
         DEF FileInv, PublishedWhole, Crash, UploadCrash, UploadInFlight, UploadAnswered, HasUpload
    <2>3. ASSUME NEW p \in Path, HasDeletion(p) PROVE HasDeletion(p)'
      BY <1>4, <2>3 DEF Crash, AdminCrash, AdminAnswered, HasDeletion
    <2> QED
      BY <2>1, <2>2, <2>3 DEF OwnedInv, HasFile, HasRecord, BeingDeleted
  <1>5. CASE UNCHANGED <<artifacts, files, up, dl, cl>>
    BY <1>5 DEF OwnedInv, HasFile, HasRecord, HasUpload, HasDeletion, BeingDeleted
  <1>6. ASSUME NEW c \in CreateReq, CreateNext(c) PROVE UNCHANGED <<artifacts, files, up, dl, cl>>
    BY <1>6 DEF CreateNext, CreateStep, CreateMkdir, CreateInsert, CreateRmdir, MkdirAll,
                RemoveDir, RepoCreate, storeVars, dirVars
  <1>7. ASSUME NEW p \in UpdateReq, UpdateNext(p) PROVE UNCHANGED <<artifacts, files, up, dl, cl>>
    BY <1>7 DEF UpdateNext, UpdateStep, UpdateGet, UpdatePut, RepoUpdate, storeVars, dirVars
  <1>8. ASSUME NEW d \in Download, DownloadNext(d)
        PROVE  UNCHANGED <<artifacts, files, up, dl, cl>>
    BY <1>8 DEF DownloadNext, DownloadStep, DownloadLookup, DownloadFind, DownloadServe,
                DownloadQueryFails, storeVars, dirVars, adminVars
  <1>9. CASE ClockNext \/ UNCHANGED vars
    BY <1>5, <1>9 DEF ClockNext, vars, storeVars, dirVars, adminVars
  <1> QED
    BY <1>1, <1>2, <1>3, <1>4, <1>5, <1>6, <1>7, <1>8, <1>9 DEF Next

\* What always holds of the records, the names and the files together.
DiskInv == TypeInv /\ RetentionInv /\ FileInv /\ NamesInv

LEMMA ServerKeepsDiskInv == Spec => []DiskInv
  <1>1. Init => FileInv
    BY DEF Init, DataDirInit, UploadInit, FileInv, PublishedWhole, RenamesWhole, HasFile, HasTemp
  <1>2. Init => DiskInv
    BY <1>1, ServerInitType, ServerInitRetention, ServerInitNames DEF DiskInv
  <1>3. DiskInv /\ [Next]_vars => DiskInv'
    BY ServerStepType, ServerStepRetention, ServerStepFileInv, ServerStepNames DEF DiskInv
  <1> QED
    BY <1>2, <1>3, PTL DEF Spec

\* A file always has an owner that will keep it or remove it, however uploads,
\* deletions of its repository and the cleaner interleave; space is lost to a
\* file without a record only where a crash or a failed deletion came between.
THEOREM FilesHaveOwners == Spec => []FilesOwned
  <1>1. Init => OwnedInv
    BY DEF Init, DataDirInit, OwnedInv, HasFile
  <1>2. DiskInv /\ OwnedInv /\ [Next]_vars => OwnedInv'
    BY ServerStepOwned DEF DiskInv
  <1>3. OwnedInv => FilesOwned
    BY DEF OwnedInv, FilesOwned, HasRecord, HasUpload, HasDeletion
  <1> QED
    BY <1>1, <1>2, <1>3, ServerKeepsDiskInv, PTL DEF Spec

-----------------------------------------------------------------------------
(***************************************************************************)
(* Deletion.  The row that it removed stays away (RowsGone), and a         *)
(* directory that is there after it was removed is a creation's.           *)
(***************************************************************************)

DirectoryGone ==
  \A d \in DeleteReq : dl[d].pc = "200" /\ dl[d].name \in dirs =>
    \E c \in CreateReq : cr[c].pc # "idle" /\ cr[c].name = dl[d].name

LEMMA ServerStepRowsGone == DiskInv /\ RowsGone /\ [Next]_vars => RowsGone'
  <1> SUFFICES ASSUME DiskInv, RowsGone, [Next]_vars PROVE RowsGone'
    OBVIOUS
  <1>1. IdsStayGone /\ HandlersInv /\ DeleteNames
    BY ServerHandlers, ServerStoreStep, StoreStepIds
       DEF DiskInv, TypeInv, TypeOK, StoreInv, NamesInv
  <1>2. ASSUME NEW d \in DeleteReq, DeleteNext(d) PROVE RowsGone'
    BY <1>1, <1>2, DeleteRowsGone DEF DeleteNext
  <1>3. CASE UNCHANGED dl
    BY <1>1, <1>3, OthersRowsGone
  <1>4. CASE Crash
    BY <1>1, <1>4, OthersRowsGone DEF Crash, AdminCrash, AdminAnswered
  <1>5. ASSUME NEW c \in CreateReq, CreateNext(c) PROVE UNCHANGED dl
    BY <1>5 DEF CreateNext, CreateStep, CreateMkdir, CreateInsert, CreateRmdir
  <1>6. ASSUME NEW p \in UpdateReq, UpdateNext(p) PROVE UNCHANGED dl
    BY <1>6 DEF UpdateNext, UpdateStep, UpdateGet, UpdatePut
  <1> QED
    BY <1>2, <1>3, <1>4, <1>5, <1>6
       DEF Next, UploadNext, CleanerNext, DownloadNext, ClockNext, adminVars, vars

LEMMA ServerStepDirectoryGone == TypeInv /\ DirectoryGone /\ [Next]_vars => DirectoryGone'
  <1> SUFFICES ASSUME TypeInv, DirectoryGone, [Next]_vars PROVE DirectoryGone'
    OBVIOUS
  <1>1. cr \in [CreateReq -> CreateState] /\ dl \in [DeleteReq -> DeleteState]
    BY DEF TypeInv, TypeOK, AdminTypeOK
  <1>2. CASE dirs' \subseteq dirs /\ UNCHANGED <<cr, dl>>
    BY <1>2 DEF DirectoryGone
  <1>3. ASSUME NEW c \in CreateReq, CreateNext(c) PROVE DirectoryGone'
    <2>1. UNCHANGED dl /\ \A e \in CreateReq : e # c => cr'[e] = cr[e]
      BY <1>1, <1>3
         DEF CreateNext, CreateStep, CreateMkdir, CreateInsert, CreateRmdir, CreateAnswer
    <2>2. cr'[c].pc # "idle"
      BY <1>1, <1>3
         DEF CreateNext, CreateStep, CreateMkdir, CreateInsert, CreateRmdir, CreateAnswer,
             CreateState
    <2>3. /\ dirs' \subseteq dirs \union {cr'[c].name}
          /\ cr[c].pc # "idle" => cr'[c].name = cr[c].name
      BY <1>1, <1>3
         DEF CreateNext, CreateStep, CreateMkdir, CreateInsert, CreateRmdir, CreateAnswer,
             MkdirAll, RemoveDir, CreateState, dirVars
    <2> QED
      BY <2>1, <2>2, <2>3 DEF DirectoryGone
  <1>4. ASSUME NEW d \in DeleteReq, DeleteNext(d) PROVE DirectoryGone'
    <2>1. UNCHANGED cr /\ \A e \in DeleteReq : e # d => dl'[e] = dl[e]
      BY <1>1, <1>4
         DEF DeleteNext, DeleteStep, DeleteGet, DeleteRows, DeleteRow, DeleteList, DeleteUnlink,
             DeleteRmdir, DeleteRemoveFails, DeleteAnswer
    <2>2. dirs' \subseteq dirs
      BY <1>4
         DEF DeleteNext, DeleteStep, DeleteGet, DeleteRows, DeleteRow, DeleteList, DeleteUnlink,
             DeleteRmdir, DeleteRemoveFails, RemoveDir, Unlink, dirVars
    <2>3. dl'[d].pc = "200" => dl'[d].name \notin dirs'
      BY <1>1, <1>4
         DEF DeleteNext, DeleteStep, DeleteGet, DeleteRows, DeleteRow, DeleteList, DeleteUnlink,
             DeleteRmdir, DeleteRemoveFails, DeleteAnswer, RemoveDir, DeleteState
    <2> QED
      BY <2>1, <2>2, <2>3 DEF DirectoryGone
  <1>5. CASE Crash
    BY <1>5 DEF Crash, AdminCrash, AdminAnswered, DirectoryGone, dirVars
  <1>6. ASSUME NEW u \in Upload, UploadNext(u) PROVE UNCHANGED <<dirs, cr, dl>>
    BY <1>6
       DEF UploadNext, UploadStep, UploadLookup, UploadCheck, UploadCreateTemp, UploadCopy,
           UploadCopyFails, UploadRename, UploadInsert, UploadRollback, UploadQueryFails,
           CreateTemp, WriteTemp, RemoveTemp, RenameTemp, RemoveFile, dirVars, adminVars
  <1>7. ASSUME CleanerNext PROVE UNCHANGED <<dirs, cr, dl>>
    BY <1>7 DEF CleanerNext, CleanerStep, CleanerStart, CleanerRepo, CleanerPassEnds,
                CleanerRemove, CleanerRecord, RemoveFile, dirVars, adminVars
  <1> QED
    BY <1>2, <1>3, <1>4, <1>5, <1>6, <1>7
       DEF Next, UpdateNext, UpdateStep, UpdateGet, UpdatePut, DownloadNext, DownloadStep,
           DownloadLookup, DownloadFind, DownloadServe, DownloadQueryFails, ClockNext, dirVars,
           adminVars, vars

\* A deletion that was answered 200 has removed the repository for good - its
\* row, its artifacts' rows and its directory - however many uploads to it,
\* other deletions and creations of the name run beside it.
THEOREM DeletionsAreComplete == Spec => []DeletionComplete
  <1>1. Init => RowsGone /\ DirectoryGone
    BY DEF Init, AdminInit, RowsGone, DirectoryGone
  <1>2. DiskInv /\ RowsGone /\ DirectoryGone /\ [Next]_vars => RowsGone' /\ DirectoryGone'
    BY ServerStepRowsGone, ServerStepDirectoryGone DEF DiskInv
  <1>3. DiskInv /\ RowsGone /\ DirectoryGone => DeletionComplete
    BY DEF DiskInv, TypeInv, StoreIntegrity, ForeignKeys, RowsGone, DirectoryGone,
           DeletionComplete, ReposWithId, ArtifactsOf
  <1> QED
    BY <1>1, <1>2, <1>3, ServerKeepsDiskInv, PTL DEF Spec

-----------------------------------------------------------------------------
(***************************************************************************)
(* What the cleaner has listed.  An artifact on its list is a row of the   *)
(* tables as long as nobody removed the rows of a repository of the name:  *)
(* only the cleaner itself removes a single row.  So the path by which it  *)
(* removes a file is the path of that very row, however many clients       *)
(* upload, and the list was made by a policy that lets artifacts go.       *)
(***************************************************************************)

ListedStay == \A a \in cl.todo : a \in artifacts \/ RowsRemoved(a.path[1])

ListedByPolicy == cl.todo # {} => cl.repo.keepCount # 0 \/ cl.repo.keepDays # 0

ListInv == ListedStay /\ ListedByPolicy

\* A repository of the name that a record's path has is the record's own.
LEMMA RepositoryOfPath ==
  ASSUME DiskInv, NEW a \in artifacts, NEW r \in repos, r.name = a.path[1]
  PROVE  a.repoId = r.id
  <1>1. PICK s \in repos : s.id = a.repoId
    BY DEF DiskInv, TypeInv, StoreIntegrity, ForeignKeys
  <1>2. s.name = a.path[1]
    BY <1>1 DEF DiskInv, NamesInv, ArtifactNames, NamedSo
  <1> QED
    BY <1>1, <1>2 DEF DiskInv, TypeInv, StoreIntegrity, UniqueRepos

\* No two records share a path.
LEMMA RecordOfPath ==
  ASSUME DiskInv, NEW a \in artifacts, NEW b \in artifacts, a.path = b.path
  PROVE  a = b
  <1>1. PICK s \in repos : s.id = b.repoId
    BY DEF DiskInv, TypeInv, StoreIntegrity, ForeignKeys
  <1>2. s.name = b.path[1]
    BY <1>1 DEF DiskInv, NamesInv, ArtifactNames, NamedSo
  <1>3. a.repoId = b.repoId
    BY <1>1, <1>2, RepositoryOfPath
  <1>4. a.name = b.name
    BY DEF DiskInv, NamesInv, ArtifactNames
  <1> QED
    BY <1>3, <1>4 DEF DiskInv, TypeInv, StoreIntegrity, UniqueArtifacts

\* A deletion that has come to the rows stays one.
LEMMA RowsRemovedStays ==
  ASSUME DiskInv, [Next]_vars
  PROVE  \A n : RowsRemoved(n) =>
            \E d \in DeleteReq : dl'[d].name = n /\ dl'[d].pc \notin {"idle", "rows"}
  <1>1. dl \in [DeleteReq -> DeleteState]
    BY DEF DiskInv, TypeInv, TypeOK, AdminTypeOK
  <1>2. CASE UNCHANGED dl
    BY <1>2 DEF RowsRemoved
  <1>3. ASSUME NEW d \in DeleteReq, DeleteNext(d)
        PROVE  \A e \in DeleteReq : dl[e].pc \notin {"idle", "rows"} =>
                  dl'[e].pc \notin {"idle", "rows"} /\ dl'[e].name = dl[e].name
    BY <1>1, <1>3
       DEF DeleteNext, DeleteStep, DeleteGet, DeleteRows, DeleteRow, DeleteList, DeleteUnlink,
           DeleteRmdir, DeleteRemoveFails, DeleteAnswer, DeleteState
  <1>4. CASE Crash
    BY <1>4 DEF Crash, AdminCrash, AdminAnswered, RowsRemoved
  <1>5. ASSUME NEW c \in CreateReq, CreateNext(c) PROVE UNCHANGED dl
    BY <1>5 DEF CreateNext, CreateStep, CreateMkdir, CreateInsert, CreateRmdir
  <1>6. ASSUME NEW p \in UpdateReq, UpdateNext(p) PROVE UNCHANGED dl
    BY <1>6 DEF UpdateNext, UpdateStep, UpdateGet, UpdatePut
  <1> QED
    BY <1>2, <1>3, <1>4, <1>5, <1>6
       DEF Next, UploadNext, CleanerNext, DownloadNext, ClockNext, adminVars, vars, RowsRemoved

LEMMA DeleteListed ==
  ASSUME DiskInv, ListInv, NEW d \in DeleteReq, DeleteNext(d)
  PROVE  ListInv'
  <1>1. UNCHANGED cl /\ dl \in [DeleteReq -> DeleteState]
    BY DEF DeleteNext, DiskInv, TypeInv, TypeOK, AdminTypeOK
  <1>2. \A n : RowsRemoved(n) =>
           \E e \in DeleteReq : dl'[e].name = n /\ dl'[e].pc \notin {"idle", "rows"}
    BY RowsRemovedStays DEF Next
  <1>3. ASSUME NEW a \in artifacts, a \notin artifacts'
        PROVE  dl'[d].name = a.path[1] /\ dl'[d].pc = "row"
    <2>1. CASE DeleteRows(d)
      <3>1. a.repoId = dl[d].id /\ dl[d].pc = "rows"
        BY <1>3, <2>1 DEF DeleteRows, ArtifactDeleteByRepo, ArtifactsOf, storeVars
      <3> QED
        BY <1>1, <1>3, <2>1, <3>1, RowsUnderName
           DEF DiskInv, DeleteRows, DeleteAnswer, DeleteState, storeVars
    <2>2. CASE ~ DeleteRows(d)
      BY <1>3, <2>2
         DEF DeleteNext, DeleteStep, DeleteGet, DeleteRow, DeleteList, DeleteUnlink, DeleteRmdir,
             DeleteRemoveFails, RepoDelete, storeVars
    <2> QED
      BY <2>1, <2>2
  <1>4. ListedStay'
    BY <1>1, <1>2, <1>3 DEF ListInv, ListedStay, RowsRemoved
  <1> QED
    BY <1>1, <1>4 DEF ListInv, ListedByPolicy

LEMMA CleanerListed ==
  ASSUME DiskInv, ListInv, CleanerNext
  PROVE  ListInv'
  <1>1. UNCHANGED dl /\ cl \in CleanerState
    BY DEF CleanerNext, adminVars, DiskInv, TypeInv, TypeOK, CleanerTypeOK
  <1>4. ASSUME CleanerRecord PROVE ListedStay'
    <2>1. \A a \in cl'.todo : a \in cl.todo /\ a # cl.item
      BY <1>1, <1>4 DEF CleanerRecord, CleanerThrough, CleanerState
    <2>2. cl.item \in cl.todo
      BY <1>4 DEF CleanerRecord, DiskInv, TypeInv, CleanerLocals
    <2>3. \A a \in cl'.todo : a.id # cl.item.id
      BY <2>1, <2>2 DEF DiskInv, RetentionInv, ListedRows, Listed
    <2>4. \A a \in cl'.todo : a \in artifacts => a \in artifacts'
      BY <1>4, <2>3 DEF CleanerRecord, ArtifactDelete, storeVars
    <2> QED
      BY <1>1, <2>1, <2>4 DEF ListInv, ListedStay, RowsRemoved
  <1>5. ASSUME UNCHANGED artifacts, \A a \in cl'.todo : a \in cl.todo \/ a \in artifacts
        PROVE  ListedStay'
    BY <1>1, <1>5 DEF ListInv, ListedStay, RowsRemoved
  <1>6. ASSUME CleanerStart \/ CleanerPassEnds
        PROVE  UNCHANGED artifacts /\ \A a \in cl'.todo : a \in cl.todo
    <2>1. CASE cl' = [CleanerIdle EXCEPT !.pc = "repo", !.day = now, !.queue = repos]
      BY <1>6, <2>1 DEF CleanerStart, CleanerPassEnds, CleanerIdle, storeVars
    <2>2. CASE cl' # [CleanerIdle EXCEPT !.pc = "repo", !.day = now, !.queue = repos]
      BY <1>6, <2>2 DEF CleanerStart, CleanerPassEnds, CleanerIdle, storeVars
    <2> QED
      BY <2>1, <2>2
  <1>7. ASSUME NEW r \in cl.queue, CleanerRepo(r)
        PROVE  UNCHANGED artifacts /\ \A a \in cl'.todo : a \in cl.todo \/ a \in artifacts
    <2>1. CASE CleanerSkip(r)
      BY <1>1, <1>7, <2>1 DEF CleanerRepo, CleanerSkip, CleanerState, storeVars
    <2>2. ASSUME NEW kept,
                 cl' = [cl EXCEPT !.pc = "remove", !.queue = @ \ {r}, !.repo = r,
                                  !.kept = kept, !.todo = ArtifactsOf(r.id) \ kept]
          PROVE  \A a \in cl'.todo : a \in artifacts
      BY <1>1, <2>2 DEF CleanerState, ArtifactsOf
    <2> QED
      BY <1>7, <2>1, <2>2 DEF CleanerRepo, storeVars
  <1>8. ASSUME NEW b \in cl.todo, CleanerRemove(b)
        PROVE  UNCHANGED artifacts /\ \A a \in cl'.todo : a \in cl.todo
    <2>1. CASE CleanerThrough(b)
      BY <1>1, <1>8, <2>1 DEF CleanerRemove, CleanerThrough, CleanerState, storeVars
    <2>2. CASE cl' = [cl EXCEPT !.pc = "record", !.item = b]
      BY <1>1, <1>8, <2>2 DEF CleanerRemove, CleanerState, storeVars
    <2> QED
      BY <1>8, <2>1, <2>2 DEF CleanerRemove
  <1>9. ListedStay'
    BY <1>4, <1>5, <1>6, <1>7, <1>8 DEF CleanerNext, CleanerStep
  <1>10. CASE cl'.todo \subseteq cl.todo /\ (cl'.todo # {} => cl'.repo = cl.repo)
    BY <1>9, <1>10 DEF ListInv, ListedByPolicy
  <1>11. ASSUME CleanerStart \/ CleanerPassEnds PROVE cl'.todo = {} \/ UNCHANGED cl
    <2>1. CASE cl' = [CleanerIdle EXCEPT !.pc = "repo", !.day = now, !.queue = repos]
      BY <2>1 DEF CleanerIdle
    <2>2. CASE cl' # [CleanerIdle EXCEPT !.pc = "repo", !.day = now, !.queue = repos]
      BY <1>11, <2>2 DEF CleanerStart, CleanerPassEnds, CleanerIdle
    <2> QED
      BY <2>1, <2>2
  <1>12. ASSUME NEW a \in cl.todo, CleanerThrough(a)
         PROVE  cl'.todo \subseteq cl.todo /\ (cl'.todo # {} => cl'.repo = cl.repo)
    BY <1>1, <1>12 DEF CleanerThrough, CleanerState
  <1>13. ASSUME NEW a \in cl.todo, CleanerRemove(a)
         PROVE  cl'.todo \subseteq cl.todo /\ (cl'.todo # {} => cl'.repo = cl.repo)
    <2>1. CASE cl' = [cl EXCEPT !.pc = "record", !.item = a]
      BY <1>1, <2>1 DEF CleanerState
    <2> QED
      BY <1>12, <1>13, <2>1 DEF CleanerRemove
  <1>14. ASSUME CleanerRecord
         PROVE  cl'.todo \subseteq cl.todo /\ (cl'.todo # {} => cl'.repo = cl.repo)
    BY <1>12, <1>14 DEF CleanerRecord, DiskInv, TypeInv, CleanerLocals
  <1>15. ASSUME NEW r \in cl.queue, CleanerRepo(r)
         PROVE  \/ cl'.todo = cl.todo /\ cl'.repo = cl.repo
                \/ cl'.repo = r /\ ~ (r.keepCount = 0 /\ r.keepDays = 0)
    <2>1. CASE CleanerSkip(r)
      BY <1>1, <2>1 DEF CleanerSkip, CleanerState
    <2>2. ASSUME NEW kept,
                 cl' = [cl EXCEPT !.pc = "remove", !.queue = @ \ {r}, !.repo = r,
                                  !.kept = kept, !.todo = ArtifactsOf(r.id) \ kept]
          PROVE  cl'.repo = r
      BY <1>1, <2>2 DEF CleanerState
    <2> QED
      BY <1>15, <2>1, <2>2 DEF CleanerRepo
  <1>16. ASSUME NEW r \in cl.queue, CleanerRepo(r) PROVE ListInv'
    BY <1>9, <1>15, <1>16 DEF ListInv, ListedByPolicy
  <1> QED
    BY <1>10, <1>11, <1>13, <1>14, <1>16 DEF CleanerNext, CleanerStep

LEMMA ServerStepListed == DiskInv /\ ListInv /\ [Next]_vars => ListInv'
  <1> SUFFICES ASSUME DiskInv, ListInv, [Next]_vars PROVE ListInv'
    OBVIOUS
  <1>1. CASE artifacts \subseteq artifacts' /\ UNCHANGED <<cl, dl>>
    BY <1>1 DEF ListInv, ListedStay, ListedByPolicy, RowsRemoved
  <1>2. ASSUME NEW u \in Upload, UploadNext(u)
        PROVE  artifacts \subseteq artifacts' /\ UNCHANGED <<cl, dl>>
    BY <1>2 DEF UploadNext, UploadStep, UploadLookup, UploadCheck, UploadCreateTemp, UploadCopy,
                UploadCopyFails, UploadRename, UploadInsert, UploadRollback, UploadQueryFails,
                ArtifactCreate, storeVars, adminVars
  <1>3. ASSUME NEW d \in DeleteReq, DeleteNext(d) PROVE ListInv'
    BY <1>3, DeleteListed
  <1>4. CASE CleanerNext
    BY <1>4, CleanerListed
  <1>5. CASE Crash
    BY <1>5 DEF Crash, CleanerCrash, CleanerIdle, ListInv, ListedStay, ListedByPolicy
  <1>6. ASSUME NEW c \in CreateReq, CreateNext(c) PROVE UNCHANGED <<artifacts, cl, dl>>
    BY <1>6 DEF CreateNext, CreateStep, CreateMkdir, CreateInsert, CreateRmdir, RepoCreate,
                storeVars
  <1>7. ASSUME NEW p \in UpdateReq, UpdateNext(p) PROVE UNCHANGED <<artifacts, cl, dl>>
    BY <1>7 DEF UpdateNext, UpdateStep, UpdateGet, UpdatePut, RepoUpdate, storeVars
  <1>8. ASSUME NEW d \in Download, DownloadNext(d) PROVE UNCHANGED <<artifacts, cl, dl>>
    BY <1>8 DEF DownloadNext, DownloadStep, DownloadLookup, DownloadFind, DownloadServe,
                DownloadQueryFails, storeVars, adminVars
  <1>9. ClockNext \/ UNCHANGED vars => UNCHANGED <<artifacts, cl, dl>>
    BY DEF ClockNext, vars, storeVars, adminVars
  <1> QED
    BY <1>1, <1>2, <1>3, <1>4, <1>5, <1>6, <1>7, <1>8, <1>9 DEF Next

LEMMA ServerKeepsListInv == Spec => [](DiskInv /\ ListInv)
  <1>1. Init => ListInv
    BY DEF Init, CleanerInit, CleanerIdle, ListInv, ListedStay, ListedByPolicy
  <1> QED
    BY <1>1, ServerStepListed, ServerKeepsDiskInv, PTL DEF Spec

LEMMA CleanerFileOfRow ==
  ASSUME DiskInv, ListInv, [Next]_vars, cl' # cl,
         NEW a \in artifacts, HasFile(a.path), files'[a.path] = NoFile, ~ RowsRemoved(a.path[1])
  PROVE  /\ a \in cl.todo
         /\ cl.repo.id = a.repoId
         /\ cl.repo.keepCount # 0 \/ cl.repo.keepDays # 0
  <1>1. CleanerNext
    <2>1. files' # files
      BY DEF HasFile
    <2> QED
      BY <2>1
         DEF Next, UploadNext, CreateNext, UpdateNext, DeleteNext, DownloadNext, ClockNext, Crash,
             vars, dirVars
  <1>2. /\ files \in [Path -> Upload \union {NoFile, Partial}]
        /\ a.path \in Path
    BY DEF DiskInv, TypeInv, TypeOK, DataDirTypeOK, StoreTypeOK, Artifact
  <1>3. PICK b \in cl.todo : b.path = a.path
    BY <1>1, <1>2
       DEF CleanerNext, CleanerStep, CleanerStart, CleanerRepo, CleanerPassEnds, CleanerRemove,
           CleanerRecord, RemoveFile, dirVars, HasFile
  <1>4. b \in artifacts
    BY <1>3 DEF ListInv, ListedStay
  <1>5. a = b
    BY <1>3, <1>4, RecordOfPath
  <1> QED
    BY <1>3, <1>5 DEF ListInv, ListedByPolicy, DiskInv, RetentionInv, ListedRows, Listed

\* What the cleaner takes a file from, it had listed, by a policy of the very
\* repository that does not keep everything, for any number of clients that
\* upload to the same path at once: with KeepCount and KeepDays at 0 since the
\* pass began, artifacts are kept until rows of a repository of the name are
\* removed.
THEOREM CleanerTakesOnlyListed == Spec => CleanerTakesListed
  <1> DEFINE Takes ==
        cl' # cl => \A a \in artifacts : HasFile(a.path) /\ ~ HasFile(a.path)' =>
          \/ RowsRemoved(a.path[1])
          \/ /\ a \in cl.todo
             /\ cl.repo.id = a.repoId
             /\ cl.repo.keepCount # 0 \/ cl.repo.keepDays # 0
  <1>1. DiskInv /\ ListInv /\ [Next]_vars => [Takes]_vars
    <2> SUFFICES ASSUME DiskInv, ListInv, [Next]_vars, cl' # cl,
                        NEW a \in artifacts, HasFile(a.path), ~ HasFile(a.path)',
                        ~ RowsRemoved(a.path[1])
                 PROVE  /\ a \in cl.todo
                        /\ cl.repo.id = a.repoId
                        /\ cl.repo.keepCount # 0 \/ cl.repo.keepDays # 0
      OBVIOUS
    <2>1. files'[a.path] = NoFile
      BY DEF HasFile
    <2> QED
      BY <2>1, CleanerFileOfRow
  <1>2. CleanerTakesListed <=> [][Takes]_vars
    BY DEF CleanerTakesListed
  <1> QED
    BY <1>1, <1>2, ServerKeepsListInv, PTL DEF Spec

-----------------------------------------------------------------------------
(***************************************************************************)
(* Folders.  FolderInv adds the creations that have made their folder and  *)
(* are about to insert the row: it may be gone by then for the same two    *)
(* reasons, and these reasons stay.                                        *)
(***************************************************************************)

CreationFailed(n) == \E c \in CreateReq : cr[c].name = n /\ cr[c].pc = "500"

HasFolder(n) == n \in dirs \/ RowsRemoved(n) \/ CreationFailed(n)

FolderInv ==
  /\ \A r \in repos : HasFolder(r.name)
  /\ \A c \in CreateReq : cr[c].pc = "insert" => HasFolder(cr[c].name)

LEMMA FolderReasonsStay ==
  ASSUME DiskInv, [Next]_vars, NEW n, HasFolder(n), n \in dirs => n \in dirs'
  PROVE  HasFolder(n)'
  <1>1. CASE n \in dirs
    BY <1>1 DEF HasFolder
  <1>2. CASE RowsRemoved(n)
    <2>1. \E d \in DeleteReq : dl'[d].name = n /\ dl'[d].pc \notin {"idle", "rows"}
      BY <1>2, RowsRemovedStays
    <2> QED
      BY <2>1 DEF HasFolder, RowsRemoved
  <1>3. CASE CreationFailed(n)
    <2>1. PICK c \in CreateReq : cr[c].name = n /\ cr[c].pc = "500"
      BY <1>3 DEF CreationFailed
    <2>2. cr \in [CreateReq -> CreateState]
      BY DEF DiskInv, TypeInv, TypeOK, AdminTypeOK
    <2>3. ASSUME NEW e \in CreateReq, CreateNext(e) PROVE cr'[c] = cr[c]
      BY <2>1, <2>2, <2>3
         DEF CreateNext, CreateStep, CreateMkdir, CreateInsert, CreateRmdir, CreateAnswer
    <2>4. CASE UNCHANGED cr
      BY <2>1, <2>4 DEF HasFolder, CreationFailed
    <2>5. CASE Crash
      <3>1. cr'[c] = cr[c]
        BY <2>1, <2>5 DEF Crash, AdminCrash, AdminAnswered
      <3> QED
        BY <2>1, <3>1 DEF HasFolder, CreationFailed
    <2>6. ASSUME NEW p \in UpdateReq, UpdateNext(p) PROVE UNCHANGED cr
      BY <2>6 DEF UpdateNext, UpdateStep, UpdateGet, UpdatePut
    <2>7. ASSUME NEW d \in DeleteReq, DeleteNext(d) PROVE UNCHANGED cr
      BY <2>7 DEF DeleteNext, DeleteStep, DeleteGet, DeleteRows, DeleteRow, DeleteList,
                  DeleteUnlink, DeleteRmdir, DeleteRemoveFails
    <2> QED
      BY <2>1, <2>3, <2>4, <2>5, <2>6, <2>7
         DEF Next, UploadNext, CleanerNext, DownloadNext, ClockNext, adminVars, vars, HasFolder,
             CreationFailed
  <1> QED
    BY <1>1, <1>2, <1>3 DEF HasFolder

\* A folder goes by a deletion that has removed rows of its name, or by a
\* creation that fails.
LEMMA FolderStep ==
  ASSUME DiskInv, [Next]_vars, NEW n, HasFolder(n)
  PROVE  HasFolder(n)'
  <1>1. CASE n \in dirs => n \in dirs'
    BY <1>1, FolderReasonsStay
  <1>2. CASE n \in dirs /\ n \notin dirs'
    <2>1. dl \in [DeleteReq -> DeleteState] /\ cr \in [CreateReq -> CreateState]
      BY DEF DiskInv, TypeInv, TypeOK, AdminTypeOK
    <2>2. ASSUME NEW c \in CreateReq, CreateNext(c) PROVE HasFolder(n)'
      <3>1. CreateRmdir(c) /\ cr[c].name = n
        BY <1>2, <2>2
           DEF CreateNext, CreateStep, CreateMkdir, CreateInsert, CreateRmdir, MkdirAll, RemoveDir,
               dirVars
      <3>2. cr'[c].name = n /\ cr'[c].pc = "500"
        BY <2>1, <3>1 DEF CreateRmdir, CreateAnswer
      <3> QED
        BY <3>2 DEF HasFolder, CreationFailed
    <2>3. ASSUME NEW d \in DeleteReq, DeleteNext(d) PROVE HasFolder(n)'
      <3>1. dl[d].pc \in {"list", "unlink"} /\ dl[d].name = n
        BY <1>2, <2>3
           DEF DeleteNext, DeleteStep, DeleteGet, DeleteRows, DeleteRow, DeleteList, DeleteUnlink,
               DeleteRmdir, DeleteRemoveFails, RemoveDir, Unlink, dirVars
      <3>2. \E e \in DeleteReq : dl'[e].name = n /\ dl'[e].pc \notin {"idle", "rows"}
        BY <3>1, RowsRemovedStays DEF RowsRemoved
      <3> QED
        BY <3>2 DEF HasFolder, RowsRemoved
    <2>4. ASSUME NEW u \in Upload, UploadNext(u) PROVE UNCHANGED dirs
      BY <2>4
         DEF UploadNext, UploadStep, UploadLookup, UploadCheck, UploadCreateTemp, UploadCopy,
             UploadCopyFails, UploadRename, UploadInsert, UploadRollback, UploadQueryFails,
             CreateTemp, WriteTemp, RemoveTemp, RenameTemp, RemoveFile, dirVars
    <2>5. CleanerNext => UNCHANGED dirs
      BY DEF CleanerNext, CleanerStep, CleanerStart, CleanerRepo, CleanerPassEnds, CleanerRemove,
             CleanerRecord, RemoveFile, dirVars
    <2>6. ASSUME NEW p \in UpdateReq, UpdateNext(p) PROVE UNCHANGED dirs
      BY <2>6 DEF UpdateNext, UpdateStep, UpdateGet, UpdatePut, dirVars
    <2>7. ASSUME NEW d \in Download, DownloadNext(d) PROVE UNCHANGED dirs
      BY <2>7 DEF DownloadNext, DownloadStep, DownloadLookup, DownloadFind, DownloadServe,
                  DownloadQueryFails, dirVars
    <2>8. ClockNext \/ Crash \/ UNCHANGED vars => UNCHANGED dirs
      BY DEF ClockNext, Crash, vars, dirVars
    <2> QED
      BY <1>2, <2>2, <2>3, <2>4, <2>5, <2>6, <2>7, <2>8 DEF Next
  <1> QED
    BY <1>1, <1>2

LEMMA ServerStepFolders == DiskInv /\ FolderInv /\ [Next]_vars => FolderInv'
  <1> SUFFICES ASSUME DiskInv, FolderInv, [Next]_vars PROVE FolderInv'
    OBVIOUS
  <1>1. cr \in [CreateReq -> CreateState]
    BY DEF DiskInv, TypeInv, TypeOK, AdminTypeOK
  <1>2. CASE UNCHANGED <<repos, cr>>
    BY <1>2, FolderStep DEF FolderInv
  <1>3. CASE Crash
    <2>1. UNCHANGED repos
      BY <1>3 DEF Crash, storeVars
    <2>2. \A c \in CreateReq : cr'[c].pc # "insert"
      BY <1>3 DEF Crash, AdminCrash, AdminAnswered
    <2> QED
      BY <2>1, <2>2, FolderStep DEF FolderInv
  <1>4. ASSUME NEW c \in CreateReq, CreateNext(c) PROVE FolderInv'
    <2>1. \A e \in CreateReq : e # c => cr'[e] = cr[e]
      BY <1>1, <1>4
         DEF CreateNext, CreateStep, CreateMkdir, CreateInsert, CreateRmdir, CreateAnswer
    <2>2. CASE CreateMkdir(c)
      <3>1. cr'[c].pc = "insert" => cr'[c].name \in dirs'
        BY <1>1, <2>2 DEF CreateMkdir, MkdirAll, CreateAnswer
      <3>2. UNCHANGED repos
        BY <2>2 DEF CreateMkdir, storeVars
      <3> QED
        BY <2>1, <3>1, <3>2, FolderStep DEF FolderInv, HasFolder
    <2>3. CASE CreateInsert(c) \/ CreateRmdir(c)
      <3>1. cr'[c].pc # "insert"
        <4>1. \/ cr' = [cr EXCEPT ![c].pc = "rmdir"]
              \/ CreateAnswer(c, "200")
              \/ CreateAnswer(c, "500")
          BY <2>3 DEF CreateInsert, CreateRmdir
        <4> QED
          BY <1>1, <4>1 DEF CreateAnswer, CreateState
      <3>2. \A r \in repos' : r \in repos \/ (cr[c].pc = "insert" /\ r.name = cr[c].name)
        BY <2>3 DEF CreateInsert, CreateRmdir, RepoCreate, storeVars
      <3> QED
        BY <2>1, <3>1, <3>2, FolderStep DEF FolderInv
    <2> QED
      BY <1>4, <2>2, <2>3 DEF CreateNext, CreateStep
  <1>5. ASSUME UNCHANGED <<repoSeq, cr>> PROVE FolderInv'
    <2>1. \A r \in repos' : r.id \in 1 .. repoSeq
      BY <1>5, ServerStepType DEF DiskInv, TypeInv, StoreIntegrity, IdsFromSequence
    <2>2. \A r \in repos' : \E s \in repos : s.name = r.name
      BY <2>1, ServerNamesStay DEF DiskInv, RepoNamesStay
    <2> QED
      BY <1>5, <2>2, FolderStep DEF FolderInv
  <1>6. ASSUME NEW p \in UpdateReq, UpdateNext(p) PROVE UNCHANGED <<repoSeq, cr>>
    BY <1>6 DEF UpdateNext, UpdateStep, UpdateGet, UpdatePut, RepoUpdate, storeVars
  <1>7. ASSUME NEW d \in DeleteReq, DeleteNext(d) PROVE UNCHANGED <<repoSeq, cr>>
    BY <1>7 DEF DeleteNext, DeleteStep, DeleteGet, DeleteRows, DeleteRow, DeleteList, DeleteUnlink,
                DeleteRmdir, DeleteRemoveFails, RepoDelete, ArtifactDeleteByRepo, storeVars
  <1>8. ASSUME NEW u \in Upload, UploadNext(u) PROVE UNCHANGED <<repos, cr>>
    BY <1>8 DEF UploadNext, UploadStep, UploadLookup, UploadCheck, UploadCreateTemp, UploadCopy,
                UploadCopyFails, UploadRename, UploadInsert, UploadRollback, UploadQueryFails,
                ArtifactCreate, storeVars, adminVars
  <1>9. CleanerNext => UNCHANGED <<repos, cr>>
    BY DEF CleanerNext, CleanerStep, CleanerStart, CleanerRepo, CleanerPassEnds, CleanerRemove,
           CleanerRecord, ArtifactDelete, storeVars, adminVars
  <1>10. ASSUME NEW d \in Download, DownloadNext(d) PROVE UNCHANGED <<repos, cr>>
    BY <1>10 DEF DownloadNext, DownloadStep, DownloadLookup, DownloadFind, DownloadServe,
                 DownloadQueryFails, storeVars, adminVars
  <1>11. ClockNext \/ UNCHANGED vars => UNCHANGED <<repos, cr>>
    BY DEF ClockNext, vars, storeVars, adminVars
  <1> QED
    BY <1>2, <1>3, <1>4, <1>5, <1>6, <1>7, <1>8, <1>9, <1>10, <1>11 DEF Next

\* A repository has its folder until a deletion has come to the rows of one of
\* its name, or a creation of its name has failed: no other step of the server,
\* and no crash, takes a folder away.
THEOREM FoldersStay == Spec => []FolderStays
  <1>1. Init => FolderInv
    BY DEF Init, DataDirInit, AdminInit, FolderInv, HasFolder
  <1>2. DiskInv /\ FolderInv /\ [Next]_vars => FolderInv'
    BY ServerStepFolders
  <1>3. FolderInv => FolderStays
    BY DEF FolderInv, HasFolder, CreationFailed, FolderStays
  <1> QED
    BY <1>1, <1>2, <1>3, ServerKeepsDiskInv, PTL DEF Spec

-----------------------------------------------------------------------------
(***************************************************************************)
(* Uploads that race.  What is at the path of a record and is not its own  *)
(* comes from an upload that is still to find the record: FilesOwned says  *)
(* so of every file at the moment at which a record is inserted.           *)
(***************************************************************************)

PastCheck == {"temp", "copy", "rename", "insert", "rollback409", "rollback500"}

\* What each step does to records and to their files.
Inserts(u) ==
  /\ up[u].pc = "insert" /\ up'[u].pc = "201"
  /\ UNCHANGED files
  /\ \E a : /\ artifacts' = artifacts \union {a}
            /\ a.path = up[u].path /\ a.sha = u /\ a.id = artifactSeq + 1

RemovesOnly ==
  /\ artifacts' \subseteq artifacts
  /\ \A a \in artifacts : files'[a.path] \in {files[a.path], NoFile}

LEMMA UploadEffect ==
  ASSUME DiskInv, NEW u \in Upload, UploadStep(u)
  PROVE  /\ Inserts(u) \/ artifacts' = artifacts
         /\ \A p \in Path : files'[p] # files[p] =>
              /\ up[u].path = p /\ up[u].pc \in PastCheck
              /\ files'[p] = NoFile \/ (files'[p] = u /\ up'[u].pc = "insert")
         /\ up'[u].pc = "insert" => files'[up[u].path] = u
  <1>1. /\ files \in [Path -> Upload \union {NoFile, Partial}]
        /\ up \in [Upload -> UploadState]
    BY DEF DiskInv, TypeInv, TypeOK, UploadTypeOK, DataDirTypeOK
  <1>2. CASE UploadInsert(u)
    <2>1. UNCHANGED files /\ up'[u].pc # "insert"
      BY <1>1, <1>2 DEF UploadInsert, UploadAnswer, UploadGoto, UploadState, dirVars
    <2>2. CASE ArtifactCreate(up[u].repoId, up[u].path, u, up[u].createdAt) /\ up'[u].pc = "201"
      BY <1>2, <2>1, <2>2 DEF UploadInsert, ArtifactCreate, NextArtifactId, Inserts
    <2>3. CASE UNCHANGED artifacts
      BY <2>1, <2>3
    <2> QED
      BY <1>1, <1>2, <2>1, <2>2, <2>3 DEF UploadInsert, UploadAnswer, UploadState, storeVars
  <1>3. CASE UploadRename(u)
    <2>1. UNCHANGED artifacts /\ up[u].path \in Path /\ up[u].pc \in PastCheck
      BY <1>3 DEF UploadRename, storeVars, DiskInv, TypeInv, UploadLocals, PastCheck
    <2>2. CASE RenameTemp(u, up[u].path) /\ up'[u].pc = "insert"
      <3>1. files' = [files EXCEPT ![up[u].path] = u]
        BY <1>3, <2>2 DEF UploadRename, RenameTemp, DiskInv, FileInv, RenamesWhole
      <3> QED
        BY <1>1, <2>1, <2>2, <3>1
    <2>3. CASE UNCHANGED files /\ up'[u].pc = "500"
      BY <2>1, <2>3
    <2> QED
      BY <1>1, <1>3, <2>2, <2>3 DEF UploadRename, UploadAnswer, RemoveTemp, UploadState
  <1>4. CASE UploadRollback(u)
    <2>1. UNCHANGED artifacts /\ up[u].pc \in PastCheck /\ up'[u].pc # "insert"
      BY <1>1, <1>4 DEF UploadRollback, UploadAnswer, storeVars, PastCheck, UploadState
    <2> QED
      BY <1>1, <1>4, <2>1 DEF UploadRollback, RemoveFile
  <1>5. CASE ~ (UploadInsert(u) \/ UploadRename(u) \/ UploadRollback(u))
    <2>1. UNCHANGED <<artifacts, files>>
      BY <1>5
         DEF UploadStep, UploadLookup, UploadCheck, UploadCreateTemp, UploadCopy,
             UploadCopyFails, UploadQueryFails, CreateTemp, WriteTemp, RemoveTemp, dirVars,
             storeVars
    <2>2. up'[u].pc # "insert"
      BY <1>1, <1>5
         DEF UploadStep, UploadLookup, UploadCheck, UploadCreateTemp, UploadCopy,
             UploadCopyFails, UploadQueryFails, UploadAnswer, UploadGoto, UploadState
    <2> QED
      BY <2>1, <2>2
  <1> QED
    BY <1>2, <1>3, <1>4, <1>5

\* Nobody but an upload adds a record or puts a file anywhere.
LEMMA OthersRemoveOnly ==
  ASSUME DiskInv, [Next]_vars, \A u \in Upload : ~ UploadNext(u)
  PROVE  RemovesOnly
  <1>0. /\ files \in [Path -> Upload \union {NoFile, Partial}]
        /\ \A a \in artifacts : a.path \in Path
    BY DEF DiskInv, TypeInv, TypeOK, DataDirTypeOK, StoreTypeOK, Artifact
  <1>1. CASE UNCHANGED <<artifacts, files>>
    BY <1>1 DEF RemovesOnly
  <1>2. ASSUME NEW c \in CreateReq, CreateNext(c) PROVE UNCHANGED <<artifacts, files>>
    BY <1>2 DEF CreateNext, CreateStep, CreateMkdir, CreateInsert, CreateRmdir, MkdirAll,
                RemoveDir, RepoCreate, storeVars, dirVars
  <1>3. ASSUME NEW p \in UpdateReq, UpdateNext(p) PROVE UNCHANGED <<artifacts, files>>
    BY <1>3 DEF UpdateNext, UpdateStep, UpdateGet, UpdatePut, RepoUpdate, storeVars, dirVars
  <1>4. ASSUME NEW d \in DeleteReq, DeleteNext(d) PROVE RemovesOnly
    BY <1>0, <1>4
       DEF DeleteNext, DeleteStep, DeleteGet, DeleteRows, DeleteRow, DeleteList, DeleteUnlink,
           DeleteRmdir, DeleteRemoveFails, RemoveDir, Unlink, RepoDelete, ArtifactDeleteByRepo,
           storeVars, dirVars, RemovesOnly
  <1>5. CASE CleanerNext
    BY <1>0, <1>5
       DEF CleanerNext, CleanerStep, CleanerStart, CleanerRepo, CleanerPassEnds, CleanerRemove,
           CleanerRecord, RemoveFile, ArtifactDelete, storeVars, dirVars, RemovesOnly
  <1>6. ASSUME NEW d \in Download, DownloadNext(d) PROVE UNCHANGED <<artifacts, files>>
    BY <1>6 DEF DownloadNext, DownloadStep, DownloadLookup, DownloadFind, DownloadServe,
                DownloadQueryFails, storeVars, dirVars
  <1>7. ClockNext \/ Crash \/ UNCHANGED vars => UNCHANGED <<artifacts, files>>
    BY DEF ClockNext, Crash, vars, storeVars, dirVars
  <1> QED
    BY <1>1, <1>2, <1>3, <1>4, <1>5, <1>6, <1>7 DEF Next

\* An upload inserts a record only where there is none of the path.
LEMMA InsertsAtFreePath ==
  ASSUME DiskInv, NEW u \in Upload, UploadStep(u), up[u].pc = "insert", up'[u].pc = "201",
         NEW a \in artifacts
  PROVE  a.path # up[u].path
  <1>1. ArtifactCreatable(up[u].repoId, up[u].path[2])
    <2>1. up \in [Upload -> UploadState]
      BY DEF DiskInv, TypeInv, TypeOK, UploadTypeOK
    <2>2. UploadInsert(u)
      BY DEF UploadStep, UploadLookup, UploadCheck, UploadCreateTemp, UploadCopy,
             UploadCopyFails, UploadRename, UploadRollback, UploadQueryFails
    <2> QED
      BY <2>1, <2>2 DEF UploadInsert, ArtifactCreate, UploadGoto, UploadState
  <1>2. PICK r \in repos : r.id = up[u].repoId
    BY <1>1 DEF ArtifactCreatable, ReposWithId
  <1>3. r.name = up[u].path[1]
    BY <1>2 DEF DiskInv, NamesInv, UploadNames, NamedSo, UploadInFlight, UploadAnswered
  <1>4. a.path = up[u].path => a.repoId = up[u].repoId /\ a.name = up[u].path[2]
    BY <1>2, <1>3, RepositoryOfPath DEF DiskInv, NamesInv, ArtifactNames
  <1> QED
    BY <1>1, <1>4 DEF ArtifactCreatable, ArtifactTaken, ArtifactsNamed, ArtifactsOf

LEMMA UploadOverwrites ==
  ASSUME DiskInv, OwnedInv, OverwriteIsUndone, NEW u \in Upload, UploadNext(u)
  PROVE  OverwriteIsUndone'
  <1>1. /\ UNCHANGED dl
        /\ UploadStep(u)
        /\ \A v \in Upload : v # u => up'[v] = up[v]
    BY UploadKeepsPath DEF DiskInv, UploadNext, adminVars
  <1>2. /\ up \in [Upload -> UploadState]
        /\ files \in [Path -> Upload \union {NoFile, Partial}]
        /\ \A a \in artifacts : a.path \in Path
    BY DEF DiskInv, TypeInv, TypeOK, UploadTypeOK, DataDirTypeOK, StoreTypeOK, Artifact
  \* The bytes of an upload stay while it has yet to insert or to undo.
  <1>3. ASSUME NEW p \in Path, HasFile(p), HasUpload(p), files'[p] = files[p]
        PROVE  \/ HasUpload(p)'
               \/ up[u].pc = "insert" /\ up'[u].pc = "201" /\ up[u].path = p
    <2>1. files[p] \in Upload /\ up[files[p]].path = p
      BY <1>3 DEF DiskInv, FileInv, PublishedWhole
    <2>2. CASE files[p] # u
      BY <1>1, <1>3, <2>1, <2>2 DEF HasUpload
    <2>3. CASE files[p] = u
      <3>1. CASE UploadInsert(u)
        BY <1>2, <1>3, <2>1, <2>3, <3>1
           DEF UploadInsert, UploadAnswer, UploadGoto, UploadState, HasUpload
      <3>2. ~ UploadRollback(u)
        BY <1>2, <1>3, <2>1, <2>3 DEF UploadRollback, RemoveFile, HasFile
      <3> QED
        BY <1>1, <1>3, <2>3, <3>1, <3>2
           DEF UploadStep, UploadLookup, UploadCheck, UploadCreateTemp, UploadCopy,
               UploadCopyFails, UploadRename, UploadQueryFails, HasUpload
    <2> QED
      BY <2>2, <2>3
  <1>4. ASSUME NEW a \in artifacts', HasFile(a.path)', files'[a.path] # a.sha
        PROVE  HasUpload(a.path)' \/ RowsRemoved(a.path[1])'
    <2>1. CASE a \in artifacts /\ files'[a.path] = files[a.path]
      <3>1. HasUpload(a.path) \/ RowsRemoved(a.path[1])
        BY <1>4, <2>1 DEF OverwriteIsUndone, HasFile, HasUpload
      <3> QED
        BY <1>1, <1>2, <1>3, <1>4, <2>1, <3>1, InsertsAtFreePath DEF HasFile, RowsRemoved
    <2>2. CASE a \in artifacts /\ files'[a.path] # files[a.path]
      BY <1>1, <1>2, <1>4, <2>2, UploadEffect DEF HasFile, HasUpload
    <2>3. CASE a \notin artifacts
      <3>1. Inserts(u)
        BY <1>1, <2>3, UploadEffect
      <3>2. a.path = up[u].path /\ a.sha = u /\ files'[a.path] = files[a.path]
        BY <2>3, <3>1 DEF Inserts
      <3>3. a.path \in Path
        BY <3>1, <3>2 DEF Inserts, DiskInv, TypeInv, UploadLocals
      <3>4. HasUpload(a.path) \/ HasDeletion(a.path)
        BY <1>1, <1>4, <3>1, <3>2, <3>3, InsertsAtFreePath
           DEF OwnedInv, HasRecord, HasFile, Inserts
      <3>5. HasDeletion(a.path) => RowsRemoved(a.path[1])'
        BY <1>1 DEF HasDeletion, RowsRemoved
      <3>6. HasUpload(a.path) => HasUpload(a.path)'
        BY <1>1, <1>4, <3>2, <3>3 DEF DiskInv, FileInv, PublishedWhole, HasFile, HasUpload
      <3> QED
        BY <3>4, <3>5, <3>6
    <2> QED
      BY <2>1, <2>2, <2>3
  <1> QED
    BY <1>4 DEF OverwriteIsUndone, HasUpload

LEMMA ServerStepOverwrites ==
  DiskInv /\ OwnedInv /\ OverwriteIsUndone /\ [Next]_vars => OverwriteIsUndone'
  <1> SUFFICES ASSUME DiskInv, OwnedInv, OverwriteIsUndone, [Next]_vars
               PROVE  OverwriteIsUndone'
    OBVIOUS
  <1>1. ASSUME NEW u \in Upload, UploadNext(u) PROVE OverwriteIsUndone'
    BY <1>1, UploadOverwrites
  <1>2. CASE \A u \in Upload : ~ UploadNext(u)
    <2>1. RemovesOnly
      BY <1>2, OthersRemoveOnly
    <2>2. up' = up \/ UploadCrash
      BY <1>2
         DEF Next, CreateNext, UpdateNext, DeleteNext, CleanerNext, DownloadNext, ClockNext, Crash,
             vars
    <2>3. ASSUME NEW p \in Path, HasFile(p), HasUpload(p), files'[p] = files[p]
          PROVE  HasUpload(p)'
      <3>1. files[p] \in Upload
        BY <2>3 DEF DiskInv, FileInv, PublishedWhole
      <3> QED
        BY <2>2, <2>3, <3>1 DEF UploadCrash, UploadInFlight, UploadAnswered, HasUpload
    <2>4. ASSUME NEW a \in artifacts', HasFile(a.path)', files'[a.path] # a.sha
          PROVE  HasUpload(a.path)' \/ RowsRemoved(a.path[1])'
      <3>1. a \in artifacts /\ a.path \in Path /\ files'[a.path] = files[a.path]
        BY <2>1, <2>4
           DEF RemovesOnly, HasFile, DiskInv, TypeInv, TypeOK, StoreTypeOK, Artifact
      <3>2. HasUpload(a.path) \/ RowsRemoved(a.path[1])
        BY <2>4, <3>1 DEF OverwriteIsUndone, HasFile, HasUpload
      <3>3. RowsRemoved(a.path[1]) => RowsRemoved(a.path[1])'
        BY RowsRemovedStays DEF RowsRemoved
      <3> QED
        BY <2>3, <2>4, <3>1, <3>2, <3>3 DEF HasFile
    <2> QED
      BY <2>4 DEF OverwriteIsUndone, HasUpload
  <1> QED
    BY <1>1, <1>2

\* The counterpart of the claim ConflictWithoutOverwrite that does hold, for
\* any number of uploads to one path at a time: the bytes of a record are
\* replaced for a moment only, and by an upload that takes them away again
\* (artifact.go:163-188).
THEOREM OverwritesAreUndone == Spec => []OverwriteIsUndone
  <1>1. Init => OwnedInv /\ OverwriteIsUndone
    BY DEF Init, DataDirInit, OwnedInv, OverwriteIsUndone, HasFile
  <1>2. DiskInv /\ OwnedInv /\ OverwriteIsUndone /\ [Next]_vars => OwnedInv' /\ OverwriteIsUndone'
    BY ServerStepOwned, ServerStepOverwrites DEF DiskInv
  <1> QED
    BY <1>1, <1>2, ServerKeepsDiskInv, PTL DEF Spec

-----------------------------------------------------------------------------
(***************************************************************************)
(* Records and files, when clients do not upload to one path at a time     *)
(* from two sides (SerialUploads; without it, the claim ConflictWithout-   *)
(* Overwrite fails).  The argument: an upload that is past its check is    *)
(* alone on its path, and no record has that path; so the file it renames, *)
(* overwrites or removes is no record's.  The cleaner removes files by the *)
(* paths of rows it listed, and a deletion by the name of its repository:  *)
(* both hit files of other rows only after rows were removed under them.   *)
(***************************************************************************)

OneUploadPerPath ==
  \A u, v \in Upload :
    UploadInFlight(u) /\ UploadInFlight(v) /\ up[u].path = up[v].path => u = v

PathIsFree ==
  \A u \in Upload : \A a \in artifacts : a.path = up[u].path =>
    /\ up[u].pc = "check" => a.repoId = up[u].repoId
    /\ up[u].pc \notin PastCheck

RecordedFile == \A a \in artifacts : files[a.path] \in {a.sha, NoFile}

InsertedFile ==
  \A u \in Upload : up[u].pc = "insert" =>
    \/ files[up[u].path] = u
    \/ files[up[u].path] = NoFile /\ RowsRemoved(up[u].path[1])

FoundRow ==
  \A d \in Download : dn[d].pc \in {"serve", "200"} =>
    /\ dn[d].record.id \in 1 .. artifactSeq
    /\ \A b \in artifacts : b.id = dn[d].record.id => b = dn[d].record

SerialInv ==
  /\ OneUploadPerPath
  /\ PathIsFree
  /\ RecordedFile
  /\ InsertedFile
  /\ ListInv
  /\ FoundRow

\* How an upload gets to where it is: it is alone on its path when it starts,
\* and past its check if there was no record then.
LEMMA UploadOnward ==
  ASSUME DiskInv, NEW u \in Upload, UploadStep(u)
  PROVE  /\ UploadInFlight(u)' =>
              \/ UploadInFlight(u) /\ up'[u].path = up[u].path
              \/ SerialUploads => ~ PathBusy(up'[u].path)
         /\ up'[u].pc = "check" =>
              \E r \in repos : r.name = up'[u].path[1] /\ up'[u].repoId = r.id
         /\ up'[u].pc \in PastCheck =>
              /\ up'[u].path = up[u].path
              /\ up[u].pc # "check" => up[u].pc \in PastCheck
              /\ up[u].pc = "check" => ~ ArtifactTaken(up[u].repoId, up[u].path[2])
  <1>1. up \in [Upload -> UploadState]
    BY DEF DiskInv, TypeInv, TypeOK, UploadTypeOK
  <1>2. CASE UploadLookup(u)
    BY <1>1, <1>2 DEF UploadLookup, ReposNamed, UploadInFlight, UploadAnswered, PastCheck
  <1>3. CASE UploadCheck(u) \/ UploadCreateTemp(u) \/ UploadCopy(u)
    BY <1>1, <1>3
       DEF UploadCheck, UploadCreateTemp, UploadCopy, UploadAnswer, UploadGoto, UploadState,
           UploadInFlight, UploadAnswered, PastCheck
  <1>4. CASE UploadCopyFails(u) \/ UploadRename(u) \/ UploadQueryFails(u)
    BY <1>1, <1>4
       DEF UploadCopyFails, UploadRename, UploadQueryFails, UploadAnswer, UploadState,
           UploadInFlight, UploadAnswered, PastCheck
  <1>5. CASE UploadInsert(u) \/ UploadRollback(u)
    BY <1>1, <1>5
       DEF UploadInsert, UploadRollback, UploadAnswer, UploadGoto, UploadState,
           UploadInFlight, UploadAnswered, PastCheck
  <1> QED
    BY <1>2, <1>3, <1>4, <1>5 DEF UploadStep

LEMMA UploadSerialInv ==
  ASSUME SerialUploads, DiskInv, SerialInv, NEW u \in Upload, UploadNext(u)
  PROVE  OneUploadPerPath' /\ PathIsFree' /\ RecordedFile' /\ InsertedFile'
  <1> USE DEF SerialInv
  <1>1. /\ UNCHANGED <<cl, dl>>
        /\ UploadStep(u)
        /\ \A v \in Upload : v # u => up'[v] = up[v]
    BY UploadKeepsPath DEF DiskInv, UploadNext, adminVars
  <1>2. \A v \in Upload : up[v].pc \in PastCheck => UploadInFlight(v)
    BY DEF PastCheck, UploadInFlight, UploadAnswered
  <1>3. OneUploadPerPath'
    <2>1. \A v \in Upload :
           v # u /\ UploadInFlight(v) /\ UploadInFlight(u)' => up[v].path # up'[u].path
      BY <1>1, UploadOnward DEF OneUploadPerPath, PathBusy
    <2> QED
      BY <1>1, <2>1 DEF OneUploadPerPath, UploadInFlight
  <1>4. PathIsFree'
    <2>1. ASSUME NEW a \in artifacts, a.path = up'[u].path
          PROVE  /\ up'[u].pc = "check" => a.repoId = up'[u].repoId
                 /\ up'[u].pc \notin PastCheck
      <3>1. up'[u].pc = "check" => a.repoId = up'[u].repoId
        BY <1>1, <2>1, UploadOnward, RepositoryOfPath
      <3>2. up[u].pc = "check" /\ a.path = up[u].path => ArtifactTaken(up[u].repoId, up[u].path[2])
        BY DEF PathIsFree, DiskInv, NamesInv, ArtifactNames, ArtifactTaken, ArtifactsNamed,
               ArtifactsOf
      <3> QED
        BY <1>1, <2>1, <3>1, <3>2, UploadOnward DEF PathIsFree
    <2>2. CASE artifacts' = artifacts
      BY <1>1, <2>1, <2>2 DEF PathIsFree
    <2>3. CASE Inserts(u)
      <3>1. \A v \in Upload : v # u /\ up[v].path = up[u].path => ~ UploadInFlight(v)
        BY <1>2, <2>3 DEF Inserts, OneUploadPerPath, PastCheck
      <3>2. \A v \in Upload : v # u /\ up[v].pc = "check" => UploadInFlight(v)
        BY DEF UploadInFlight, UploadAnswered
      <3> QED
        BY <1>1, <1>2, <2>3, <3>1, <3>2 DEF Inserts, PathIsFree, PastCheck
    <2> QED
      BY <1>1, <2>2, <2>3, UploadEffect
  <1>5. RecordedFile'
    <2>1. ASSUME NEW a \in artifacts PROVE files'[a.path] = files[a.path]
      <3>1. a.path \in Path
        BY DEF DiskInv, TypeInv, TypeOK, StoreTypeOK, Artifact
      <3> QED
        BY <1>1, <3>1, UploadEffect DEF PathIsFree
    <2>2. CASE artifacts' = artifacts
      BY <2>1, <2>2 DEF RecordedFile
    <2>3. CASE Inserts(u)
      BY <2>1, <2>3 DEF Inserts, RecordedFile, InsertedFile
    <2> QED
      BY <1>1, <2>2, <2>3, UploadEffect
  <1>6. InsertedFile'
    <2>1. ASSUME NEW v \in Upload, v # u, up[v].pc = "insert"
          PROVE  files'[up[v].path] = files[up[v].path]
      <3>1. up[v].path \in Path
        BY <2>1 DEF DiskInv, TypeInv, UploadLocals
      <3>2. up[u].pc \in PastCheck => up[u].path # up[v].path
        BY <1>2, <2>1 DEF OneUploadPerPath, PastCheck
      <3> QED
        BY <1>1, <3>1, <3>2, UploadEffect
    <2>2. up'[u].pc = "insert" => files'[up'[u].path] = u
      BY <1>1, UploadEffect, UploadOnward DEF PastCheck
    <2> QED
      BY <1>1, <2>1, <2>2 DEF InsertedFile, RowsRemoved
  <1> QED
    BY <1>3, <1>4, <1>5, <1>6

\* Who takes away a record, or a file of which nobody has a record: an upload
\* that inserts is not left without its file unless rows were removed.
LEMMA DeleteSerialInv ==
  ASSUME DiskInv, SerialInv, NEW d \in DeleteReq, DeleteNext(d)
  PROVE  InsertedFile'
  <1>1. /\ UNCHANGED <<up, cl>>
        /\ dl \in [DeleteReq -> DeleteState]
        /\ files \in [Path -> Upload \union {NoFile, Partial}]
        /\ \A u \in Upload : up[u].pc = "insert" => up[u].path \in Path
    BY DEF DeleteNext, DiskInv, TypeInv, TypeOK, AdminTypeOK, DataDirTypeOK, UploadLocals
  <1>2. \A n : RowsRemoved(n) =>
           \E e \in DeleteReq : dl'[e].name = n /\ dl'[e].pc \notin {"idle", "rows"}
    BY RowsRemovedStays DEF Next
  <1>3. ASSUME NEW p \in Path, files'[p] # files[p]
        PROVE  files'[p] = NoFile /\ RowsRemoved(p[1])
    BY <1>1, <1>3
       DEF DeleteNext, DeleteStep, DeleteGet, DeleteRows, DeleteRow, DeleteList, DeleteUnlink,
           DeleteRmdir, DeleteRemoveFails, RemoveDir, Unlink, dirVars, RowsRemoved
  <1>4. InsertedFile'
    <2>1. ASSUME NEW u \in Upload, up[u].pc = "insert", files'[up[u].path] # files[up[u].path]
          PROVE  RowsRemoved(up[u].path[1]) /\ files'[up[u].path] = NoFile
      BY <1>1, <1>3, <2>1
    <2>2. ASSUME NEW u \in Upload, up[u].pc = "insert", RowsRemoved(up[u].path[1])
          PROVE  \E e \in DeleteReq :
                    dl'[e].name = up[u].path[1] /\ dl'[e].pc \notin {"idle", "rows"}
      BY <1>2, <2>2
    <2> QED
      BY <1>1, <2>1, <2>2 DEF SerialInv, InsertedFile, RowsRemoved
  <1> QED
    BY <1>4

LEMMA CleanerSerialInv ==
  ASSUME DiskInv, SerialInv, CleanerNext
  PROVE  InsertedFile'
  <1>1. /\ UNCHANGED <<up, dl>>
        /\ cl \in CleanerState
        /\ files \in [Path -> Upload \union {NoFile, Partial}]
        /\ \A u \in Upload : up[u].pc = "insert" => up[u].path \in Path
    BY DEF CleanerNext, adminVars, DiskInv, TypeInv, TypeOK, CleanerTypeOK, DataDirTypeOK,
           UploadLocals
  <1>2. ASSUME NEW p \in Path, files'[p] # files[p]
        PROVE  files'[p] = NoFile /\ \E b \in cl.todo : b.path = p
    BY <1>1, <1>2
       DEF CleanerNext, CleanerStep, CleanerStart, CleanerRepo, CleanerPassEnds, CleanerRemove,
           CleanerRecord, RemoveFile, dirVars
  <1>3. InsertedFile'
    <2>1. ASSUME NEW u \in Upload, up[u].pc = "insert", files'[up[u].path] # files[up[u].path]
          PROVE  RowsRemoved(up[u].path[1]) /\ files'[up[u].path] = NoFile
      BY <1>1, <1>2, <2>1 DEF SerialInv, PathIsFree, ListInv, ListedStay, PastCheck
    <2> QED
      BY <1>1, <2>1 DEF SerialInv, InsertedFile, RowsRemoved
  <1> QED
    BY <1>3

\* The row that a download found keeps its id to itself.
LEMMA ServerStepFoundRow == DiskInv /\ FoundRow /\ [Next]_vars => FoundRow'
  <1> SUFFICES ASSUME DiskInv, FoundRow, [Next]_vars PROVE FoundRow'
    OBVIOUS
  <1>1. FreshArtifacts
    BY ServerStoreStep, StoreStepFresh DEF DiskInv, TypeInv, TypeOK, StoreInv
  <1>2. artifactSeq \in Int /\ artifactSeq' \in Int
    BY ServerStepType, StoreAssumption DEF DiskInv, TypeInv, TypeOK, StoreTypeOK
  <1>3. dn \in [Download -> DownloadState]
    BY DEF DiskInv, TypeInv, TypeOK, DownloadTypeOK
  <1>4. CASE UNCHANGED dn
    BY <1>1, <1>2, <1>4 DEF FoundRow, FreshArtifacts
  <1>5. ASSUME NEW d \in Download, DownloadNext(d) PROVE FoundRow'
    <2>1. /\ UNCHANGED <<artifacts, artifactSeq>>
          /\ \A e \in Download : e # d => dn'[e] = dn[e]
      BY <1>3, <1>5
         DEF DownloadNext, DownloadStep, DownloadLookup, DownloadFind, DownloadServe,
             DownloadQueryFails, DownloadAnswer, storeVars
    <2>2. dn'[d].pc \in {"serve", "200"} =>
             dn'[d].record \in artifacts \/ (dn[d].pc = "serve" /\ dn'[d].record = dn[d].record)
      <3>1. CASE DownloadFind(d)
        BY <1>3, <3>1
           DEF DownloadFind, DownloadAnswer, DownloadIdle, Wanted, LatestOf, ArtifactsNamed,
               ArtifactsOf
      <3>2. CASE DownloadServe(d)
        BY <1>3, <3>2 DEF DownloadServe, DownloadAnswer, DownloadIdle
      <3>3. CASE DownloadLookup(d) \/ DownloadQueryFails(d)
        BY <1>3, <3>3 DEF DownloadLookup, DownloadQueryFails, DownloadAnswer, DownloadIdle
      <3> QED
        BY <1>5, <3>1, <3>2, <3>3 DEF DownloadNext, DownloadStep
    <2>3. \A a, b \in artifacts : a.id \in 1 .. artifactSeq /\ (a.id = b.id => a = b)
      BY DEF DiskInv, TypeInv, StoreIntegrity, IdsFromSequence, UniqueArtifacts
    <2> QED
      BY <2>1, <2>2, <2>3 DEF FoundRow
  <1>6. CASE Crash
    BY <1>6 DEF Crash, DownloadCrash, DownloadIdle, FoundRow, storeVars
  <1> QED
    BY <1>4, <1>5, <1>6
       DEF Next, UploadNext, CreateNext, UpdateNext, DeleteNext, CleanerNext, ClockNext, vars

LEMMA ServerStepSerial == SerialUploads /\ DiskInv /\ SerialInv /\ [Next]_vars => SerialInv'
  <1> SUFFICES ASSUME SerialUploads, DiskInv, SerialInv, [Next]_vars PROVE SerialInv'
    OBVIOUS
  <1>1. FoundRow' /\ ListInv'
    BY ServerStepFoundRow, ServerStepListed DEF SerialInv
  <1>2. ASSUME NEW u \in Upload, UploadNext(u) PROVE SerialInv'
    BY <1>1, <1>2, UploadSerialInv DEF SerialInv
  <1>3. ASSUME UNCHANGED up, RemovesOnly PROVE OneUploadPerPath' /\ PathIsFree' /\ RecordedFile'
    BY <1>3 DEF SerialInv, OneUploadPerPath, PathIsFree, RecordedFile, RemovesOnly, UploadInFlight
  <1>4. CASE UNCHANGED <<artifacts, files, up, dl, cl>>
    BY <1>1, <1>4
       DEF SerialInv, OneUploadPerPath, PathIsFree, RecordedFile, InsertedFile, RowsRemoved,
           UploadInFlight
  <1>5. ASSUME NEW d \in DeleteReq, DeleteNext(d) PROVE SerialInv'
    BY <1>1, <1>2, <1>3, <1>5, DeleteSerialInv, OthersRemoveOnly DEF SerialInv, DeleteNext
  <1>6. CASE CleanerNext
    BY <1>1, <1>2, <1>3, <1>6, CleanerSerialInv, OthersRemoveOnly DEF SerialInv, CleanerNext
  <1>7. CASE Crash
    <2>1. /\ UNCHANGED <<artifacts, files>>
          /\ \A u \in Upload : ~ UploadInFlight(u)'
      BY <1>7 DEF Crash, UploadCrash, UploadInFlight, UploadAnswered,
                  storeVars, dirVars
    <2> QED
      BY <1>1, <2>1
         DEF SerialInv, OneUploadPerPath, PathIsFree, RecordedFile, InsertedFile, UploadInFlight,
              UploadAnswered, PastCheck
  <1>8. ASSUME NEW c \in CreateReq, CreateNext(c) PROVE UNCHANGED <<artifacts, files, up, dl, cl>>
    BY <1>8 DEF CreateNext, CreateStep, CreateMkdir, CreateInsert, CreateRmdir, MkdirAll,
                RemoveDir, RepoCreate, storeVars, dirVars
  <1>9. ASSUME NEW p \in UpdateReq, UpdateNext(p) PROVE UNCHANGED <<artifacts, files, up, dl, cl>>
    BY <1>9 DEF UpdateNext, UpdateStep, UpdateGet, UpdatePut, RepoUpdate, storeVars, dirVars
  <1>10. ASSUME NEW d \in Download, DownloadNext(d)
         PROVE  UNCHANGED <<artifacts, files, up, dl, cl>>
    BY <1>10 DEF DownloadNext, DownloadStep, DownloadLookup, DownloadFind, DownloadServe,
                 DownloadQueryFails, storeVars, dirVars, adminVars
  <1>11. CASE ClockNext \/ UNCHANGED vars
    BY <1>4, <1>11 DEF ClockNext, vars, storeVars, dirVars, adminVars
  <1> QED
    BY <1>2, <1>4, <1>5, <1>6, <1>7, <1>8, <1>9, <1>10, <1>11 DEF Next

LEMMA ServerKeepsSerialInv ==
  ASSUME SerialUploads
  PROVE  Spec => [](DiskInv /\ SerialInv)
  <1>1. Init => SerialInv
    <2>1. Init => /\ artifacts = {} /\ cl.todo = {}
                  /\ \A u \in Upload : up[u].pc = "idle"
                  /\ \A d \in Download : dn[d].pc = "idle"
      BY DEF Init, UploadInit, CleanerInit, CleanerIdle, DownloadInit, DownloadIdle
    <2> QED
      BY <2>1 DEF SerialInv, OneUploadPerPath, PathIsFree, RecordedFile, InsertedFile, ListInv,
                  ListedStay, ListedByPolicy, FoundRow, UploadInFlight, UploadAnswered
  <1>2. DiskInv /\ SerialInv /\ [Next]_vars => SerialInv'
    BY ServerStepSerial
  <1> QED
    BY <1>1, <1>2, ServerKeepsDiskInv, PTL DEF Spec

LEMMA ServerStepChecksum ==
  DiskInv /\ SerialInv /\ ChecksumOfBody /\ [Next]_vars => ChecksumOfBody'
  <1> SUFFICES ASSUME DiskInv, SerialInv, ChecksumOfBody, [Next]_vars PROVE ChecksumOfBody'
    OBVIOUS
  <1>1. FreshArtifacts
    BY ServerStoreStep, StoreStepFresh DEF DiskInv, TypeInv, TypeOK, StoreInv
  <1>2. artifactSeq \in Int /\ dn \in [Download -> DownloadState]
    BY SequenceTypes DEF DiskInv, TypeInv, TypeOK, DownloadTypeOK
  \* A record that is gone stays gone.
  <1>3. ASSUME NEW d \in Download, dn[d].pc = "200", dn[d].record \in artifacts'
        PROVE  dn[d].record \in artifacts
    BY <1>1, <1>2, <1>3 DEF SerialInv, FoundRow, FreshArtifacts
  <1>4. CASE UNCHANGED dn
    BY <1>3, <1>4 DEF ChecksumOfBody
  <1>5. ASSUME NEW d \in Download, DownloadNext(d) PROVE ChecksumOfBody'
    <2>1. \A e \in Download : e # d => dn'[e] = dn[e]
      BY <1>2, <1>5
         DEF DownloadNext, DownloadStep, DownloadLookup, DownloadFind, DownloadServe,
             DownloadQueryFails, DownloadAnswer
    <2>2. dn'[d].pc = "200" =>
             /\ dn'[d].record = dn[d].record
             /\ dn'[d].body = files[dn[d].record.path] /\ dn'[d].body # NoFile
      <3>1. CASE DownloadServe(d)
        BY <1>2, <3>1 DEF DownloadServe, DownloadAnswer, DownloadIdle, HasFile
      <3>2. CASE ~ DownloadServe(d)
        BY <1>2, <1>5, <3>2
           DEF DownloadNext, DownloadStep, DownloadLookup, DownloadFind, DownloadQueryFails,
               DownloadAnswer, DownloadIdle
      <3> QED
        BY <3>1, <3>2
    <2>3. UNCHANGED artifacts
      BY <1>5 DEF DownloadNext, DownloadStep, DownloadLookup, DownloadFind, DownloadServe,
                  DownloadQueryFails, storeVars
    <2> QED
      BY <2>1, <2>2, <2>3 DEF ChecksumOfBody, SerialInv, RecordedFile
  <1>6. CASE Crash
    BY <1>6 DEF Crash, DownloadCrash, DownloadIdle, ChecksumOfBody, storeVars
  <1> QED
    BY <1>4, <1>5, <1>6
       DEF Next, UploadNext, CreateNext, UpdateNext, DeleteNext, CleanerNext, ClockNext, vars

\* With clients that do not upload to one path at a time from two sides, a
\* download whose record is still there has sent the body that its checksum
\* announces, whatever was uploaded, removed and created anew meanwhile.
THEOREM ChecksumsFitBodies ==
  ASSUME SerialUploads
  PROVE  Spec => []ChecksumOfBody
  <1>1. Init => ChecksumOfBody
    BY DEF Init, DownloadInit, DownloadIdle, ChecksumOfBody
  <1> QED
    BY <1>1, ServerStepChecksum, ServerKeepsSerialInv, PTL DEF Spec

-----------------------------------------------------------------------------

FileKept ==
  \A a \in artifacts' : ~ RowsRemoved(a.path[1]) =>
    /\ a \notin artifacts => files'[a.path] = a.sha
    /\ a \in artifacts /\ files[a.path] = a.sha /\ files'[a.path] # a.sha => a \in cl.todo

LEMMA ServerStepFileKept == DiskInv /\ SerialInv /\ [Next]_vars => FileKept
  <1> SUFFICES ASSUME DiskInv, SerialInv, [Next]_vars PROVE FileKept
    OBVIOUS
  <1>1. /\ \A a \in artifacts : a.path \in Path
        /\ files \in [Path -> Upload \union {NoFile, Partial}]
        /\ cl \in CleanerState /\ dl \in [DeleteReq -> DeleteState]
    BY DEF DiskInv, TypeInv, TypeOK, StoreTypeOK, Artifact, DataDirTypeOK, CleanerTypeOK,
           AdminTypeOK
  <1>2. ASSUME NEW u \in Upload, UploadNext(u) PROVE FileKept
    <2>1. \A a \in artifacts : files'[a.path] = files[a.path]
      BY <1>1, <1>2, UploadEffect DEF UploadNext, SerialInv, PathIsFree
    <2>2. CASE Inserts(u)
      BY <2>1, <2>2 DEF Inserts, SerialInv, InsertedFile, FileKept
    <2> QED
      BY <1>2, <2>1, <2>2, UploadEffect DEF UploadNext, FileKept
  <1>3. ASSUME NEW d \in DeleteReq, DeleteNext(d) PROVE FileKept
    <2>1. ASSUME NEW p \in Path, files'[p] # files[p] PROVE RowsRemoved(p[1])
      BY <1>1, <1>3, <2>1
         DEF DeleteNext, DeleteStep, DeleteGet, DeleteRows, DeleteRow, DeleteList, DeleteUnlink,
             DeleteRmdir, DeleteRemoveFails, RemoveDir, Unlink, dirVars, RowsRemoved
    <2>2. artifacts' \subseteq artifacts
      BY <1>3
         DEF DeleteNext, DeleteStep, DeleteGet, DeleteRows, DeleteRow, DeleteList, DeleteUnlink,
             DeleteRmdir, DeleteRemoveFails, ArtifactDeleteByRepo, RepoDelete, storeVars
    <2> QED
      BY <1>1, <2>1, <2>2 DEF FileKept
  <1>4. CASE CleanerNext
    <2>1. ASSUME NEW p \in Path, files'[p] # files[p] PROVE \E b \in cl.todo : b.path = p
      BY <1>1, <1>4, <2>1
         DEF CleanerNext, CleanerStep, CleanerStart, CleanerRepo, CleanerPassEnds, CleanerRemove,
             CleanerRecord, RemoveFile, dirVars
    <2>2. artifacts' \subseteq artifacts
      BY <1>4 DEF CleanerNext, CleanerStep, CleanerStart, CleanerRepo, CleanerPassEnds,
                  CleanerRemove, CleanerRecord, ArtifactDelete, storeVars
    <2>3. ASSUME NEW a \in artifacts, ~ RowsRemoved(a.path[1]), files'[a.path] # files[a.path]
          PROVE  a \in cl.todo
      BY <1>1, <2>1, <2>3, RecordOfPath DEF SerialInv, ListInv, ListedStay
    <2> QED
      BY <2>2, <2>3 DEF FileKept
  <1>5. CASE UNCHANGED <<artifacts, files>>
    BY <1>5 DEF FileKept
  <1>6. ASSUME NEW c \in CreateReq, CreateNext(c) PROVE UNCHANGED <<artifacts, files>>
    BY <1>6 DEF CreateNext, CreateStep, CreateMkdir, CreateInsert, CreateRmdir, MkdirAll,
                RemoveDir, RepoCreate, storeVars, dirVars
  <1>7. ASSUME NEW p \in UpdateReq, UpdateNext(p) PROVE UNCHANGED <<artifacts, files>>
    BY <1>7 DEF UpdateNext, UpdateStep, UpdateGet, UpdatePut, RepoUpdate, storeVars, dirVars
  <1>8. ASSUME NEW d \in Download, DownloadNext(d) PROVE UNCHANGED <<artifacts, files>>
    BY <1>8 DEF DownloadNext, DownloadStep, DownloadLookup, DownloadFind, DownloadServe,
                DownloadQueryFails, storeVars, dirVars
  <1>9. ClockNext \/ Crash \/ UNCHANGED vars => UNCHANGED <<artifacts, files>>
    BY DEF ClockNext, Crash, vars, storeVars, dirVars
  <1> QED
    BY <1>2, <1>3, <1>4, <1>5, <1>6, <1>7, <1>8, <1>9 DEF Next

\* With such clients, a record and its file come and go together: a record is
\* inserted when its file is in place, and keeps it until the cleaner is about
\* to delete the record, or rows of a repository of the name were removed.
THEOREM RecordsKeepFiles ==
  ASSUME SerialUploads
  PROVE  Spec => RecordKeepsFile
  <1>1. DiskInv /\ SerialInv /\ [Next]_vars => [FileKept]_vars
    BY ServerStepFileKept
  <1>2. RecordKeepsFile <=> [][FileKept]_vars
    BY DEF RecordKeepsFile, FileKept
  <1> QED
    BY <1>1, <1>2, ServerKeepsSerialInv, PTL DEF Spec

-----------------------------------------------------------------------------
(* Publishing: every step is one of ArtifactPublishing or a stutter.       *)

LEMMA ServerStepPublishes ==
  DiskInv /\ SerialInv /\ [Next]_vars => [Publishing!PublishingNext]_Published
  <1> SUFFICES ASSUME DiskInv, SerialInv, [Next]_vars
               PROVE  [Publishing!PublishingNext]_Published
    OBVIOUS
  <1>0. Published = [p \in Path |-> IF \E a \in artifacts : a.path = p THEN files[p] ELSE NoFile]
    BY DEF Published
  <1>1. Published' =
           [p \in Path |-> IF \E a \in artifacts' : a.path = p THEN files'[p] ELSE NoFile]
    BY DEF Published
  <1>2. ASSUME \A p \in Path : Published'[p] \in {Published[p], NoFile}
        PROVE  Publishing!PublishingNext
    <2> DEFINE ps == {p \in Path : Published'[p] = NoFile}
    <2>1. Published' = [p \in Path |-> IF p \in ps THEN NoFile ELSE Published[p]]
      BY <1>1, <1>2
    <2>2. Publishing!Withdraw(ps)
      BY <2>1 DEF Publishing!Withdraw
    <2> QED
      BY <2>2 DEF Publishing!PublishingNext
  <1>3. ASSUME NEW u \in Upload, UploadNext(u)
        PROVE  [Publishing!PublishingNext]_Published
    <2>1. \A a \in artifacts : a.path \in Path /\ files'[a.path] = files[a.path]
      BY <1>3, UploadEffect
         DEF UploadNext, SerialInv, PathIsFree, DiskInv, TypeInv, TypeOK, StoreTypeOK, Artifact
    <2>2. CASE Inserts(u)
      <3>1. /\ up[u].path \in Path
            /\ Published[up[u].path] = NoFile
            /\ files[up[u].path] \in {u, NoFile}
        BY <1>0, <2>2 DEF Inserts, SerialInv, PathIsFree, InsertedFile, PastCheck, DiskInv,
                          TypeInv, UploadLocals
      <3>2. Published' = [Published EXCEPT ![up[u].path] = files[up[u].path]]
        BY <1>0, <1>1, <2>2, <3>1 DEF Inserts
      <3>3. CASE files[up[u].path] = u
        BY <3>1, <3>2, <3>3 DEF Publishing!PublishingNext, Publishing!Publish
      <3>4. CASE files[up[u].path] = NoFile
        BY <1>0, <3>1, <3>2, <3>4
      <3> QED
        BY <3>1, <3>3, <3>4
    <2>3. CASE artifacts' = artifacts
      BY <1>0, <1>1, <2>1, <2>3
    <2> QED
      BY <1>3, <2>2, <2>3, UploadEffect DEF UploadNext
  <1>4. CASE \A u \in Upload : ~ UploadNext(u)
    BY <1>0, <1>1, <1>2, <1>4, OthersRemoveOnly DEF RemovesOnly
  <1> QED
    BY <1>3, <1>4

\* With such clients, artf implements ArtifactPublishing: what a path serves
\* is published once, whole, never replaced, and goes only by being withdrawn.
THEOREM ServerImplementsPublishing ==
  ASSUME SerialUploads
  PROVE  Spec => PublishesOnce
  <1>1. Init => Publishing!PublishingInit
    BY DEF Init, Published, Publishing!PublishingInit
  <1> QED
    BY <1>1, ServerStepPublishes, ServerKeepsSerialInv, PTL
       DEF Spec, PublishesOnce, Publishing!PublishingSpec
=============================================================================
