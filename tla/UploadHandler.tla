---------------------------- MODULE UploadHandler ----------------------------
(***************************************************************************)
(* PUT /{repoName}/{artifactName}: server/handler/artifact.go,             *)
(* UploadArtifact.  The handler runs once per request, each request in a   *)
(* goroutine of its own, and holds no lock: between any two of its         *)
(* statements and system calls anything else may run.                      *)
(*                                                                         *)
(* Reading the body (io.Copy into the temporary file, 143-156) takes as    *)
(* long as the client likes and may fail at any moment; the failure and    *)
(* the removal of the temporary file are one step, since nobody but a      *)
(* removal of the whole directory touches that file.                       *)
(***************************************************************************)
EXTENDS Environment, SqliteStore, DataDir

CONSTANTS
    SerialUploads   \* clients never have two uploads of one path in flight

ASSUME UploadAssumption == SerialUploads \in BOOLEAN

VARIABLE
    up              \* the state of each upload request

UploadPc == {"idle", "check", "temp", "copy", "rename", "insert",
             "rollback409", "rollback500",
             "201", "404", "409", "413", "500", "lost"}

UploadAnswered == {"idle", "201", "404", "409", "413", "500", "lost"}

NoPath == <<>>

UploadState == [pc : UploadPc, path : Path \union {NoPath}, repoId : Nat, createdAt : Instant]

UploadTypeOK == up \in [Upload -> UploadState]

UploadInit ==
    up = [u \in Upload |->
             [pc |-> "idle", path |-> NoPath, repoId |-> 0, createdAt |-> 0]]

UploadInFlight(u) == up[u].pc \notin UploadAnswered

\* An answered request keeps nothing but its answer.
UploadAnswer(u, status) ==
    up' = [up EXCEPT ![u] = [pc |-> status, path |-> up[u].path, repoId |-> 0, createdAt |-> 0]]

UploadGoto(u, pc) == up' = [up EXCEPT ![u].pc = pc]

PathBusy(p) == \E v \in Upload : UploadInFlight(v) /\ up[v].path = p

-----------------------------------------------------------------------------
(* GetByName, 101-119: the request arrives and its repository is looked up. *)

UploadLookup(u) ==
    /\ up[u].pc = "idle"
    /\ \E p \in Path :
          /\ SerialUploads => ~ PathBusy(p)
          /\ \/ /\ ReposNamed(p[1]) = {}
                /\ up' = [up EXCEPT ![u] = [pc |-> "404", path |-> p, repoId |-> 0, createdAt |-> 0]]
             \/ \E r \in ReposNamed(p[1]) :
                   up' = [up EXCEPT ![u] = [pc |-> "check", path |-> p, repoId |-> r.id,
                                            createdAt |-> 0]]
    /\ NoFault
    /\ UNCHANGED <<storeVars, dirVars>>

\* Mutant: the upload never looks whether the artifact exists.
UploadCheckMutant(u) ==
    /\ up[u].pc = "check"
    /\ UploadGoto(u, "temp")
    /\ NoFault
    /\ UNCHANGED <<storeVars, dirVars>>

\* GetByRepoAndName, 124-131.
UploadCheck(u) ==
    /\ up[u].pc = "check"
    /\ IF ArtifactTaken(up[u].repoId, up[u].path[2])
       THEN UploadAnswer(u, "409")
       ELSE UploadGoto(u, "temp")
    /\ NoFault
    /\ UNCHANGED <<storeVars, dirVars>>

\* os.CreateTemp, 135-141: needs the repository's directory.
UploadCreateTemp(u) ==
    /\ up[u].pc = "temp"
    /\ \/ /\ CreateTemp(u, up[u].path[1])
          /\ UploadGoto(u, "copy")
          /\ NoFault
       \/ /\ UploadAnswer(u, "500")
          /\ IF up[u].path[1] \in dirs THEN Fault ELSE NoFault
          /\ UNCHANGED dirVars
    /\ UNCHANGED storeVars

\* Mutant: a body that breaks off is taken for a whole one.
UploadCopyMutant(u) ==
    /\ up[u].pc = "copy"
    /\ UploadGoto(u, "rename")
    /\ NoFault
    /\ UNCHANGED <<storeVars, dirVars>>

\* io.Copy and Close succeed, 143-156.
UploadCopy(u) ==
    /\ up[u].pc = "copy"
    /\ WriteTemp(u)
    /\ UploadGoto(u, "rename")
    /\ NoFault
    /\ UNCHANGED storeVars

\* Mutant: the temporary file of a failed upload is forgotten.
UploadCopyFailsMutant(u) ==
    /\ up[u].pc = "copy"
    /\ \E status \in {"413", "500"} : UploadAnswer(u, status)
    /\ NoFault
    /\ UNCHANGED <<storeVars, dirVars>>

\* The body is larger than the limit, or the client goes away, 144-161.
UploadCopyFails(u) ==
    /\ up[u].pc = "copy"
    /\ RemoveTemp(u)
    /\ \E status \in {"413", "500"} : UploadAnswer(u, status)
    /\ NoFault
    /\ UNCHANGED storeVars

\* Mutant: the timestamp is a day ahead.
TimestampMutant == now + 1

\* time.Now(), 177.
Timestamp == now

\* os.Rename, 163-177.  The timestamp of the record is taken right after it,
\* and before the statement that inserts the record.
UploadRename(u) ==
    /\ up[u].pc = "rename"
    /\ \/ /\ RenameTemp(u, up[u].path)
          /\ up' = [up EXCEPT ![u] = [pc |-> "insert", path |-> up[u].path,
                                      repoId |-> up[u].repoId, createdAt |-> Timestamp]]
          /\ NoFault
       \/ /\ RemoveTemp(u)
          /\ UploadAnswer(u, "500")
          /\ IF HasTemp(u) THEN Fault ELSE NoFault
    /\ UNCHANGED storeVars

\* artifacts.Create, 180-193.
UploadInsert(u) ==
    /\ up[u].pc = "insert"
    /\ \/ /\ ArtifactCreate(up[u].repoId, up[u].path, u, up[u].createdAt)
          /\ UploadAnswer(u, "201")
          /\ NoFault
       \/ /\ ~ ArtifactCreatable(up[u].repoId, up[u].path[2])
          /\ UploadGoto(u, IF ArtifactTaken(up[u].repoId, up[u].path[2])
                           THEN "rollback409" ELSE "rollback500")
          /\ NoFault
          /\ UNCHANGED storeVars
       \/ /\ UploadGoto(u, "rollback500")
          /\ Fault
          /\ UNCHANGED storeVars
    /\ UNCHANGED dirVars

\* Mutant: the file of a failed upload stays.
UploadRollbackMutant(u) ==
    /\ up[u].pc \in {"rollback409", "rollback500"}
    /\ UploadAnswer(u, IF up[u].pc = "rollback409" THEN "409" ELSE "500")
    /\ NoFault
    /\ UNCHANGED <<storeVars, dirVars>>

\* os.Remove(finalPath), 181-188: the file at the final path goes, whoever
\* wrote it.
UploadRollback(u) ==
    /\ up[u].pc \in {"rollback409", "rollback500"}
    /\ RemoveFile(up[u].path)
    /\ UploadAnswer(u, IF up[u].pc = "rollback409" THEN "409" ELSE "500")
    /\ NoFault
    /\ UNCHANGED storeVars

\* A query fails, 117 and 128.
UploadQueryFails(u) ==
    /\ up[u].pc \in {"idle", "check"}
    /\ UploadAnswer(u, "500")
    /\ Fault
    /\ UNCHANGED <<storeVars, dirVars>>

UploadStep(u) ==
    \/ UploadLookup(u)
    \/ UploadCheck(u)
    \/ UploadCreateTemp(u)
    \/ UploadCopy(u)
    \/ UploadCopyFails(u)
    \/ UploadRename(u)
    \/ UploadInsert(u)
    \/ UploadRollback(u)
    \/ UploadQueryFails(u)

\* The process is gone, and the request with it.
UploadCrash ==
    up' = [u \in Upload |->
              IF UploadInFlight(u)
              THEN [pc |-> "lost", path |-> up[u].path, repoId |-> 0, createdAt |-> 0]
              ELSE up[u]]
=============================================================================
