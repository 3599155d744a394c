------------------------------ MODULE ArtfServer ------------------------------
(***************************************************************************)
(* One artf process on its database and its data directory: uploads,       *)
(* downloads, the administrator's requests and the cleaner run             *)
(* concurrently (cmd/serve.go starts them), and the process may be killed  *)
(* and started again at any moment.                                        *)
(***************************************************************************)
EXTENDS UploadHandler, RepoHandlers, Cleaner, DownloadHandler

CONSTANT
    Existing    \* the repositories there are at the start

ASSUME ServerAssumption ==
    /\ Existing \subseteq RepoName
    /\ IsFiniteSet(Existing)
    /\ Cardinality(Existing) <= MaxRowId

vars == <<envVars, storeVars, dirVars, up, adminVars, cl, dn>>

TypeOK ==
    /\ EnvironmentTypeOK
    /\ StoreTypeOK
    /\ DataDirTypeOK
    /\ UploadTypeOK
    /\ AdminTypeOK
    /\ CleanerTypeOK
    /\ DownloadTypeOK

-----------------------------------------------------------------------------

\* The repositories that there are have been created one after the other,
\* each with a directory and a policy, and are empty.
Init ==
    /\ EnvironmentInit
    /\ \E id \in [Existing -> 1 .. Cardinality(Existing)], policy \in [Existing -> Policies] :
          /\ \A m, n \in Existing : id[m] = id[n] => m = n
          /\ repos = {[id |-> id[n], name |-> n, keepCount |-> policy[n].keepCount,
                       keepDays |-> policy[n].keepDays] : n \in Existing}
    /\ repoSeq = Cardinality(Existing)
    /\ artifacts = {}
    /\ artifactSeq = 0
    /\ DataDirInit(Existing)
    /\ UploadInit
    /\ AdminInit
    /\ CleanerInit
    /\ DownloadInit

UploadNext(u) == UploadStep(u) /\ UNCHANGED <<adminVars, cl, dn>>

CreateNext(c) == CreateStep(c) /\ UNCHANGED <<up, cl, dn>>

UpdateNext(p) == UpdateStep(p) /\ UNCHANGED <<up, cl, dn>>

DeleteNext(d) == DeleteStep(d) /\ UNCHANGED <<up, cl, dn>>

CleanerNext == CleanerStep /\ UNCHANGED <<up, adminVars, dn>>

DownloadNext(d) == DownloadStep(d) /\ UNCHANGED <<up, adminVars, cl>>

ClockNext == Tick /\ UNCHANGED <<storeVars, dirVars, up, adminVars, cl, dn>>

\* The process is killed and started again: what it had in memory is gone;
\* committed transactions and files stay, and nothing sweeps the directory.
Crash ==
    /\ UploadCrash
    /\ AdminCrash
    /\ CleanerCrash
    /\ DownloadCrash
    /\ Fault
    /\ UNCHANGED <<storeVars, dirVars>>

Next ==
    \/ \E u \in Upload : UploadNext(u)
    \/ \E c \in CreateReq : CreateNext(c)
    \/ \E p \in UpdateReq : UpdateNext(p)
    \/ \E d \in DeleteReq : DeleteNext(d)
    \/ CleanerNext
    \/ \E d \in Download : DownloadNext(d)
    \/ ClockNext
    \/ Crash

Spec == Init /\ [][Next]_vars

\* The cleaner's goroutine and its ticker go on as long as the process lives;
\* nothing else is fair, a client may leave its request where it is for ever.
FairSpec == Spec /\ WF_vars(CleanerNext)

-----------------------------------------------------------------------------
(* Files. *)

\* What is at a final path is the whole body of an upload to that path, at
\* every moment and after any crash (artifact.go: io.Copy goes to a temporary
\* file, which os.Rename publishes).
WholeFiles ==
    \A p \in Path : HasFile(p) => files[p] \in Upload /\ up[files[p]].path = p

\* An upload that was answered has removed its temporary file, whichever of
\* its error paths it took; only a crash leaves one behind (artifact.go:145,
\* 157, 164).
NoTempLeft ==
    \A u \in Upload : HasTemp(u) => up[u].pc \in {"copy", "rename", "lost"}

\* Every file has an owner: a record, the upload that is about to insert or
\* to undo it, or the crash or the deletion of its repository that came in
\* between.  Disk space is otherwise never lost to a file that no request and
\* no cleaner will remove (artifact.go:181, cleanup.go:128, repo_handler.go:275).
FilesOwned ==
    \A p \in Path : HasFile(p) =>
        \/ \E a \in artifacts : a.path = p
        \/ up[files[p]].pc \in {"insert", "rollback409", "rollback500", "lost"}
        \/ \E d \in DeleteReq :
               /\ dl[d].name = p[1]
               /\ dl[d].pc \in {"row", "list", "unlink", "500", "lost"}

\* A deletion of a repository of this name has come to remove its rows, or to
\* fail at it.  From then on an upload that looked the repository up before and
\* a cleaner that listed its artifacts before still go by the same paths as
\* what is uploaded since, to this repository or to a new one of the name.
RowsRemoved(n) ==
    \E d \in DeleteReq : dl[d].name = n /\ dl[d].pc \notin {"idle", "rows"}

\* As long as a record stays, so does its file, byte for byte, from the step
\* that inserts the record on; only the cleaner, about to delete the record,
\* takes the file away first (artifact.go:163-180, cleanup.go:127-137).  A
\* deletion of the repository, or of an earlier one of its name, ends this.
RecordKeepsFile ==
    [][\A a \in artifacts' : ~ RowsRemoved(a.path[1]) =>
          /\ a \notin artifacts => files'[a.path] = a.sha
          /\ a \in artifacts /\ files[a.path] = a.sha /\ files'[a.path] # a.sha
                 => a \in cl.todo]_vars

\* However many clients upload to a path at a time, the bytes at the path of a
\* record are the record's own, but for the moment in which an upload that is
\* too late has replaced them and has yet to find the record there: it then
\* takes its bytes away itself, unless it is killed (artifact.go:163-188; the
\* claim ConflictWithoutOverwrite says that it never replaces them).
OverwriteIsUndone ==
    \A a \in artifacts : HasFile(a.path) /\ files[a.path] # a.sha =>
        \/ up[files[a.path]].pc \in {"insert", "rollback409", "rollback500", "lost"}
        \/ RowsRemoved(a.path[1])

\* artf promises its clients what ArtifactPublishing says: what a path serves
\* is published once, whole, and does not change until it is withdrawn.
Published ==
    [p \in Path |-> IF \E a \in artifacts : a.path = p THEN files[p] ELSE NoFile]

Publishing == INSTANCE ArtifactPublishing
    WITH Content <- Upload, Nothing <- NoFile, published <- Published

PublishesOnce == Publishing!PublishingSpec

\* The checksum that a download announces is that of the body it sends, unless
\* the artifact was removed after it was looked up (artifact.go:92-96).
ChecksumOfBody ==
    \A d \in Download :
        dn[d].pc = "200" /\ dn[d].body # dn[d].record.sha => dn[d].record \notin artifacts

-----------------------------------------------------------------------------
(* Repositories. *)

\* A repository whose deletion was answered 200 is gone with its rows and its
\* directory, whatever uploads to it were in flight (repo_handler.go:262-281);
\* only a request to create one of the name makes the directory anew.
DeletionComplete ==
    \A d \in DeleteReq : dl[d].pc = "200" =>
        /\ ReposWithId(dl[d].id) = {}
        /\ ArtifactsOf(dl[d].id) = {}
        /\ dl[d].name \in dirs => \E c \in CreateReq : cr[c].name = dl[d].name

\* A repository has its folder as long as no deletion has come to the rows of
\* a repository of its name and no creation of its name has failed: nothing
\* else, an upload that is undone or the cleaner included, takes the folder
\* away, so that uploads do not fail for want of it (repo_handler.go:90-100,
\* artifact.go:135-141, 181; the claim RepoHasFolder is without the excuses).
FolderStays ==
    \A r \in repos :
        \/ r.name \in dirs
        \/ RowsRemoved(r.name)
        \/ \E c \in CreateReq : cr[c].name = r.name /\ cr[c].pc = "500"

-----------------------------------------------------------------------------
(* Retention. *)

\* Rows of a's repository, other than a, that are at least as new.
NewerOrEqual(rows, a) ==
    {b \in rows : b.repoId = a.repoId /\ b.id # a.id /\ a.createdAt <= b.createdAt}

\* How many artifacts a pass has to leave in a repository.
Quota(repo) == IF repo.keepCount > 0 THEN repo.keepCount ELSE 1

\* The cleaner deletes a record only while as many artifacts of its repository
\* remain that are at least as new as the policy has it keep, and without
\* KeepCount only a record older than the cutoff, however stale its lists are
\* and whoever adds or removes artifacts meanwhile (cleanup.go:99-143).
RetentionSafe ==
    [][cl' # cl => \A a \in artifacts \ artifacts' :
          /\ Cardinality(NewerOrEqual(artifacts', a)) >= Quota(cl.repo)
          /\ cl.repo.keepCount <= 0 => a.createdAt < cl.day - cl.repo.keepDays]_vars

\* A file that the cleaner takes from a record is one that it decided to
\* remove, from the list and by a policy of the record's own repository that
\* does not keep everything, whoever publishes at the same path meanwhile, and
\* however many clients upload at a time; only a deletion that came to the rows
\* of the name ends this (cleanup.go:67-84, 126-142; the claim KeepAllIsKept is
\* without the excuse, and without the policy that a pass began with).
CleanerTakesListed ==
    [][cl' # cl => \A a \in artifacts : HasFile(a.path) /\ ~ HasFile(a.path)' =>
          \/ RowsRemoved(a.path[1])
          \/ /\ a \in cl.todo
             /\ cl.repo.id = a.repoId
             /\ cl.repo.keepCount # 0 \/ cl.repo.keepDays # 0]_vars

\* A record that its repository's policy no longer keeps.
Expired(i) ==
    \E a \in artifacts, r \in repos :
        LET newer == {b \in ArtifactsOf(r.id) : a.createdAt < b.createdAt}
        IN  /\ a.id = i
            /\ r.id = a.repoId
            /\ IF r.keepCount > 0
               THEN Cardinality(newer) >= r.keepCount
               ELSE /\ r.keepDays # 0 \/ r.keepCount # 0
                    /\ a.createdAt < now - r.keepDays
                    /\ newer # {}

\* No record stays expired: the cleaner deletes it in the end, also if a crash
\* or an error has left it without its file, unless the administrator changes
\* the policy before (cleanup.go:38-56, 128-135).
ExpiredRemoved ==
    \A i \in 1 .. MaxRowId : Expired(i) ~> ~ Expired(i)
=============================================================================
