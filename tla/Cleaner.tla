------------------------------- MODULE Cleaner -------------------------------
(***************************************************************************)
(* The retention cleaner: cleanup/cleanup.go.  One goroutine runs a pass   *)
(* at startup and then every 24 hours.  A pass works from copies that grow *)
(* stale: the list of repositories and the day it took at its start, and   *)
(* the list of artifacts it took when it came to a repository.             *)
(***************************************************************************)
EXTENDS Environment, SqliteStore, DataDir

VARIABLE
    cl      \* the state of the cleaner

NoRepo == <<>>
NoArtifact == <<>>

(***************************************************************************)
(* queue: the repositories the pass has not come to; repo: the one it is   *)
(* at; kept and todo: that repository's artifacts, as listed, that it      *)
(* decided to keep and those it still has to remove; item: the one whose   *)
(* file it has just removed.                                               *)
(***************************************************************************)
CleanerState == [pc : {"idle", "repo", "remove", "record"},
                 day : Instant,
                 queue : SUBSET Repo,
                 repo : Repo \union {NoRepo},
                 kept : SUBSET Artifact,
                 todo : SUBSET Artifact,
                 item : Artifact \union {NoArtifact}]

CleanerTypeOK == cl \in CleanerState

CleanerIdle == [pc |-> "idle", day |-> 0, queue |-> {}, repo |-> NoRepo,
                kept |-> {}, todo |-> {}, item |-> NoArtifact]

CleanerInit == cl = CleanerIdle

-----------------------------------------------------------------------------
(* What to keep, 99-123. *)

\* Mutant: the oldest first.
NewestMutant(list, k) ==
    {s \in SUBSET list :
        /\ Cardinality(s) = IF k < Cardinality(list) THEN k ELSE Cardinality(list)
        /\ \A a \in s, b \in list \ s : a.createdAt <= b.createdAt}

\* The first k of the list, newest first.  Equal timestamps leave a choice:
\* sort.Slice is not stable.
Newest(list, k) ==
    {s \in SUBSET list :
        /\ Cardinality(s) = IF k < Cardinality(list) THEN k ELSE Cardinality(list)
        /\ \A a \in s, b \in list \ s : b.createdAt <= a.createdAt}

\* KeepCount governs; otherwise the newest and those the cutoff spares.
Retained(list, repo, day) ==
    IF repo.keepCount > 0
    THEN Newest(list, repo.keepCount)
    ELSE {s \union {a \in list : ~ (a.createdAt < day - repo.keepDays)} :
              s \in Newest(list, 1)}

-----------------------------------------------------------------------------

\* Run and RunOnce, 38-65: a pass begins with the list of the repositories;
\* when the listing fails there is no pass until the next tick.
CleanerStart ==
    /\ cl.pc = "idle"
    /\ \/ /\ cl' = [CleanerIdle EXCEPT !.pc = "repo", !.day = now, !.queue = repos]
          /\ NoFault
       \/ /\ UNCHANGED cl
          /\ Fault
    /\ UNCHANGED <<storeVars, dirVars>>

IsNextRepo(r) == r \in cl.queue /\ \A s \in cl.queue : r.id <= s.id

CleanerSkip(r) == cl' = [cl EXCEPT !.queue = @ \ {r}]

\* The next repository, 67-123: skipped, or listed and its artifacts sorted
\* into those to keep and those to remove.
CleanerRepo(r) ==
    /\ cl.pc = "repo"
    /\ IsNextRepo(r)
    /\ \/ /\ r.keepCount = 0 /\ r.keepDays = 0
          /\ CleanerSkip(r)
          /\ NoFault
       \/ /\ ~ (r.keepCount = 0 /\ r.keepDays = 0)
          /\ \E kept \in Retained(ArtifactsOf(r.id), r, cl.day) :
                IF kept = ArtifactsOf(r.id)
                THEN CleanerSkip(r)
                ELSE cl' = [cl EXCEPT !.pc = "remove", !.queue = @ \ {r}, !.repo = r,
                                      !.kept = kept, !.todo = ArtifactsOf(r.id) \ kept]
          /\ NoFault
       \/ /\ ~ (r.keepCount = 0 /\ r.keepDays = 0)
          /\ CleanerSkip(r)       \* the listing fails
          /\ Fault
    /\ UNCHANGED <<storeVars, dirVars>>

\* No repository is left, 86: the cleaner waits for its ticker.
CleanerPassEnds ==
    /\ cl.pc = "repo"
    /\ cl.queue = {}
    /\ cl' = CleanerIdle
    /\ NoFault
    /\ UNCHANGED <<storeVars, dirVars>>

\* Removal goes from the newest to the oldest, 126.
IsNextArtifact(a) == a \in cl.todo /\ \A b \in cl.todo : b.createdAt <= a.createdAt

\* Through with an artifact, removed or given up; the last one of a
\* repository ends cleanRepo.
CleanerThrough(a) ==
    cl' = IF cl.todo = {a}
          THEN [cl EXCEPT !.pc = "repo", !.repo = NoRepo, !.item = NoArtifact,
                          !.kept = {}, !.todo = {}]
          ELSE [cl EXCEPT !.pc = "remove", !.item = NoArtifact, !.todo = @ \ {a}]

\* Mutant: a file that is missing already stops the removal of the record.
CleanerRemoveMutant(a) ==
    /\ cl.pc = "remove"
    /\ IsNextArtifact(a)
    /\ \/ /\ HasFile(a.path)
          /\ RemoveFile(a.path)
          /\ cl' = [cl EXCEPT !.pc = "record", !.item = a]
          /\ NoFault
       \/ /\ CleanerThrough(a)
          /\ IF HasFile(a.path) THEN Fault ELSE NoFault
          /\ UNCHANGED dirVars
    /\ UNCHANGED storeVars

\* removeFile, 127-135: the file goes or is missing already; any other error
\* leaves the artifact for the next pass.
CleanerRemove(a) ==
    /\ cl.pc = "remove"
    /\ IsNextArtifact(a)
    /\ \/ /\ RemoveFile(a.path)
          /\ cl' = [cl EXCEPT !.pc = "record", !.item = a]
          /\ NoFault
       \/ /\ HasFile(a.path)
          /\ CleanerThrough(a)
          /\ Fault
          /\ UNCHANGED dirVars
    /\ UNCHANGED storeVars

\* artifacts.Delete, 137-142.
CleanerRecord ==
    /\ cl.pc = "record"
    /\ CleanerThrough(cl.item)
    /\ \/ /\ ArtifactDelete(cl.item.id)
          /\ NoFault
       \/ /\ Fault
          /\ UNCHANGED storeVars
    /\ UNCHANGED dirVars

\* Mutant: first the record goes, and then the file.
CleanerStepMutant ==
    \/ CleanerStart
    \/ \E r \in cl.queue : CleanerRepo(r)
    \/ CleanerPassEnds
    \/ /\ cl.pc = "remove"
       /\ \E a \in cl.todo :
             /\ IsNextArtifact(a)
             /\ ArtifactDelete(a.id)
             /\ cl' = [cl EXCEPT !.pc = "record", !.item = a]
       /\ NoFault
       /\ UNCHANGED dirVars
    \/ /\ cl.pc = "record"
       /\ RemoveFile(cl.item.path)
       /\ CleanerThrough(cl.item)
       /\ NoFault
       /\ UNCHANGED storeVars

CleanerStep ==
    \/ CleanerStart
    \/ \E r \in cl.queue : CleanerRepo(r)
    \/ CleanerPassEnds
    \/ \E a \in cl.todo : CleanerRemove(a)
    \/ CleanerRecord

\* The next process starts with a pass of its own.
CleanerCrash == cl' = CleanerIdle
=============================================================================
