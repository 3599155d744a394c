----------------------------- MODULE RepoHandlers -----------------------------
(***************************************************************************)
(* The administrator's requests that change a repository, admin/           *)
(* repo_handler.go: PUT /repos (create), PATCH /repos/{id} (update) and    *)
(* DELETE /repos/{id}, each request in a goroutine of its own.             *)
(***************************************************************************)
EXTENDS Environment, SqliteStore, DataDir

CONSTANTS
    CreateReq,      \* create requests
    UpdateReq,      \* update requests
    DeleteReq,      \* delete requests
    Policies,       \* the retention policies that create requests carry
    Patches,        \* the changes that update requests carry
    Unset           \* a field that an update request leaves out

ASSUME RepoHandlersAssumption ==
    /\ Policies \subseteq Policy
    /\ Patches \subseteq [keepCount : Keep \union {Unset}, keepDays : Keep \union {Unset}]
    /\ Unset \notin Keep

VARIABLES
    cr,     \* the state of each create request
    pt,     \* the state of each update request
    dl      \* the state of each delete request

adminVars == <<cr, pt, dl>>

AdminAnswered == {"idle", "200", "404", "500", "lost"}

NoName == "no name"
NoPolicy == <<>>
NoPatch == <<>>
NoRow == <<>>

CreateState == [pc : AdminAnswered \union {"insert", "rmdir"},
                name : RepoName \union {NoName}, policy : Policies \union {NoPolicy}]

UpdateState == [pc : AdminAnswered \union {"put"}, patch : Patches \union {NoPatch},
                row : Repo \union {NoRow}]

DeleteState == [pc : AdminAnswered \union {"rows", "row", "list", "unlink"},
                id : Nat, name : RepoName \union {NoName},
                entries : SUBSET (ArtifactName \union Upload)]

AdminTypeOK ==
    /\ cr \in [CreateReq -> CreateState]
    /\ pt \in [UpdateReq -> UpdateState]
    /\ dl \in [DeleteReq -> DeleteState]

AdminInit ==
    /\ cr = [c \in CreateReq |-> [pc |-> "idle", name |-> NoName, policy |-> NoPolicy]]
    /\ pt = [p \in UpdateReq |-> [pc |-> "idle", patch |-> NoPatch, row |-> NoRow]]
    /\ dl = [d \in DeleteReq |-> [pc |-> "idle", id |-> 0, name |-> NoName, entries |-> {}]]

-----------------------------------------------------------------------------
(* createRepoHandler, 57-116. *)

CreateAnswer(c, status) ==
    cr' = [cr EXCEPT ![c] = [pc |-> status, name |-> cr[c].name, policy |-> NoPolicy]]

\* os.MkdirAll, 77-93.  (A name that validation rejects ends the request.)
CreateMkdir(c) ==
    /\ cr[c].pc = "idle"
    /\ \/ /\ \E n \in RepoName, policy \in Policies :
                /\ MkdirAll(n)
                /\ cr' = [cr EXCEPT ![c] = [pc |-> "insert", name |-> n, policy |-> policy]]
          /\ NoFault
       \/ /\ CreateAnswer(c, "500")
          /\ Fault
          /\ UNCHANGED dirVars
    /\ UNCHANGED <<storeVars, pt, dl>>

\* repoStore.Create, 95-115.
CreateInsert(c) ==
    /\ cr[c].pc = "insert"
    /\ \/ /\ RepoCreate(cr[c].name, cr[c].policy)
          /\ CreateAnswer(c, "200")
          /\ NoFault
       \/ /\ IF RepoCreatable(cr[c].name) THEN Fault ELSE NoFault
          /\ cr' = [cr EXCEPT ![c].pc = "rmdir"]
          /\ UNCHANGED storeVars
    /\ UNCHANGED <<dirVars, pt, dl>>

\* os.Remove(repoDir), 97-100: the directory goes if it is empty, whether or
\* not this request made it.
CreateRmdir(c) ==
    /\ cr[c].pc = "rmdir"
    /\ RemoveDir(cr[c].name)
    /\ CreateAnswer(c, "500")
    /\ NoFault
    /\ UNCHANGED <<storeVars, pt, dl>>

-----------------------------------------------------------------------------
(* updateRepoHandler, 182-238. *)

UpdateAnswer(p, status) ==
    pt' = [pt EXCEPT ![p] = [pc |-> status, patch |-> pt[p].patch, row |-> NoRow]]

\* repoStore.Get, 184-209.
UpdateGet(p) ==
    /\ pt[p].pc = "idle"
    /\ \/ /\ \E i \in 1 .. repoSeq, patch \in Patches :
                \/ /\ ReposWithId(i) = {}
                   /\ pt' = [pt EXCEPT ![p] = [pc |-> "404", patch |-> patch, row |-> NoRow]]
                \/ \E r \in ReposWithId(i) :
                      pt' = [pt EXCEPT ![p] = [pc |-> "put", patch |-> patch, row |-> r]]
          /\ NoFault
       \/ /\ UpdateAnswer(p, "500")
          /\ Fault
    /\ UNCHANGED <<storeVars, dirVars, cr, dl>>

Patched(row, patch) ==
    [row EXCEPT !.keepCount = IF patch.keepCount = Unset THEN @ ELSE patch.keepCount,
                !.keepDays = IF patch.keepDays = Unset THEN @ ELSE patch.keepDays]

\* repoStore.Update of the copy that Get returned, 211-237.
UpdatePut(p) ==
    /\ pt[p].pc = "put"
    /\ \/ /\ RepoUpdate(Patched(pt[p].row, pt[p].patch))
          /\ UpdateAnswer(p, "200")
          /\ NoFault
       \/ /\ IF RepoUpdatable(pt[p].row) THEN Fault ELSE NoFault
          /\ UpdateAnswer(p, "500")
          /\ UNCHANGED storeVars
    /\ UNCHANGED <<dirVars, cr, dl>>

-----------------------------------------------------------------------------
(* deleteRepoHandler, 240-283. *)

DeleteAnswer(d, status) ==
    dl' = [dl EXCEPT ![d] = [pc |-> status, id |-> dl[d].id, name |-> dl[d].name,
                             entries |-> {}]]

\* repoStore.Get, 242-260.
DeleteGet(d) ==
    /\ dl[d].pc = "idle"
    /\ \/ /\ \E i \in 1 .. repoSeq :
                \/ /\ ReposWithId(i) = {}
                   /\ DeleteAnswer(d, "404")
                \/ \E r \in ReposWithId(i) :
                      dl' = [dl EXCEPT ![d] = [pc |-> "rows", id |-> i, name |-> r.name,
                                               entries |-> {}]]
          /\ NoFault
       \/ /\ DeleteAnswer(d, "500")
          /\ Fault
    /\ UNCHANGED <<storeVars, dirVars, cr, pt>>

\* artifactStore.DeleteByRepo, 262-266.
DeleteRows(d) ==
    /\ dl[d].pc = "rows"
    /\ \/ /\ ArtifactDeleteByRepo(dl[d].id)
          /\ dl' = [dl EXCEPT ![d].pc = "row"]
          /\ NoFault
       \/ /\ DeleteAnswer(d, "500")
          /\ Fault
          /\ UNCHANGED storeVars
    /\ UNCHANGED <<dirVars, cr, pt>>

\* repoStore.Delete, 268-272: refused if an artifact was added since.
DeleteRow(d) ==
    /\ dl[d].pc = "row"
    /\ \/ /\ RepoDelete(dl[d].id)
          /\ dl' = [dl EXCEPT ![d].pc = "list"]
          /\ NoFault
       \/ /\ IF RepoDeletable(dl[d].id) THEN Fault ELSE NoFault
          /\ DeleteAnswer(d, "500")
          /\ UNCHANGED storeVars
    /\ UNCHANGED <<dirVars, cr, pt>>

\* Mutant: the rows are gone and that is all.
DeleteListMutant(d) ==
    /\ dl[d].pc = "list"
    /\ DeleteAnswer(d, "200")
    /\ NoFault
    /\ UNCHANGED <<storeVars, dirVars, cr, pt>>

\* os.RemoveAll, 274: it removes an empty directory at once, and lists any
\* other one.
DeleteList(d) ==
    /\ dl[d].pc = "list"
    /\ IF Entries(dl[d].name) = {}
       THEN DeleteAnswer(d, "200")
       ELSE dl' = [dl EXCEPT ![d] = [pc |-> "unlink", id |-> dl[d].id, name |-> dl[d].name,
                                     entries |-> Entries(dl[d].name)]]
    /\ RemoveDir(dl[d].name)
    /\ NoFault
    /\ UNCHANGED <<storeVars, cr, pt>>

\* os.RemoveAll goes on: it unlinks what it listed, one entry at a time.
DeleteUnlink(d) ==
    /\ dl[d].pc = "unlink"
    /\ \E e \in dl[d].entries :
          /\ Unlink(dl[d].name, e)
          /\ dl' = [dl EXCEPT ![d].entries = @ \ {e}]
    /\ NoFault
    /\ UNCHANGED <<storeVars, cr, pt>>

\* os.RemoveAll ends, 275-281: it removes the directory and fails if somebody
\* has put a file into it since the listing.
DeleteRmdir(d) ==
    /\ dl[d].pc = "unlink"
    /\ dl[d].entries = {}
    /\ RemoveDir(dl[d].name)
    /\ DeleteAnswer(d, IF Entries(dl[d].name) = {} THEN "200" ELSE "500")
    /\ NoFault
    /\ UNCHANGED <<storeVars, cr, pt>>

\* A system call of os.RemoveAll fails, 275-279.
DeleteRemoveFails(d) ==
    /\ dl[d].pc \in {"list", "unlink"}
    /\ DeleteAnswer(d, "500")
    /\ Fault
    /\ UNCHANGED <<storeVars, dirVars, cr, pt>>

-----------------------------------------------------------------------------

CreateStep(c) == CreateMkdir(c) \/ CreateInsert(c) \/ CreateRmdir(c)

UpdateStep(p) == UpdateGet(p) \/ UpdatePut(p)

DeleteStep(d) ==
    \/ DeleteGet(d)
    \/ DeleteRows(d)
    \/ DeleteRow(d)
    \/ DeleteList(d)
    \/ DeleteUnlink(d)
    \/ DeleteRmdir(d)
    \/ DeleteRemoveFails(d)

\* The process is gone, and the requests in flight with it.
AdminCrash ==
    /\ cr' = [c \in CreateReq |->
                 IF cr[c].pc \in AdminAnswered THEN cr[c]
                 ELSE [pc |-> "lost", name |-> cr[c].name, policy |-> NoPolicy]]
    /\ pt' = [p \in UpdateReq |->
                 IF pt[p].pc \in AdminAnswered THEN pt[p]
                 ELSE [pc |-> "lost", patch |-> pt[p].patch, row |-> NoRow]]
    /\ dl' = [d \in DeleteReq |->
                 IF dl[d].pc \in AdminAnswered THEN dl[d]
                 ELSE [pc |-> "lost", id |-> dl[d].id, name |-> dl[d].name, entries |-> {}]]
=============================================================================
