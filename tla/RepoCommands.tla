---------------------------- MODULE RepoCommands ----------------------------
(***************************************************************************)
(* The administrator's commands "artf repo new", "edit", "rm" and "info",  *)
(* cmd/repo_*.go, and the client they share, admin/client.go.  A command   *)
(* lists the repositories, lets the administrator choose and confirm for   *)
(* as long as he likes, sends one request about what he chose, and reports *)
(* its answer, or an error when five seconds have passed: the handler may  *)
(* then still be at work, and from then on fail for a cancelled context.   *)
(* Several commands run at the same time, next to uploads; a command that  *)
(* is repeated is another one.                                             *)
(*                                                                         *)
(* A command sends one request at most and lends it its name.  Names that  *)
(* read as numbers, which "edit" takes for ids first, are left out.        *)
(***************************************************************************)
EXTENDS UploadHandler, RepoHandlers

CONSTANTS
    Command,        \* runs of a command
    Existing        \* the repositories there are at the start

ASSUME CommandsAssumption ==
    /\ Command = CreateReq
    /\ Command = UpdateReq
    /\ Command = DeleteReq
    /\ Existing \subseteq RepoName
    /\ IsFiniteSet(Existing)
    /\ Cardinality(Existing) <= MaxRowId
    /\ Policies = Policy
    /\ Patches = Policy

VARIABLE
    cmd     \* the state of each command

vars == <<envVars, storeVars, dirVars, up, adminVars, cmd>>

Op == {"new", "edit", "rm", "info"}

(***************************************************************************)
(* shown: the list it got; repo: the one that was chosen from it; name,    *)
(* policy: what it asks for.  timeout: the client gave up; ended: an       *)
(* error, or there was nothing to do.                                      *)
(***************************************************************************)
CommandState == [pc : {"idle", "choose", "sent", "timeout", "ok", "ended"},
                 op : Op, shown : SUBSET Repo, repo : Repo \union {NoRow},
                 name : RepoName \union {NoName}, policy : Policy \union {NoPolicy}]

\* No command yet, or one that sends nothing any more.
Nothing(pc) ==
    [pc |-> pc, op |-> "info", shown |-> {}, repo |-> NoRow, name |-> NoName,
     policy |-> NoPolicy]

CommandTypeOK ==
    /\ EnvironmentTypeOK
    /\ StoreTypeOK
    /\ DataDirTypeOK
    /\ UploadTypeOK
    /\ AdminTypeOK
    /\ cmd \in [Command -> CommandState]

\* The repositories that there are at the start are empty and keep everything.
CommandInit ==
    /\ EnvironmentInit
    /\ \E id \in [Existing -> 1 .. Cardinality(Existing)], p \in Policy :
          /\ \A m, n \in Existing : id[m] = id[n] => m = n
          /\ repos = {[id |-> id[n], name |-> n, keepCount |-> p.keepCount,
                       keepDays |-> p.keepDays] : n \in Existing}
    /\ repoSeq = Cardinality(Existing)
    /\ artifacts = {}
    /\ artifactSeq = 0
    /\ DataDirInit(Existing)
    /\ UploadInit
    /\ AdminInit
    /\ cmd = [c \in Command |-> Nothing("idle")]

serverVars == <<storeVars, dirVars, up, adminVars>>

-----------------------------------------------------------------------------
(* Before the request. *)

\* listReposHandler, 17-55: every row, with a count of its artifacts.
ListedRepos == repos

\* The command ends before it has sent a request: the server cannot be
\* reached, or nothing is to be done.
GivesUp(c) == cmd' = [cmd EXCEPT ![c] = Nothing("ended")]

\* initAdminClient's ping, and ListRepos.
ListRepos(c) ==
    /\ cmd[c].pc = "idle"
    /\ \/ \E op \in Op :
             cmd' = [cmd EXCEPT ![c].pc = "choose", ![c].op = op, ![c].shown = ListedRepos]
       \/ GivesUp(c)
    /\ NoFault
    /\ UNCHANGED serverVars

\* The request goes out, about repository r of the list: client.go, 189-203.
Sends(c, r, name, policy) ==
    cmd' = [cmd EXCEPT ![c] = [pc |-> "sent", op |-> cmd[c].op, shown |-> {}, repo |-> r,
                               name |-> name, policy |-> policy]]

\* repo new: the name is checked against the list.
ChooseNew(c) ==
    /\ cmd[c].pc = "choose"
    /\ cmd[c].op = "new"
    /\ \E n \in RepoName, p \in Policy :
          /\ \A r \in cmd[c].shown : r.name # n
          /\ Sends(c, NoRow, n, p)
    /\ NoFault
    /\ UNCHANGED serverVars

\* repo edit: each setting comes from its flag, or from a prompt that starts
\* with the value shown; both are sent.
ChooseEdit(c) ==
    /\ cmd[c].pc = "choose"
    /\ cmd[c].op = "edit"
    /\ \E r \in cmd[c].shown, p \in Policy : Sends(c, r, r.name, p)
    /\ NoFault
    /\ UNCHANGED serverVars

\* repo rm: the argument is an id, or one is chosen; then the confirmation.
ChooseRm(c) ==
    /\ cmd[c].pc = "choose"
    /\ cmd[c].op = "rm"
    /\ \E r \in cmd[c].shown : Sends(c, r, r.name, NoPolicy)
    /\ NoFault
    /\ UNCHANGED serverVars

\* The name is taken, no repository is denoted by the argument, the
\* confirmation is refused, the server is not reached; or the command is repo
\* info, whose request and answer change nothing.
ChooseNone(c) ==
    /\ cmd[c].pc = "choose"
    /\ GivesUp(c)
    /\ NoFault
    /\ UNCHANGED serverVars

-----------------------------------------------------------------------------
(* The request: client.go, 189-220.                                        *)

\* A request that is out reaches its handler, also after the client gave up.
Out(c) == cmd[c].pc \in {"sent", "timeout"}

BeginCreate(c) ==
    /\ Out(c)
    /\ cmd[c].op = "new"
    /\ CreateMkdir(c)
    /\ cr'[c].pc = "insert" => cr'[c].name = cmd[c].name /\ cr'[c].policy = cmd[c].policy

BeginUpdate(c) ==
    /\ Out(c)
    /\ cmd[c].op = "edit"
    /\ UpdateGet(c)
    /\ pt'[c].pc \in {"put", "404"} => pt'[c].patch = cmd[c].policy
    /\ pt'[c].pc = "put" => pt'[c].row.id = cmd[c].repo.id
    /\ pt'[c].pc = "404" => ReposWithId(cmd[c].repo.id) = {}

BeginDelete(c) ==
    /\ Out(c)
    /\ cmd[c].op = "rm"
    /\ DeleteGet(c)
    /\ dl'[c].pc = "rows" => dl'[c].id = cmd[c].repo.id
    /\ dl'[c].pc = "404" => ReposWithId(cmd[c].repo.id) = {}

Status(c) ==
    CASE cmd[c].op = "new" -> cr[c].pc
      [] cmd[c].op = "edit" -> pt[c].pc
      [] cmd[c].op = "rm" -> dl[c].pc

Answered(c) == Status(c) \in AdminAnswered \ {"idle"}

\* Mutant: the status is not looked at.
ReplyMutant(c) ==
    /\ cmd[c].pc = "sent"
    /\ Answered(c)
    /\ cmd' = [cmd EXCEPT ![c].pc = IF Status(c) = "lost" THEN "ended" ELSE "ok"]
    /\ NoFault
    /\ UNCHANGED serverVars

\* The answer: anything but 200 is an error, and so is a connection that
\* breaks.
Reply(c) ==
    /\ cmd[c].pc = "sent"
    /\ Answered(c)
    /\ cmd' = [cmd EXCEPT ![c].pc = IF Status(c) = "200" THEN "ok" ELSE "ended"]
    /\ NoFault
    /\ UNCHANGED serverVars

\* controlSocketTimeout, 18: whatever the handler is doing.
Timeout(c) ==
    /\ cmd[c].pc = "sent"
    /\ cmd' = [cmd EXCEPT ![c].pc = "timeout"]
    /\ NoFault
    /\ UNCHANGED serverVars

-----------------------------------------------------------------------------

CommandStep(c) ==
    \/ ListRepos(c)
    \/ ChooseNew(c)
    \/ ChooseEdit(c)
    \/ ChooseRm(c)
    \/ ChooseNone(c)
    \/ Reply(c)
    \/ Timeout(c)

HandlerStep(c) ==
    /\ \/ BeginCreate(c)
       \/ BeginUpdate(c)
       \/ BeginDelete(c)
       \/ cr[c].pc # "idle" /\ CreateStep(c)
       \/ pt[c].pc # "idle" /\ UpdateStep(c)
       \/ dl[c].pc # "idle" /\ DeleteStep(c)
    /\ UNCHANGED <<up, cmd>>

\* The server is killed, and started again; requests that have not reached
\* their handler are gone too.
ServerCrash ==
    /\ UploadCrash
    /\ AdminCrash
    /\ cmd' = [c \in Command |-> IF Out(c) /\ Status(c) = "idle"
                                  THEN Nothing("ended") ELSE cmd[c]]
    /\ Fault
    /\ UNCHANGED <<storeVars, dirVars>>

CommandNext ==
    \/ \E c \in Command : CommandStep(c)
    \/ \E c \in Command : HandlerStep(c)
    \/ \E u \in Upload : UploadStep(u) /\ UNCHANGED <<adminVars, cmd>>
    \/ ServerCrash

CommandSpec == CommandInit /\ [][CommandNext]_vars

-----------------------------------------------------------------------------

RowsOf(c) == {r \in repos : r.id = cmd[c].repo.id}

\* The command has sent its request, of this kind.
Asked(c, op) == cmd[c].op = op /\ cmd[c].pc \notin {"idle", "choose"}

\* A repository goes only because somebody was shown it, under the name that
\* it has, and sent its deletion, however long ago he saw it, and whatever was
\* deleted and created since (repo_rm.go:44-95, migrations.go: AUTOINCREMENT).
RemovesWhatWasShown ==
    [][\A r \in repos : (\A s \in repos' : s.id # r.id) =>
           \E c \in Command :
               Asked(c, "rm") /\ cmd[c].repo.id = r.id /\ cmd[c].repo.name = r.name]_vars

\* A repository appears only as somebody asked "repo new" for it; an edit that
\* meets a deletion does not bring one back (repo_new.go:134,
\* repo_handler.go:184-222).
AddsWhatWasAsked ==
    [][\A s \in repos' : (\A r \in repos : r.id # s.id) =>
           \E c \in Command :
               /\ Asked(c, "new")
               /\ cmd[c].name = s.name
               /\ cmd[c].policy = [keepCount |-> s.keepCount, keepDays |-> s.keepDays]]_vars

\* What a command reports as done is done: after "Repo deleted" the repository
\* and its artifacts are gone for good, after "created" or "updated" it is
\* there until somebody has it deleted.  Of an error nothing follows
\* (client.go:206-213).
SuccessMeansDone ==
    \A c \in Command : cmd[c].pc = "ok" =>
        CASE cmd[c].op = "rm" -> RowsOf(c) = {} /\ ArtifactsOf(cmd[c].repo.id) = {}
          [] cmd[c].op \in {"new", "edit"} ->
                 \/ ReposNamed(cmd[c].name) # {}
                 \/ \E d \in Command : Asked(d, "rm") /\ cmd[d].name = cmd[c].name
          [] OTHER -> TRUE

\* Of the commands that create a repository of one name, from lists that show
\* none, one succeeds, unless it is deleted in between (repo_new.go:56).
CreatedOnce ==
    \A c, d \in Command :
        (/\ cmd[c].pc = "ok" /\ cmd[c].op = "new"
         /\ cmd[d].pc = "ok" /\ cmd[d].op = "new"
         /\ cmd[c].name = cmd[d].name
         /\ \A e \in Command : ~ (Asked(e, "rm") /\ cmd[e].name = cmd[c].name))
            => c = d
=============================================================================
