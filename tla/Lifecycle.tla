------------------------------ MODULE Lifecycle ------------------------------
(***************************************************************************)
(* The life of "artf serve" processes on one data directory: how a process *)
(* comes up (cmd/serve.go, NewAdminServer), what it serves, and how it     *)
(* goes down, in an orderly way, through an error of a listener or by      *)
(* being killed.  The next process finds what the last one left: a socket  *)
(* file nobody listens on, and records whose files are gone.               *)
(*                                                                         *)
(* Requests are in flight or not; what their handlers do is in the other   *)
(* modules.  Of the cleaner (cleanup.go) there is what its context and the *)
(* closing of the database touch: the loops over repositories and over the *)
(* expired artifacts of one.                                               *)
(***************************************************************************)
EXTENDS Environment

CONSTANTS
    Process,        \* runs of "artf serve"
    NoProcess,
    Port,           \* addresses to listen on
    PortOf,         \* the address each process is told to listen on
    ApiReq,         \* requests to the API server
    AdminReq,       \* requests to the admin server
    Expired,        \* artifacts that the policies give up
    RepoOf,         \* the repository of each
    NoItem

ASSUME LifecycleAssumption ==
    /\ NoProcess \notin Process
    /\ NoItem \notin Expired
    /\ PortOf \in [Process -> Port]
    /\ ApiReq \intersect AdminReq = {}
    /\ DOMAIN RepoOf = Expired

VARIABLES
    proc,       \* the state of each process, and why it ended
    socket,     \* the process that bound the file artf.sock, NoProcess without the file
    bound,      \* the process that listens on each port
    signalled,  \* processes with a signal in their channel stop
    rq,         \* the state of each request and the process that has it
    cleaner,    \* the state of each process's cleaner goroutine
    filed,      \* expired artifacts that have their file
    recorded,   \* expired artifacts that have their record
    overlap     \* history: a process was started while another one ran

serveVars == <<proc, socket, bound, signalled, overlap>>

dataVars == <<filed, recorded>>

vars == <<envVars, serveVars, rq, cleaner, dataVars>>

Request == ApiReq \union AdminReq

Repository == {RepoOf[a] : a \in Expired}

(***************************************************************************)
(* stat, remove, bind: in NewAdminServer; listen: in getListener; closing: *)
(* in adminServer.Close; draining: in srv.Shutdown; returned, cancelled,   *)
(* closed: the deferred calls of RunE.                                     *)
(***************************************************************************)
ProcessState == [pc : {"off", "stat", "remove", "bind", "listen", "serving", "closing",
                       "draining", "returned", "cancelled", "closed", "gone"},
                 cause : {"none", "socket", "port", "accept", "stop", "timeout", "killed"}]

RequestState == [pc : {"idle", "active", "answered", "failed", "cut", "refused"},
                 by : Process \union {NoProcess}]

\* off: the goroutine does not run; repo: between two repositories of a pass;
\* file, record: in the loop of cleanRepo, record when it has removed the file
\* of item; wait: at the ticker.
CleanerState == [pc : {"off", "repo", "file", "record", "wait"},
                 queue : SUBSET Repository, todo : SUBSET Expired,
                 item : Expired \union {NoItem}]

LifecycleTypeOK ==
    /\ EnvironmentTypeOK
    /\ proc \in [Process -> ProcessState]
    /\ socket \in Process \union {NoProcess}
    /\ bound \in [Port -> Process \union {NoProcess}]
    /\ signalled \subseteq Process
    /\ overlap \in BOOLEAN
    /\ rq \in [Request -> RequestState]
    /\ cleaner \in [Process -> CleanerState]
    /\ filed \subseteq Expired
    /\ recorded \subseteq Expired

CleanerOff == [pc |-> "off", queue |-> {}, todo |-> {}, item |-> NoItem]

CleanerPass == [CleanerOff EXCEPT !.pc = "repo", !.queue = Repository]

Init ==
    /\ EnvironmentInit
    /\ proc = [p \in Process |-> [pc |-> "off", cause |-> "none"]]
    /\ socket = NoProcess
    /\ bound = [a \in Port |-> NoProcess]
    /\ signalled = {}
    /\ overlap = FALSE
    /\ rq = [q \in Request |-> [pc |-> "idle", by |-> NoProcess]]
    /\ cleaner = [p \in Process |-> CleanerOff]
    /\ filed = Expired
    /\ recorded = Expired

-----------------------------------------------------------------------------

At(p, pc) == proc[p].pc = pc

Running(p) == proc[p].pc \notin {"off", "gone"}

DatabaseOpen(p) == Running(p) /\ ~ At(p, "closed")

\* cleanupCtx.Err() # nil.
Cancelled(p) == proc[p].pc \in {"cancelled", "closed"}

Goes(p, pc) == proc' = [proc EXCEPT ![p].pc = pc]

Ends(p, pc, cause) == proc' = [proc EXCEPT ![p] = [pc |-> pc, cause |-> cause]]

Active(p, Reqs) == {q \in Reqs : rq[q].pc = "active" /\ rq[q].by = p}

Cut(Reqs) == rq' = [q \in Request |-> IF q \in Reqs THEN [rq[q] EXCEPT !.pc = "cut"] ELSE rq[q]]

-----------------------------------------------------------------------------
(* Coming up: serve.go, 31-86. *)

\* The database is opened (module Migration), 42-46.
Start(p) ==
    /\ At(p, "off")
    /\ Goes(p, "stat")
    /\ overlap' = (overlap \/ \E o \in Process : Running(o))
    /\ NoFault
    /\ UNCHANGED <<socket, bound, signalled, rq, cleaner, dataVars>>

\* Mutant: a socket file that is there already stays.
StatSocketMutant(p) ==
    /\ At(p, "stat")
    /\ Goes(p, "bind")
    /\ NoFault
    /\ UNCHANGED <<socket, bound, signalled, overlap, rq, cleaner, dataVars>>

\* cleanSocket: os.Stat finds a file whoever has bound it.
StatSocket(p) ==
    /\ At(p, "stat")
    /\ Goes(p, IF socket = NoProcess THEN "bind" ELSE "remove")
    /\ NoFault
    /\ UNCHANGED <<socket, bound, signalled, overlap, rq, cleaner, dataVars>>

\* cleanSocket: os.Remove; an error, were the file gone by now, ends the
\* start with it.
RemoveSocket(p) ==
    /\ At(p, "remove")
    /\ IF socket = NoProcess THEN Ends(p, "returned", "socket") ELSE Goes(p, "bind")
    /\ socket' = NoProcess
    /\ NoFault
    /\ UNCHANGED <<bound, signalled, overlap, rq, cleaner, dataVars>>

\* Mutant: what is at the path is removed after the bind and not before it.
BindSocketMutant(p) ==
    /\ At(p, "bind")
    /\ Goes(p, "listen")
    /\ socket' = NoProcess
    /\ NoFault
    /\ UNCHANGED <<bound, signalled, overlap, rq, cleaner, dataVars>>

\* net.Listen("unix") fails on a path that exists.
BindSocket(p) ==
    /\ At(p, "bind")
    /\ IF socket = NoProcess
       THEN Goes(p, "listen") /\ socket' = p
       ELSE Ends(p, "returned", "socket") /\ UNCHANGED socket
    /\ NoFault
    /\ UNCHANGED <<bound, signalled, overlap, rq, cleaner, dataVars>>

\* getListener, 53-56, and the goroutines of the two servers and the cleaner,
\* 63-86.  A failure returns from RunE with the socket bound.
ListenPort(p) ==
    /\ At(p, "listen")
    /\ IF bound[PortOf[p]] = NoProcess
       THEN /\ Goes(p, "serving")
            /\ bound' = [bound EXCEPT ![PortOf[p]] = p]
            /\ cleaner' = [cleaner EXCEPT ![p] = CleanerPass]
       ELSE /\ Ends(p, "returned", "port")
            /\ UNCHANGED <<bound, cleaner>>
    /\ NoFault
    /\ UNCHANGED <<socket, signalled, overlap, rq, dataVars>>

-----------------------------------------------------------------------------
(* Serving. *)

\* A process that crashes through an error still accepts until it is gone.
Accepts(p) == At(p, "serving") \/ (Running(p) /\ proc[p].cause = "accept")

\* A client connects to the API's address, or to the socket file.
Connect(q, p) ==
    /\ rq[q].pc = "idle"
    /\ IF q \in ApiReq
       THEN bound[PortOf[p]] = p
       ELSE socket = p /\ Accepts(p)
    /\ rq' = [rq EXCEPT ![q] = [pc |-> "active", by |-> p]]
    /\ NoFault
    /\ UNCHANGED <<serveVars, cleaner, dataVars>>

\* Nobody listens at the socket file, or there is none.
Refuse(q) ==
    /\ rq[q].pc = "idle"
    /\ q \in AdminReq
    /\ \A p \in Process : socket = p => ~ Running(p)
    /\ rq' = [rq EXCEPT ![q].pc = "refused"]
    /\ NoFault
    /\ UNCHANGED <<serveVars, cleaner, dataVars>>

\* A handler comes to its end; every one asks the database on its way, and
\* answers 500 when that is closed.
Answer(q) ==
    /\ rq[q].pc = "active"
    /\ rq' = [rq EXCEPT ![q] = IF DatabaseOpen(@.by) THEN [pc |-> "answered", by |-> NoProcess]
                               ELSE [@ EXCEPT !.pc = "failed"]]
    /\ NoFault
    /\ UNCHANGED <<serveVars, cleaner, dataVars>>

\* RunOnce comes to the next repository of its pass, 66-77, the only place
\* where it looks at its context, and lists the artifacts, 89-95.
CleanRepo(p) ==
    /\ cleaner[p].pc = "repo"
    /\ \/ /\ Cancelled(p)
          /\ cleaner' = [cleaner EXCEPT ![p] = CleanerOff]
       \/ /\ ~ Cancelled(p)
          /\ cleaner[p].queue = {}
          /\ cleaner' = [cleaner EXCEPT ![p].pc = "wait"]
       \/ /\ ~ Cancelled(p)
          /\ \E r \in cleaner[p].queue :
                LET todo == {a \in recorded : RepoOf[a] = r}
                IN  cleaner' = [cleaner EXCEPT ![p].pc = IF todo = {} THEN "repo" ELSE "file",
                                               ![p].queue = @ \ {r}, ![p].todo = todo]
    /\ NoFault
    /\ UNCHANGED <<serveVars, rq, dataVars>>

\* Mutant: a missing file is an error, and its record stays.
CleanFileMutant(p, a) ==
    /\ cleaner[p].pc = "file"
    /\ a \in cleaner[p].todo
    /\ filed' = filed \ {a}
    /\ cleaner' = [cleaner EXCEPT ![p].todo = @ \ {a}, ![p].item = IF a \in filed THEN a ELSE @,
                                  ![p].pc = CASE a \in filed -> "record"
                                              [] cleaner[p].todo = {a} -> "repo"
                                              [] OTHER -> "file"]
    /\ NoFault
    /\ UNCHANGED <<serveVars, rq, recorded>>

\* removeFile, 126-135, whatever has become of the context; a file that is
\* missing already is as good as removed.
CleanFile(p, a) ==
    /\ cleaner[p].pc = "file"
    /\ a \in cleaner[p].todo
    /\ filed' = filed \ {a}
    /\ cleaner' = [cleaner EXCEPT ![p].pc = "record", ![p].item = a, ![p].todo = @ \ {a}]
    /\ NoFault
    /\ UNCHANGED <<serveVars, rq, recorded>>

\* artifacts.Delete, 137-142: an error, which a cancelled context or a closed
\* database is, is logged and the loop goes on.
CleanRecord(p) ==
    /\ cleaner[p].pc = "record"
    /\ recorded' = IF Cancelled(p) THEN recorded ELSE recorded \ {cleaner[p].item}
    /\ cleaner' = [cleaner EXCEPT ![p].pc = IF cleaner[p].todo = {} THEN "repo" ELSE "file",
                                  ![p].item = NoItem]
    /\ NoFault
    /\ UNCHANGED <<serveVars, rq, filed>>

\* Run, 46-54: the context is done, or the ticker starts another pass.
CleanerWakes(p) ==
    /\ cleaner[p].pc = "wait"
    /\ cleaner' = [cleaner EXCEPT ![p] = IF Cancelled(p) THEN CleanerOff ELSE CleanerPass]
    /\ NoFault
    /\ UNCHANGED <<serveVars, rq, dataVars>>

-----------------------------------------------------------------------------
(* Going down: serve.go, 88-117. *)

\* SIGINT or SIGTERM; the channel holds one, and a second one is dropped.
Signal(p) ==
    /\ At(p, "serving")
    /\ signalled' = signalled \union {p}
    /\ NoFault
    /\ UNCHANGED <<proc, socket, bound, overlap, rq, cleaner, dataVars>>

\* Serve of either server returns an error, 91-96: RunE returns it and closes
\* neither server.
ServeFails(p) ==
    /\ At(p, "serving")
    /\ Ends(p, "returned", "accept")
    /\ Fault
    /\ UNCHANGED <<socket, bound, signalled, overlap, rq, cleaner, dataVars>>

\* adminServer.Close, 101: srv.Close closes the listener, which unlinks the
\* path, and cuts the connections.
CloseAdmin(p) ==
    /\ At(p, "serving")
    /\ p \in signalled
    /\ Goes(p, "closing")
    /\ socket' = NoProcess
    /\ Cut(Active(p, AdminReq))
    /\ NoFault
    /\ UNCHANGED <<bound, signalled, overlap, cleaner, dataVars>>

\* adminServer.Close goes on with cleanSocket; an error is logged.  Then
\* srv.Shutdown closes the API's listener, 101-109.
CloseListeners(p) ==
    /\ At(p, "closing")
    /\ Goes(p, "draining")
    /\ socket' = NoProcess
    /\ bound' = [bound EXCEPT ![PortOf[p]] = NoProcess]
    /\ NoFault
    /\ UNCHANGED <<signalled, overlap, rq, cleaner, dataVars>>

\* Mutant: srv.Close in place of srv.Shutdown.
DrainedMutant(p) ==
    /\ At(p, "draining")
    /\ Ends(p, "returned", "stop")
    /\ NoFault
    /\ UNCHANGED <<socket, bound, signalled, overlap, rq, cleaner, dataVars>>

\* srv.Shutdown returns when no connection is active, 109-117.
Drained(p) ==
    /\ At(p, "draining")
    /\ Active(p, ApiReq) = {}
    /\ Ends(p, "returned", "stop")
    /\ NoFault
    /\ UNCHANGED <<socket, bound, signalled, overlap, rq, cleaner, dataVars>>

\* Mutant: context.Background() in place of the context with a timeout.
ShutdownTimeoutMutant(p) == FALSE /\ UNCHANGED vars

\* shutdownTimeout, 106-113: srv.Shutdown gives up and leaves the connections.
ShutdownTimeout(p) ==
    /\ At(p, "draining")
    /\ Active(p, ApiReq) # {}
    /\ Ends(p, "returned", "timeout")
    /\ NoFault
    /\ UNCHANGED <<socket, bound, signalled, overlap, rq, cleaner, dataVars>>

\* The deferred calls, last one first: cleanupCancel, 82, and db.Close, 46.
Deferred(p) ==
    /\ \/ At(p, "returned") /\ Goes(p, "cancelled")
       \/ At(p, "cancelled") /\ Goes(p, "closed")
    /\ NoFault
    /\ UNCHANGED <<socket, bound, signalled, overlap, rq, cleaner, dataVars>>

\* The process ends, and with it its goroutines, listeners and connections;
\* the socket file stays.
EndProcess(p, cause) ==
    /\ Ends(p, "gone", cause)
    /\ bound' = [a \in Port |-> IF bound[a] = p THEN NoProcess ELSE bound[a]]
    /\ Cut(Active(p, Request))
    /\ cleaner' = [cleaner EXCEPT ![p] = CleanerOff]
    /\ signalled' = signalled \ {p}
    /\ UNCHANGED <<socket, overlap, dataVars>>

Exit(p) ==
    /\ At(p, "closed")
    /\ EndProcess(p, proc[p].cause)
    /\ NoFault

Kill(p) ==
    /\ Running(p)
    /\ EndProcess(p, "killed")
    /\ Fault

-----------------------------------------------------------------------------

Stop(p) ==
    \/ CloseAdmin(p)
    \/ CloseListeners(p)
    \/ Drained(p)
    \/ ShutdownTimeout(p)
    \/ Deferred(p)
    \/ Exit(p)

Cleans(p) ==
    \/ CleanRepo(p)
    \/ \E a \in Expired : CleanFile(p, a)
    \/ CleanRecord(p)
    \/ CleanerWakes(p)

Next ==
    \/ \E p \in Process : Start(p)
    \/ \E p \in Process : StatSocket(p)
    \/ \E p \in Process : RemoveSocket(p)
    \/ \E p \in Process : BindSocket(p)
    \/ \E p \in Process : ListenPort(p)
    \/ \E q \in Request, p \in Process : Connect(q, p)
    \/ \E q \in Request : Refuse(q)
    \/ \E q \in Request : Answer(q)
    \/ \E p \in Process : Cleans(p)
    \/ \E p \in Process : Signal(p)
    \/ \E p \in Process : ServeFails(p)
    \/ \E p \in Process : Stop(p)
    \/ \E p \in Process : Kill(p)

Spec == Init /\ [][Next]_vars

\* The runtime schedules the goroutines of a process, and timers fire.  That
\* clients and handlers go on, or anybody starts a process, is not assumed.
Fairness == \A p \in Process : WF_vars(Stop(p)) /\ WF_vars(Cleans(p))

FairSpec == Spec /\ Fairness

-----------------------------------------------------------------------------

\* An orderly stop loses no request to the API: one that was in flight is
\* answered, and from an open database.  Only a process that was killed, that
\* lost a listener or that ran into the shutdown timeout leaves one cut off or
\* in front of a closed database (serve.go:46, 106-113).
StopLosesNoRequest ==
    \A q \in ApiReq : rq[q].pc \in {"cut", "failed"} =>
        proc[rq[q].by].cause \in {"killed", "accept", "timeout"}

\* Processes that follow one another come up whatever the last one left: a
\* stale socket file is nobody's, and the port is free (server.go:31).
StartsAfterAnyEnd ==
    ~ overlap => \A p \in Process : proc[p].cause \notin {"socket", "port"}

\* ... and while one of them serves, the socket file is its own: commands
\* reach the process that has the data directory (server.go:31-38, 85-97).
AdminReachable ==
    ~ overlap => \A p \in Process : At(p, "serving") => socket = p

\* A process told to stop is gone in the end, with a client that never
\* finishes and a cleaner in the middle of a pass (serve.go:88-117).
StopEnds == \A p \in Process : (At(p, "serving") /\ p \in signalled) ~> At(p, "gone")

\* What the policies give up goes as long as a process serves, also a record
\* whose file went when the context was cancelled, the database closed or the
\* process killed before the record (serve.go:46, cleanup.go:126-141).
ExpiredGo ==
    \A p \in Process, a \in Expired :
        (At(p, "serving") /\ a \in recorded) ~> (a \notin recorded \/ ~ At(p, "serving"))
=============================================================================
