--------------------------- MODULE LifecycleProofs ---------------------------
(***************************************************************************)
(* Proofs about Lifecycle, for any number of processes, ports, requests    *)
(* and artifacts.                                                          *)
(*                                                                         *)
(* That a stop loses no request rests on where a process can be while it   *)
(* has one, and on the reason for which it is there (RequestInv,           *)
(* CauseInv); that a process comes up after any end of the last one, on    *)
(* its being alone with the socket file from the moment at which it looked *)
(* for one (AloneInv), and on who may hold a port (PortInv).               *)
(***************************************************************************)
EXTENDS Lifecycle, TLAPS

Over == {"returned", "cancelled", "closed", "gone"}

\* Who listens on a port runs, and serves or has failed to go on serving.
PortInv ==
    \A a \in Port : bound[a] # NoProcess =>
        /\ Running(bound[a])
        /\ PortOf[bound[a]] = a
        /\ proc[bound[a]].pc \in {"serving", "closing"} \/ proc[bound[a]].cause = "accept"

\* A process that has a request runs; one to the API has outlived the listener
\* only in a process that drains or that left it on its way out.
RequestInv ==
    \A q \in Request :
        /\ rq[q].pc \in {"active", "failed", "cut"} => rq[q].by \in Process
        /\ rq[q].pc = "active" => Running(rq[q].by)
        /\ q \in ApiReq /\ rq[q].pc = "active" =>
               \/ proc[rq[q].by].pc \in {"serving", "closing", "draining"}
               \/ proc[rq[q].by].cause \in {"accept", "timeout"}

\* A process has a reason to end once it is on its way out.
CauseInv == \A p \in Process : proc[p].pc \notin Over => proc[p].cause = "none"

\* A process that never met another one had the socket file for itself.
AloneInv ==
    ~ overlap =>
        /\ \A p, o \in Process : Running(p) /\ Running(o) => p = o
        /\ \A p \in Process :
               /\ At(p, "bind") => socket = NoProcess
               /\ At(p, "remove") => socket # NoProcess
               /\ proc[p].pc \in {"listen", "serving"} => socket = p
               /\ proc[p].cause \notin {"socket", "port"}

LifeInv ==
    /\ LifecycleTypeOK
    /\ PortInv
    /\ RequestInv
    /\ CauseInv
    /\ StopLosesNoRequest
    /\ AloneInv

-----------------------------------------------------------------------------

LEMMA CleanerStates == CleanerOff \in CleanerState /\ CleanerPass \in CleanerState
  BY DEF CleanerOff, CleanerPass, CleanerState

LEMMA InitInv == Init => LifeInv
  <1> SUFFICES ASSUME Init PROVE LifeInv
    OBVIOUS
  <1>1. LifecycleTypeOK
    <2>1. EnvironmentTypeOK
      BY EnvironmentAssumption, ClockAssumption
      DEF Init, EnvironmentInit, EnvironmentTypeOK, Instant
    <2>2. overlap \in BOOLEAN
      BY Zenon DEF Init
    <2>3. cleaner \in [Process -> CleanerState]
      BY CleanerStates DEF Init
    <2> QED
      BY <2>1, <2>2, <2>3 DEF Init, LifecycleTypeOK, ProcessState, RequestState
  <1>2. PortInv /\ RequestInv /\ CauseInv /\ StopLosesNoRequest
    BY DEF Init, PortInv, RequestInv, CauseInv, StopLosesNoRequest, Request
  <1>3. AloneInv
    BY DEF Init, AloneInv, Running, At
  <1> QED
    BY <1>1, <1>2, <1>3 DEF LifeInv

LEMMA EnvironmentStep ==
  ASSUME EnvironmentTypeOK, Fault \/ NoFault
  PROVE  EnvironmentTypeOK'
  BY EnvironmentAssumption DEF EnvironmentTypeOK, Fault, NoFault, envVars

\* A step that leaves the processes where they are.
LEMMA QuietStep ==
  ASSUME LifeInv, UNCHANGED <<proc, socket, bound, overlap>>
  PROVE  PortInv' /\ CauseInv' /\ AloneInv'
  <1>1. PortInv' /\ CauseInv'
    BY DEF LifeInv, PortInv, CauseInv, Running
  <1>2. AloneInv'
    BY DEF LifeInv, AloneInv, Running, At
  <1> QED
    BY <1>1, <1>2

\* ... and the requests.
LEMMA QuietRequests ==
  ASSUME LifeInv, UNCHANGED <<proc, rq>>
  PROVE  RequestInv' /\ StopLosesNoRequest'
  BY DEF LifeInv, RequestInv, StopLosesNoRequest, Running

-----------------------------------------------------------------------------
(* The cleaner, and clients. *)

LEMMA CleansStep ==
  ASSUME LifeInv, NEW p \in Process, Cleans(p)
  PROVE  LifeInv'
  <1>1. UNCHANGED <<serveVars, rq>> /\ NoFault
    BY DEF Cleans, CleanRepo, CleanFile, CleanRecord, CleanerWakes
  <1>2. cleaner' \in [Process -> CleanerState]
    <2> USE DEF LifeInv, LifecycleTypeOK
    <2>1. CASE CleanRepo(p)
      <3>1. CASE cleaner' = [cleaner EXCEPT ![p] = CleanerOff]
        BY <3>1, CleanerStates
      <3>2. CASE cleaner' = [cleaner EXCEPT ![p].pc = "wait"]
        BY <3>2 DEF CleanerState
      <3>3. ASSUME NEW pc \in {"repo", "file"}, NEW r \in cleaner[p].queue,
                   NEW todo \in SUBSET Expired,
                   cleaner' = [cleaner EXCEPT ![p].pc = pc, ![p].queue = @ \ {r}, ![p].todo = todo]
            PROVE  cleaner' \in [Process -> CleanerState]
        BY <3>3 DEF CleanerState
      <3>4. ASSUME NEW r \in cleaner[p].queue
            PROVE  {a \in recorded : RepoOf[a] = r} \in SUBSET Expired
        OBVIOUS
      <3> QED
        BY <2>1, <3>1, <3>2, <3>3, <3>4 DEF CleanRepo
    <2>2. ASSUME NEW a \in Expired, CleanFile(p, a)
          PROVE  cleaner' \in [Process -> CleanerState]
      BY <2>2 DEF CleanFile, CleanerState
    <2>3. CASE CleanRecord(p)
      <3>1. ASSUME NEW pc \in {"repo", "file"},
                   cleaner' = [cleaner EXCEPT ![p].pc = pc, ![p].item = NoItem]
            PROVE  cleaner' \in [Process -> CleanerState]
        BY <3>1 DEF CleanerState
      <3> QED
        BY <2>3, <3>1 DEF CleanRecord
    <2>4. CASE CleanerWakes(p)
      BY <2>4, CleanerStates DEF CleanerWakes
    <2> QED
      BY <2>1, <2>2, <2>3, <2>4 DEF Cleans
  <1>3. filed' \subseteq Expired /\ recorded' \subseteq Expired
    BY DEF Cleans, CleanRepo, CleanFile, CleanRecord, CleanerWakes, dataVars, LifeInv,
           LifecycleTypeOK
  <1>4. LifecycleTypeOK'
    BY <1>1, <1>2, <1>3, EnvironmentStep DEF LifeInv, LifecycleTypeOK, serveVars
  <1> QED
    BY <1>1, <1>4, QuietStep, QuietRequests DEF LifeInv, serveVars

LEMMA SignalStep ==
  ASSUME LifeInv, NEW p \in Process, Signal(p)
  PROVE  LifeInv'
  <1>1. LifecycleTypeOK'
    BY EnvironmentStep DEF LifeInv, LifecycleTypeOK, Signal, dataVars
  <1> QED
    BY <1>1, QuietStep, QuietRequests DEF LifeInv, Signal

LEMMA ConnectStep ==
  ASSUME LifeInv, NEW q \in Request, NEW p \in Process, Connect(q, p)
  PROVE  LifeInv'
  <1> USE DEF Connect
  <1>1. LifecycleTypeOK'
    BY EnvironmentStep DEF LifeInv, LifecycleTypeOK, RequestState, serveVars, dataVars
  <1>2. RequestInv'
    <2>1. Running(p)
      BY LifecycleAssumption DEF LifeInv, PortInv, LifecycleTypeOK, Accepts, Running, At
    <2>2. q \in ApiReq => proc[p].pc \in {"serving", "closing"} \/ proc[p].cause = "accept"
      BY LifecycleAssumption DEF LifeInv, PortInv
    <2> QED
      BY <2>1, <2>2 DEF LifeInv, LifecycleTypeOK, RequestInv, RequestState, Running, serveVars
  <1>3. StopLosesNoRequest'
    BY DEF LifeInv, LifecycleTypeOK, StopLosesNoRequest, Request, serveVars
  <1> QED
    BY <1>1, <1>2, <1>3, QuietStep DEF LifeInv, serveVars

LEMMA RefuseStep ==
  ASSUME LifeInv, NEW q \in Request, Refuse(q)
  PROVE  LifeInv'
  <1> USE DEF Refuse
  <1>1. LifecycleTypeOK'
    BY EnvironmentStep DEF LifeInv, LifecycleTypeOK, RequestState, serveVars, dataVars
  <1>2. RequestInv' /\ StopLosesNoRequest'
    BY DEF LifeInv, LifecycleTypeOK, RequestInv, StopLosesNoRequest, Request, Running, serveVars
  <1> QED
    BY <1>1, <1>2, QuietStep DEF LifeInv, serveVars

LEMMA AnswerStep ==
  ASSUME LifeInv, NEW q \in Request, Answer(q)
  PROVE  LifeInv'
  <1> USE DEF Answer
  <1>1. LifecycleTypeOK'
    BY EnvironmentStep DEF LifeInv, LifecycleTypeOK, RequestState, serveVars, dataVars
  <1>2. RequestInv'
    BY DEF LifeInv, LifecycleTypeOK, RequestInv, RequestState, Running, serveVars
  <1>3. StopLosesNoRequest'
    <2>1. \/ rq'[q].pc = "answered"
          \/ rq'[q].pc = "failed" /\ rq'[q].by = rq[q].by /\ ~ DatabaseOpen(rq[q].by)
      BY DEF LifeInv, LifecycleTypeOK, RequestState
    <2>2. rq'[q].pc = "failed" /\ q \in ApiReq =>
              proc[rq[q].by].cause \in {"accept", "timeout"}
      BY <2>1 DEF LifeInv, RequestInv, DatabaseOpen, At
    <2>3. \A o \in Request \ {q} : rq'[o] = rq[o]
      BY DEF LifeInv, LifecycleTypeOK
    <2> QED
      BY <2>1, <2>2, <2>3 DEF LifeInv, StopLosesNoRequest, Request, serveVars
  <1> QED
    BY <1>1, <1>2, <1>3, QuietStep DEF LifeInv, serveVars

-----------------------------------------------------------------------------
(* A process moves on. *)

\* What the moves of a process p have in common: it goes on running, has a
\* reason once it is on its way out and sticks to it, and leaves a request to
\* the API behind for two reasons only.
Moves(p, new) ==
    /\ proc' = [proc EXCEPT ![p] = new]
    /\ new \in ProcessState
    /\ new.pc \notin {"off", "gone"}
    /\ new.pc \notin Over => new.cause = "none"
    /\ proc[p].pc \in Over => new.cause = proc[p].cause
    /\ (\E q \in ApiReq : rq[q].pc = "active" /\ rq[q].by = p) =>
           new.pc \in {"serving", "closing", "draining"} \/ new.cause \in {"accept", "timeout"}

LEMMA MoveStep ==
  ASSUME LifeInv, NEW p \in Process, NEW new, Moves(p, new),
         \A q \in Request : \/ rq'[q] = rq[q]
                            \/ q \in AdminReq /\ rq'[q].pc = "cut" /\ rq'[q].by \in Process,
         ApiReq \intersect AdminReq = {}
  PROVE  RequestInv' /\ CauseInv' /\ StopLosesNoRequest'
  <1> USE DEF LifeInv, LifecycleTypeOK, Moves
  <1>1. /\ proc'[p] = new
        /\ \A o \in Process \ {p} : proc'[o] = proc[o]
    OBVIOUS
  <1>2. CauseInv'
    BY <1>1 DEF CauseInv
  <1>3. RequestInv'
    BY <1>1 DEF RequestInv, Running, Request
  <1>4. ASSUME NEW q \in ApiReq, rq'[q].pc \in {"cut", "failed"}
        PROVE  proc'[rq'[q].by].cause \in {"killed", "accept", "timeout"}
    <2>1. rq'[q] = rq[q] /\ rq[q].by \in Process
      BY <1>4 DEF RequestInv, Request
    <2>2. proc[rq[q].by].cause \in {"killed", "accept", "timeout"}
      BY <1>4, <2>1 DEF StopLosesNoRequest
    <2>3. proc[rq[q].by].pc \in Over
      BY <2>1, <2>2 DEF CauseInv
    <2> QED
      BY <1>1, <2>1, <2>2, <2>3
  <1> QED
    BY <1>2, <1>3, <1>4 DEF StopLosesNoRequest

LEMMA GoesMove ==
  ASSUME LifeInv, NEW p \in Process, NEW pc, Goes(p, pc)
  PROVE  proc' = [proc EXCEPT ![p] = [pc |-> pc, cause |-> proc[p].cause]]
  <1>1. proc \in [Process -> ProcessState]
    BY DEF LifeInv, LifecycleTypeOK
  <1>2. [proc[p] EXCEPT !.pc = pc] = [pc |-> pc, cause |-> proc[p].cause]
    BY <1>1 DEF ProcessState
  <1> QED
    BY <1>1, <1>2 DEF Goes

LEMMA StartStep ==
  ASSUME LifeInv, NEW p \in Process, Start(p)
  PROVE  LifeInv'
  <1> DEFINE new == [pc |-> "stat", cause |-> proc[p].cause]
  <1>1. Moves(p, new)
    BY GoesMove, LifecycleAssumption
    DEF Start, Ends, At, Moves, LifeInv, LifecycleTypeOK, ProcessState, CauseInv, RequestInv,
        Request, Over, Active
  <1>2. proc'[p] = new /\ \A o \in Process \ {p} : proc'[o] = proc[o]
    BY <1>1 DEF Moves, LifeInv, LifecycleTypeOK
  <1>3. RequestInv' /\ CauseInv' /\ StopLosesNoRequest'
    BY <1>1, MoveStep, LifecycleAssumption DEF Start
  <1>4. LifecycleTypeOK'
    BY <1>1, EnvironmentStep, CleanerStates, LifecycleAssumption
    DEF Start, Moves, LifeInv, LifecycleTypeOK, dataVars
  <1>5. PortInv'
    BY <1>1, <1>2, LifecycleAssumption
    DEF Start, At, LifeInv, LifecycleTypeOK, PortInv, CauseInv, Running, Over
  <1>6. AloneInv'
    <2> SUFFICES ASSUME ~ overlap' PROVE AloneInv'
      BY DEF AloneInv
    <2>1. ~ overlap /\ \A o \in Process : ~ Running(o)
      BY DEF Start
    <2> QED
      BY <1>2, <2>1 DEF Start, At, LifeInv, AloneInv, Running
  <1> QED
    BY <1>3, <1>4, <1>5, <1>6 DEF LifeInv

LEMMA StatSocketStep ==
  ASSUME LifeInv, NEW p \in Process, StatSocket(p)
  PROVE  LifeInv'
  <1>1. CASE socket = NoProcess
    <2> DEFINE new == [pc |-> "bind", cause |-> proc[p].cause]
    <2>1. Moves(p, new)
      BY <1>1, GoesMove, LifecycleAssumption
      DEF StatSocket, Ends, At, Moves, LifeInv, LifecycleTypeOK, ProcessState, CauseInv, RequestInv,
          Request, Over, Active
    <2>2. proc'[p] = new /\ \A o \in Process \ {p} : proc'[o] = proc[o]
      BY <2>1 DEF Moves, LifeInv, LifecycleTypeOK
    <2>3. RequestInv' /\ CauseInv' /\ StopLosesNoRequest'
      BY <2>1, MoveStep, LifecycleAssumption DEF StatSocket
    <2>4. LifecycleTypeOK'
      BY <1>1, <2>1, EnvironmentStep, CleanerStates, LifecycleAssumption
      DEF StatSocket, Moves, LifeInv, LifecycleTypeOK, dataVars
    <2>5. PortInv'
      BY <1>1, <2>1, <2>2, LifecycleAssumption
      DEF StatSocket, At, LifeInv, LifecycleTypeOK, PortInv, CauseInv, Running, Over
    <2>6. AloneInv'
      BY <1>1, <2>1, <2>2, LifecycleAssumption
      DEF StatSocket, At, Moves, LifeInv, LifecycleTypeOK, PortInv, CauseInv, AloneInv, Running, Over
    <2> QED
      BY <2>3, <2>4, <2>5, <2>6 DEF LifeInv
  <1>2. CASE socket # NoProcess
    <2> DEFINE new == [pc |-> "remove", cause |-> proc[p].cause]
    <2>1. Moves(p, new)
      BY <1>2, GoesMove, LifecycleAssumption
      DEF StatSocket, Ends, At, Moves, LifeInv, LifecycleTypeOK, ProcessState, CauseInv, RequestInv,
          Request, Over, Active
    <2>2. proc'[p] = new /\ \A o \in Process \ {p} : proc'[o] = proc[o]
      BY <2>1 DEF Moves, LifeInv, LifecycleTypeOK
    <2>3. RequestInv' /\ CauseInv' /\ StopLosesNoRequest'
      BY <2>1, MoveStep, LifecycleAssumption DEF StatSocket
    <2>4. LifecycleTypeOK'
      BY <1>2, <2>1, EnvironmentStep, CleanerStates, LifecycleAssumption
      DEF StatSocket, Moves, LifeInv, LifecycleTypeOK, dataVars
    <2>5. PortInv'
      BY <1>2, <2>1, <2>2, LifecycleAssumption
      DEF StatSocket, At, LifeInv, LifecycleTypeOK, PortInv, CauseInv, Running, Over
    <2>6. AloneInv'
      BY <1>2, <2>1, <2>2, LifecycleAssumption
      DEF StatSocket, At, Moves, LifeInv, LifecycleTypeOK, PortInv, CauseInv, AloneInv, Running, Over
    <2> QED
      BY <2>3, <2>4, <2>5, <2>6 DEF LifeInv
  <1> QED
    BY <1>1, <1>2

LEMMA RemoveSocketStep ==
  ASSUME LifeInv, NEW p \in Process, RemoveSocket(p)
  PROVE  LifeInv'
  <1>1. CASE socket = NoProcess
    <2> DEFINE new == [pc |-> "returned", cause |-> "socket"]
    <2>1. Moves(p, new)
      BY <1>1, LifecycleAssumption
      DEF RemoveSocket, Ends, At, Moves, LifeInv, LifecycleTypeOK, ProcessState, CauseInv, RequestInv,
          Request, Over, Active
    <2>2. proc'[p] = new /\ \A o \in Process \ {p} : proc'[o] = proc[o]
      BY <2>1 DEF Moves, LifeInv, LifecycleTypeOK
    <2>3. RequestInv' /\ CauseInv' /\ StopLosesNoRequest'
      BY <2>1, MoveStep, LifecycleAssumption DEF RemoveSocket
    <2>4. LifecycleTypeOK'
      BY <1>1, <2>1, EnvironmentStep, CleanerStates, LifecycleAssumption
      DEF RemoveSocket, Moves, LifeInv, LifecycleTypeOK, dataVars
    <2>5. PortInv'
      BY <1>1, <2>1, <2>2, LifecycleAssumption
      DEF RemoveSocket, At, LifeInv, LifecycleTypeOK, PortInv, CauseInv, Running, Over
    <2>6. AloneInv'
      BY <1>1, <2>1, <2>2, LifecycleAssumption
      DEF RemoveSocket, At, Moves, LifeInv, LifecycleTypeOK, PortInv, CauseInv, AloneInv, Running, Over
    <2> QED
      BY <2>3, <2>4, <2>5, <2>6 DEF LifeInv
  <1>2. CASE socket # NoProcess
    <2> DEFINE new == [pc |-> "bind", cause |-> proc[p].cause]
    <2>1. Moves(p, new)
      BY <1>2, GoesMove, LifecycleAssumption
      DEF RemoveSocket, Ends, At, Moves, LifeInv, LifecycleTypeOK, ProcessState, CauseInv, RequestInv,
          Request, Over, Active
    <2>2. proc'[p] = new /\ \A o \in Process \ {p} : proc'[o] = proc[o]
      BY <2>1 DEF Moves, LifeInv, LifecycleTypeOK
    <2>3. RequestInv' /\ CauseInv' /\ StopLosesNoRequest'
      BY <2>1, MoveStep, LifecycleAssumption DEF RemoveSocket
    <2>4. LifecycleTypeOK'
      BY <1>2, <2>1, EnvironmentStep, CleanerStates, LifecycleAssumption
      DEF RemoveSocket, Moves, LifeInv, LifecycleTypeOK, dataVars
    <2>5. PortInv'
      BY <1>2, <2>1, <2>2, LifecycleAssumption
      DEF RemoveSocket, At, LifeInv, LifecycleTypeOK, PortInv, CauseInv, Running, Over
    <2>6. AloneInv'
      BY <1>2, <2>1, <2>2, LifecycleAssumption
      DEF RemoveSocket, At, Moves, LifeInv, LifecycleTypeOK, PortInv, CauseInv, AloneInv, Running, Over
    <2> QED
      BY <2>3, <2>4, <2>5, <2>6 DEF LifeInv
  <1> QED
    BY <1>1, <1>2

LEMMA BindSocketStep ==
  ASSUME LifeInv, NEW p \in Process, BindSocket(p)
  PROVE  LifeInv'
  <1>1. CASE socket = NoProcess
    <2> DEFINE new == [pc |-> "listen", cause |-> proc[p].cause]
    <2>1. Moves(p, new)
      BY <1>1, GoesMove, LifecycleAssumption
      DEF BindSocket, Ends, At, Moves, LifeInv, LifecycleTypeOK, ProcessState, CauseInv, RequestInv,
          Request, Over, Active
    <2>2. proc'[p] = new /\ \A o \in Process \ {p} : proc'[o] = proc[o]
      BY <2>1 DEF Moves, LifeInv, LifecycleTypeOK
    <2>3. RequestInv' /\ CauseInv' /\ StopLosesNoRequest'
      BY <2>1, MoveStep, LifecycleAssumption DEF BindSocket
    <2>4. LifecycleTypeOK'
      BY <1>1, <2>1, EnvironmentStep, CleanerStates, LifecycleAssumption
      DEF BindSocket, Moves, LifeInv, LifecycleTypeOK, dataVars
    <2>5. PortInv'
      BY <1>1, <2>1, <2>2, LifecycleAssumption
      DEF BindSocket, At, LifeInv, LifecycleTypeOK, PortInv, CauseInv, Running, Over
    <2>6. AloneInv'
      BY <1>1, <2>1, <2>2, LifecycleAssumption
      DEF BindSocket, At, Moves, LifeInv, LifecycleTypeOK, PortInv, CauseInv, AloneInv, Running, Over
    <2> QED
      BY <2>3, <2>4, <2>5, <2>6 DEF LifeInv
  <1>2. CASE socket # NoProcess
    <2> DEFINE new == [pc |-> "returned", cause |-> "socket"]
    <2>1. Moves(p, new)
      BY <1>2, LifecycleAssumption
      DEF BindSocket, Ends, At, Moves, LifeInv, LifecycleTypeOK, ProcessState, CauseInv, RequestInv,
          Request, Over, Active
    <2>2. proc'[p] = new /\ \A o \in Process \ {p} : proc'[o] = proc[o]
      BY <2>1 DEF Moves, LifeInv, LifecycleTypeOK
    <2>3. RequestInv' /\ CauseInv' /\ StopLosesNoRequest'
      BY <2>1, MoveStep, LifecycleAssumption DEF BindSocket
    <2>4. LifecycleTypeOK'
      BY <1>2, <2>1, EnvironmentStep, CleanerStates, LifecycleAssumption
      DEF BindSocket, Moves, LifeInv, LifecycleTypeOK, dataVars
    <2>5. PortInv'
      BY <1>2, <2>1, <2>2, LifecycleAssumption
      DEF BindSocket, At, LifeInv, LifecycleTypeOK, PortInv, CauseInv, Running, Over
    <2>6. AloneInv'
      BY <1>2, <2>1, <2>2, LifecycleAssumption
      DEF BindSocket, At, Moves, LifeInv, LifecycleTypeOK, PortInv, CauseInv, AloneInv, Running, Over
    <2> QED
      BY <2>3, <2>4, <2>5, <2>6 DEF LifeInv
  <1> QED
    BY <1>1, <1>2

LEMMA ListenPortStep ==
  ASSUME LifeInv, NEW p \in Process, ListenPort(p)
  PROVE  LifeInv'
  <1>1. CASE bound[PortOf[p]] = NoProcess
    <2> DEFINE new == [pc |-> "serving", cause |-> proc[p].cause]
    <2>1. Moves(p, new)
      BY <1>1, GoesMove, LifecycleAssumption
      DEF ListenPort, Ends, At, Moves, LifeInv, LifecycleTypeOK, ProcessState, CauseInv, RequestInv,
          Request, Over, Active
    <2>2. proc'[p] = new /\ \A o \in Process \ {p} : proc'[o] = proc[o]
      BY <2>1 DEF Moves, LifeInv, LifecycleTypeOK
    <2>3. RequestInv' /\ CauseInv' /\ StopLosesNoRequest'
      BY <2>1, MoveStep, LifecycleAssumption DEF ListenPort
    <2>4. LifecycleTypeOK'
      BY <1>1, <2>1, EnvironmentStep, CleanerStates, LifecycleAssumption
      DEF ListenPort, Moves, LifeInv, LifecycleTypeOK, dataVars
    <2>5. PortInv'
      BY <1>1, <2>1, <2>2, LifecycleAssumption
      DEF ListenPort, At, LifeInv, LifecycleTypeOK, PortInv, CauseInv, Running, Over
    <2>6. AloneInv'
      BY <1>1, <2>1, <2>2, LifecycleAssumption
      DEF ListenPort, At, Moves, LifeInv, LifecycleTypeOK, PortInv, CauseInv, AloneInv, Running, Over
    <2> QED
      BY <2>3, <2>4, <2>5, <2>6 DEF LifeInv
  <1>2. CASE bound[PortOf[p]] # NoProcess
    <2> DEFINE new == [pc |-> "returned", cause |-> "port"]
    <2>1. Moves(p, new)
      BY <1>2, LifecycleAssumption
      DEF ListenPort, Ends, At, Moves, LifeInv, LifecycleTypeOK, ProcessState, CauseInv, RequestInv,
          Request, Over, Active
    <2>2. proc'[p] = new /\ \A o \in Process \ {p} : proc'[o] = proc[o]
      BY <2>1 DEF Moves, LifeInv, LifecycleTypeOK
    <2>3. RequestInv' /\ CauseInv' /\ StopLosesNoRequest'
      BY <2>1, MoveStep, LifecycleAssumption DEF ListenPort
    <2>4. LifecycleTypeOK'
      BY <1>2, <2>1, EnvironmentStep, CleanerStates, LifecycleAssumption
      DEF ListenPort, Moves, LifeInv, LifecycleTypeOK, dataVars
    <2>5. PortInv'
      BY <1>2, <2>1, <2>2, LifecycleAssumption
      DEF ListenPort, At, LifeInv, LifecycleTypeOK, PortInv, CauseInv, Running, Over
    <2>6. AloneInv'
      <3>1. bound[PortOf[p]] \in Process /\ PortOf[p] \in Port
        BY <1>2, LifecycleAssumption DEF LifeInv, LifecycleTypeOK
      <3>2. Running(bound[PortOf[p]]) /\ bound[PortOf[p]] # p
        BY <1>2, <3>1 DEF ListenPort, At, LifeInv, PortInv, CauseInv, Over
      <3>3. Running(p)
        BY DEF ListenPort, At, Running
      <3>4. overlap
        BY <3>1, <3>2, <3>3 DEF LifeInv, AloneInv
      <3> QED
        BY <3>4 DEF ListenPort, AloneInv
    <2> QED
      BY <2>3, <2>4, <2>5, <2>6 DEF LifeInv
  <1> QED
    BY <1>1, <1>2

LEMMA ServeFailsStep ==
  ASSUME LifeInv, NEW p \in Process, ServeFails(p)
  PROVE  LifeInv'
  <1> DEFINE new == [pc |-> "returned", cause |-> "accept"]
  <1>1. Moves(p, new)
    BY LifecycleAssumption
    DEF ServeFails, Ends, At, Moves, LifeInv, LifecycleTypeOK, ProcessState, CauseInv, RequestInv,
        Request, Over, Active
  <1>2. proc'[p] = new /\ \A o \in Process \ {p} : proc'[o] = proc[o]
    BY <1>1 DEF Moves, LifeInv, LifecycleTypeOK
  <1>3. RequestInv' /\ CauseInv' /\ StopLosesNoRequest'
    BY <1>1, MoveStep, LifecycleAssumption DEF ServeFails
  <1>4. LifecycleTypeOK'
    BY <1>1, EnvironmentStep, CleanerStates, LifecycleAssumption
    DEF ServeFails, Moves, LifeInv, LifecycleTypeOK, dataVars
  <1>5. PortInv'
    BY <1>1, <1>2, LifecycleAssumption
    DEF ServeFails, At, LifeInv, LifecycleTypeOK, PortInv, CauseInv, Running, Over
  <1>6. AloneInv'
    BY <1>1, <1>2, LifecycleAssumption
    DEF ServeFails, At, Moves, LifeInv, LifecycleTypeOK, PortInv, CauseInv, AloneInv, Running, Over
  <1> QED
    BY <1>3, <1>4, <1>5, <1>6 DEF LifeInv

LEMMA CloseAdminStep ==
  ASSUME LifeInv, NEW p \in Process, CloseAdmin(p)
  PROVE  LifeInv'
  <1> DEFINE new == [pc |-> "closing", cause |-> proc[p].cause]
  <1>1. Moves(p, new)
    BY GoesMove, LifecycleAssumption
    DEF CloseAdmin, Ends, At, Moves, LifeInv, LifecycleTypeOK, ProcessState, CauseInv, RequestInv,
        Request, Over, Active
  <1>2. proc'[p] = new /\ \A o \in Process \ {p} : proc'[o] = proc[o]
    BY <1>1 DEF Moves, LifeInv, LifecycleTypeOK
  <1>3. RequestInv' /\ CauseInv' /\ StopLosesNoRequest'
    <2>1. \A q \in Request :
              \/ rq'[q] = rq[q]
              \/ q \in AdminReq /\ rq'[q].pc = "cut" /\ rq'[q].by \in Process
      <3> SUFFICES ASSUME NEW q \in Request, rq'[q] # rq[q]
                   PROVE  q \in AdminReq /\ rq'[q].pc = "cut" /\ rq'[q].by \in Process
        OBVIOUS
      <3>1. q \in Active(p, AdminReq) /\ rq'[q] = [rq[q] EXCEPT !.pc = "cut"]
        BY DEF CloseAdmin, Cut
      <3>2. rq[q].by = p /\ rq[q] \in RequestState /\ q \in AdminReq
        BY <3>1 DEF Active, LifeInv, LifecycleTypeOK
      <3> QED
        BY <3>1, <3>2 DEF RequestState
    <2> QED
      BY <1>1, <2>1, MoveStep, LifecycleAssumption
  <1>4. LifecycleTypeOK'
    BY <1>1, EnvironmentStep, CleanerStates, LifecycleAssumption
    DEF CloseAdmin, Moves, LifeInv, LifecycleTypeOK, dataVars, Cut, RequestState
  <1>5. PortInv'
    BY <1>1, <1>2, LifecycleAssumption
    DEF CloseAdmin, At, LifeInv, LifecycleTypeOK, PortInv, CauseInv, Running, Over
  <1>6. AloneInv'
    BY <1>1, <1>2, LifecycleAssumption
    DEF CloseAdmin, At, Moves, LifeInv, LifecycleTypeOK, PortInv, CauseInv, AloneInv, Running, Over
  <1> QED
    BY <1>3, <1>4, <1>5, <1>6 DEF LifeInv

LEMMA CloseListenersStep ==
  ASSUME LifeInv, NEW p \in Process, CloseListeners(p)
  PROVE  LifeInv'
  <1> DEFINE new == [pc |-> "draining", cause |-> proc[p].cause]
  <1>1. Moves(p, new)
    BY GoesMove, LifecycleAssumption
    DEF CloseListeners, Ends, At, Moves, LifeInv, LifecycleTypeOK, ProcessState, CauseInv, RequestInv,
        Request, Over, Active
  <1>2. proc'[p] = new /\ \A o \in Process \ {p} : proc'[o] = proc[o]
    BY <1>1 DEF Moves, LifeInv, LifecycleTypeOK
  <1>3. RequestInv' /\ CauseInv' /\ StopLosesNoRequest'
    BY <1>1, MoveStep, LifecycleAssumption DEF CloseListeners
  <1>4. LifecycleTypeOK'
    BY <1>1, EnvironmentStep, CleanerStates, LifecycleAssumption
    DEF CloseListeners, Moves, LifeInv, LifecycleTypeOK, dataVars
  <1>5. PortInv'
    BY <1>1, <1>2, LifecycleAssumption
    DEF CloseListeners, At, LifeInv, LifecycleTypeOK, PortInv, CauseInv, Running, Over
  <1>6. AloneInv'
    BY <1>1, <1>2, LifecycleAssumption
    DEF CloseListeners, At, Moves, LifeInv, LifecycleTypeOK, PortInv, CauseInv, AloneInv, Running, Over
  <1> QED
    BY <1>3, <1>4, <1>5, <1>6 DEF LifeInv

LEMMA DrainedStep ==
  ASSUME LifeInv, NEW p \in Process, Drained(p)
  PROVE  LifeInv'
  <1> DEFINE new == [pc |-> "returned", cause |-> "stop"]
  <1>1. Moves(p, new)
    BY LifecycleAssumption
    DEF Drained, Ends, At, Moves, LifeInv, LifecycleTypeOK, ProcessState, CauseInv, RequestInv,
        Request, Over, Active
  <1>2. proc'[p] = new /\ \A o \in Process \ {p} : proc'[o] = proc[o]
    BY <1>1 DEF Moves, LifeInv, LifecycleTypeOK
  <1>3. RequestInv' /\ CauseInv' /\ StopLosesNoRequest'
    BY <1>1, MoveStep, LifecycleAssumption DEF Drained
  <1>4. LifecycleTypeOK'
    BY <1>1, EnvironmentStep, CleanerStates, LifecycleAssumption
    DEF Drained, Moves, LifeInv, LifecycleTypeOK, dataVars
  <1>5. PortInv'
    BY <1>1, <1>2, LifecycleAssumption
    DEF Drained, At, LifeInv, LifecycleTypeOK, PortInv, CauseInv, Running, Over
  <1>6. AloneInv'
    BY <1>1, <1>2, LifecycleAssumption
    DEF Drained, At, Moves, LifeInv, LifecycleTypeOK, PortInv, CauseInv, AloneInv, Running, Over
  <1> QED
    BY <1>3, <1>4, <1>5, <1>6 DEF LifeInv

LEMMA ShutdownTimeoutStep ==
  ASSUME LifeInv, NEW p \in Process, ShutdownTimeout(p)
  PROVE  LifeInv'
  <1> DEFINE new == [pc |-> "returned", cause |-> "timeout"]
  <1>1. Moves(p, new)
    BY LifecycleAssumption
    DEF ShutdownTimeout, Ends, At, Moves, LifeInv, LifecycleTypeOK, ProcessState, CauseInv, RequestInv,
        Request, Over, Active
  <1>2. proc'[p] = new /\ \A o \in Process \ {p} : proc'[o] = proc[o]
    BY <1>1 DEF Moves, LifeInv, LifecycleTypeOK
  <1>3. RequestInv' /\ CauseInv' /\ StopLosesNoRequest'
    BY <1>1, MoveStep, LifecycleAssumption DEF ShutdownTimeout
  <1>4. LifecycleTypeOK'
    BY <1>1, EnvironmentStep, CleanerStates, LifecycleAssumption
    DEF ShutdownTimeout, Moves, LifeInv, LifecycleTypeOK, dataVars
  <1>5. PortInv'
    BY <1>1, <1>2, LifecycleAssumption
    DEF ShutdownTimeout, At, LifeInv, LifecycleTypeOK, PortInv, CauseInv, Running, Over
  <1>6. AloneInv'
    BY <1>1, <1>2, LifecycleAssumption
    DEF ShutdownTimeout, At, Moves, LifeInv, LifecycleTypeOK, PortInv, CauseInv, AloneInv, Running, Over
  <1> QED
    BY <1>3, <1>4, <1>5, <1>6 DEF LifeInv

LEMMA DeferredStep ==
  ASSUME LifeInv, NEW p \in Process, Deferred(p)
  PROVE  LifeInv'
  <1>1. CASE At(p, "returned") /\ Goes(p, "cancelled")
    <2> DEFINE new == [pc |-> "cancelled", cause |-> proc[p].cause]
    <2>1. Moves(p, new)
      BY <1>1, GoesMove, LifecycleAssumption
      DEF Deferred, Ends, At, Moves, LifeInv, LifecycleTypeOK, ProcessState, CauseInv, RequestInv,
          Request, Over, Active
    <2>2. proc'[p] = new /\ \A o \in Process \ {p} : proc'[o] = proc[o]
      BY <2>1 DEF Moves, LifeInv, LifecycleTypeOK
    <2>3. RequestInv' /\ CauseInv' /\ StopLosesNoRequest'
      BY <2>1, MoveStep, LifecycleAssumption DEF Deferred
    <2>4. LifecycleTypeOK'
      BY <1>1, <2>1, EnvironmentStep, CleanerStates, LifecycleAssumption
      DEF Deferred, Moves, LifeInv, LifecycleTypeOK, dataVars
    <2>5. PortInv'
      BY <1>1, <2>1, <2>2, LifecycleAssumption
      DEF Deferred, At, LifeInv, LifecycleTypeOK, PortInv, CauseInv, Running, Over
    <2>6. AloneInv'
      BY <1>1, <2>1, <2>2, LifecycleAssumption
      DEF Deferred, At, Moves, LifeInv, LifecycleTypeOK, PortInv, CauseInv, AloneInv, Running, Over
    <2> QED
      BY <2>3, <2>4, <2>5, <2>6 DEF LifeInv
  <1>2. CASE At(p, "cancelled") /\ Goes(p, "closed")
    <2> DEFINE new == [pc |-> "closed", cause |-> proc[p].cause]
    <2>1. Moves(p, new)
      BY <1>2, GoesMove, LifecycleAssumption
      DEF Deferred, Ends, At, Moves, LifeInv, LifecycleTypeOK, ProcessState, CauseInv, RequestInv,
          Request, Over, Active
    <2>2. proc'[p] = new /\ \A o \in Process \ {p} : proc'[o] = proc[o]
      BY <2>1 DEF Moves, LifeInv, LifecycleTypeOK
    <2>3. RequestInv' /\ CauseInv' /\ StopLosesNoRequest'
      BY <2>1, MoveStep, LifecycleAssumption DEF Deferred
    <2>4. LifecycleTypeOK'
      BY <1>2, <2>1, EnvironmentStep, CleanerStates, LifecycleAssumption
      DEF Deferred, Moves, LifeInv, LifecycleTypeOK, dataVars
    <2>5. PortInv'
      BY <1>2, <2>1, <2>2, LifecycleAssumption
      DEF Deferred, At, LifeInv, LifecycleTypeOK, PortInv, CauseInv, Running, Over
    <2>6. AloneInv'
      BY <1>2, <2>1, <2>2, LifecycleAssumption
      DEF Deferred, At, Moves, LifeInv, LifecycleTypeOK, PortInv, CauseInv, AloneInv, Running, Over
    <2> QED
      BY <2>3, <2>4, <2>5, <2>6 DEF LifeInv
  <1> QED
    BY <1>1, <1>2 DEF Deferred

-----------------------------------------------------------------------------
(* A process is gone. *)

LEMMA EndStep ==
  ASSUME LifeInv, NEW p \in Process, NEW cause, EndProcess(p, cause),
         Fault \/ NoFault, Running(p),
         \/ cause = "killed"
         \/ cause = proc[p].cause /\ proc[p].pc \in Over
  PROVE  LifeInv'
  <1> USE DEF EndProcess, Ends
  <1> DEFINE new == [pc |-> "gone", cause |-> cause]
  <1>1. /\ new \in ProcessState
        /\ proc'[p] = new
        /\ \A o \in Process \ {p} : proc'[o] = proc[o]
    BY DEF LifeInv, LifecycleTypeOK, ProcessState
  <1>2. ASSUME NEW q \in Request
        PROVE  \/ rq'[q] = rq[q] /\ ~ (rq[q].pc = "active" /\ rq[q].by = p)
               \/ rq[q].pc = "active" /\ rq'[q].pc = "cut" /\ rq[q].by = p /\ rq'[q].by = p
    <2>1. CASE q \in Active(p, Request)
      <3>1. rq'[q] = [rq[q] EXCEPT !.pc = "cut"] /\ rq[q] \in RequestState
        BY <2>1 DEF Cut, LifeInv, LifecycleTypeOK
      <3> QED
        BY <2>1, <3>1 DEF Active, RequestState
    <2>2. CASE q \notin Active(p, Request)
      BY <2>2 DEF Active, Cut
    <2> QED
      BY <2>1, <2>2
  <1>3. LifecycleTypeOK'
    <2>1. rq' \in [Request -> RequestState]
      BY DEF Cut, LifeInv, LifecycleTypeOK, RequestState
    <2>2. overlap' \in BOOLEAN
      BY Zenon DEF LifeInv, LifecycleTypeOK
    <2> QED
      BY <1>1, <2>1, <2>2, EnvironmentStep, CleanerStates
      DEF LifeInv, LifecycleTypeOK, dataVars
  <1>4. PortInv'
    BY <1>1 DEF LifeInv, LifecycleTypeOK, PortInv, Running
  <1>5. CauseInv'
    BY <1>1 DEF LifeInv, CauseInv, Over
  <1>6. RequestInv'
    BY <1>1, <1>2 DEF LifeInv, LifecycleTypeOK, RequestInv, Running, Request
  <1>7. StopLosesNoRequest'
    <2> SUFFICES ASSUME NEW q \in ApiReq, rq'[q].pc \in {"cut", "failed"}
                 PROVE  proc'[rq'[q].by].cause \in {"killed", "accept", "timeout"}
      BY DEF StopLosesNoRequest
    <2>1. q \in Request
      BY DEF Request
    <2>2. CASE rq[q].pc = "active" /\ rq[q].by = p /\ rq'[q].by = p
      BY <1>1, <2>1, <2>2 DEF LifeInv, RequestInv, Over
    <2>3. CASE rq'[q] = rq[q]
      <3>1. rq[q].by \in Process /\ proc[rq[q].by].cause \in {"killed", "accept", "timeout"}
        BY <2>1, <2>3 DEF LifeInv, RequestInv, StopLosesNoRequest
      <3> QED
        BY <1>1, <2>3, <3>1
    <2> QED
      BY <1>2, <2>1, <2>2, <2>3
  <1>8. AloneInv'
    BY <1>1 DEF LifeInv, LifecycleTypeOK, AloneInv, Running, At
  <1> QED
    BY <1>3, <1>4, <1>5, <1>6, <1>7, <1>8 DEF LifeInv

LEMMA ExitStep ==
  ASSUME LifeInv, NEW p \in Process, Exit(p)
  PROVE  LifeInv'
  <1>1. Running(p) /\ proc[p].pc \in Over
    BY DEF Exit, At, Running, Over
  <1> QED
    BY <1>1, EndStep DEF Exit

LEMMA KillStep ==
  ASSUME LifeInv, NEW p \in Process, Kill(p)
  PROVE  LifeInv'
  BY EndStep DEF Kill

-----------------------------------------------------------------------------

LEMMA NextInv == LifeInv /\ [Next]_vars => LifeInv'
  <1> SUFFICES ASSUME LifeInv, [Next]_vars PROVE LifeInv'
    OBVIOUS
  <1>1. CASE UNCHANGED vars
    <2>1. LifecycleTypeOK'
      BY <1>1 DEF LifeInv, LifecycleTypeOK, EnvironmentTypeOK, vars, envVars, serveVars, dataVars
    <2> QED
      BY <1>1, <2>1, QuietStep, QuietRequests DEF LifeInv, vars, serveVars
  <1>2. ASSUME NEW p \in Process,
               Start(p) \/ StatSocket(p) \/ RemoveSocket(p) \/ BindSocket(p) \/ ListenPort(p)
        PROVE  LifeInv'
    BY <1>2, StartStep, StatSocketStep, RemoveSocketStep, BindSocketStep, ListenPortStep
  <1>3. ASSUME NEW q \in Request, Refuse(q) \/ Answer(q) \/ \E p \in Process : Connect(q, p)
        PROVE  LifeInv'
    BY <1>3, RefuseStep, AnswerStep, ConnectStep
  <1>4. ASSUME NEW p \in Process, Cleans(p) \/ Signal(p) \/ ServeFails(p) \/ Kill(p)
        PROVE  LifeInv'
    BY <1>4, CleansStep, SignalStep, ServeFailsStep, KillStep
  <1>5. ASSUME NEW p \in Process, Stop(p)
        PROVE  LifeInv'
    BY <1>5, CloseAdminStep, CloseListenersStep, DrainedStep, ShutdownTimeoutStep, DeferredStep,
       ExitStep DEF Stop
  <1> QED
    BY <1>1, <1>2, <1>3, <1>4, <1>5 DEF Next

LEMMA LifecycleInvariant == Spec => []LifeInv
  <1> QED
    BY InitInv, NextInv, PTL DEF Spec

\* Processes, requests, cleaners and what is on the disk keep their types.
THEOREM LifecycleTypeCorrect == Spec => []LifecycleTypeOK
  <1>1. LifeInv => LifecycleTypeOK
    BY DEF LifeInv
  <1> QED
    BY <1>1, LifecycleInvariant, PTL

\* However many processes come and go, and wherever a request is when one of
\* them is told to stop, the stop answers it (serve.go:88-117).
THEOREM StopsLoseNoRequest == Spec => []StopLosesNoRequest
  <1>1. LifeInv => StopLosesNoRequest
    BY DEF LifeInv
  <1> QED
    BY <1>1, LifecycleInvariant, PTL

\* Of processes that follow one another none fails to start for what another
\* one left behind (admin/server.go:31, serve.go:53).
THEOREM ProcessesFollow == Spec => []StartsAfterAnyEnd
  <1>1. LifeInv => StartsAfterAnyEnd
    BY DEF LifeInv, AloneInv, StartsAfterAnyEnd
  <1> QED
    BY <1>1, LifecycleInvariant, PTL

\* ... and each has the socket file for its own (admin/server.go:31-38).
THEOREM AdminIsReachable == Spec => []AdminReachable
  <1>1. LifeInv => AdminReachable
    BY DEF LifeInv, AloneInv, AdminReachable, At
  <1> QED
    BY <1>1, LifecycleInvariant, PTL
=============================================================================
