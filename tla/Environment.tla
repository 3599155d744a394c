----------------------------- MODULE Environment -----------------------------
(***************************************************************************)
(* What artf runs on and does not control: the wall clock that time.Now()  *)
(* reads, and the faults that its environment injects (a failing system    *)
(* call or statement, a killed process).  Events between two ticks carry   *)
(* equal timestamps, which leaves their order to whatever compares them.   *)
(***************************************************************************)
EXTENDS Clock

CONSTANT
    MaxFaults   \* bound: how many faults the environment injects

ASSUME EnvironmentAssumption == MaxFaults \in Nat

VARIABLES
    now,        \* the wall clock
    faults      \* faults injected so far

envVars == <<now, faults>>

EnvironmentTypeOK ==
    /\ now \in Instant
    /\ faults \in 0 .. MaxFaults

EnvironmentInit ==
    /\ now = 0
    /\ faults = 0

\* The clock moves on; artf assumes that it does not run backwards.
Tick ==
    /\ now < MaxClock
    /\ now' = now + 1
    /\ UNCHANGED faults

\* A step in which one thing goes wrong that need not.
Fault ==
    /\ faults < MaxFaults
    /\ faults' = faults + 1
    /\ UNCHANGED now

NoFault == UNCHANGED envVars
=============================================================================
