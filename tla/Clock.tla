-------------------------------- MODULE Clock --------------------------------
(***************************************************************************)
(* Instants of the wall clock, in the unit that the code compares: days    *)
(* where the cleaner does (KeepDays), minutes where the authentication     *)
(* does (LastUsedAt).                                                      *)
(***************************************************************************)
EXTENDS Integers, FiniteSets

CONSTANT
    MaxClock    \* bound: the last instant of the model

ASSUME ClockAssumption == MaxClock \in Nat

Instant == 0 .. MaxClock
=============================================================================
