---------------------------- MODULE MCKeyCommands ----------------------------
(* Small instances of KeyCommands. *)
EXTENDS KeyCommands, TLC

Deletions == {c \in DeleteKeyReq : cmd[c].pc # "idle"}

Presented == {q \in Request : rq[q].pc # "idle"}

\* Bound: one request and one tick, as for what is said of commands; or else
\* one deletion and no fault, as for what UseIsRecorded says of requests.  All
\* four only grow, so a run under it is that of the two instances.
MCInstances ==
    \/ Cardinality(Presented) <= 1 /\ now <= 1
    \/ Cardinality(Deletions) <= 1 /\ faults = 0

MCSymmetry ==
    Permutations(KeyHash) \union Permutations(DeleteKeyReq) \union Permutations(Request)
=============================================================================
