------------------------------ MODULE MCInputs ------------------------------
(* What the program takes in: every setting of the limit on uploads, with  *)
(* eight bits for 64, and every pair of names of up to four pieces, which  *)
(* suffices for "../a", its neighbours and a name that is too long.        *)
EXTENDS ByteSize, Names, TLC

MCNumbers == -2 .. MaxInt

MCMultiplier == [s \in Suffix |->
    CASE s = "none" -> 1
      [] s = "k" -> 4
      [] s = "m" -> 16
      [] s = "g" -> 64]

MCRaw == UNION {[1 .. n -> Piece] : n \in 0 .. 4}

\* One of the two inputs at a time: the other one stays as it is.
MCInit ==
    \/ SizeInit /\ repoName = NotYet /\ artifactName = NotYet /\ dir = Refused /\ path = NotYet
    \/ NamesInit /\ setting = [number |-> NoNumber, suffix |-> "none"] /\ limit = Rejected

MCNext ==
    \/ Resolve /\ UNCHANGED nameVars
    \/ NamesNext /\ UNCHANGED sizeVars

MCSpec == MCInit /\ [][MCNext]_<<sizeVars, nameVars>>
=============================================================================
