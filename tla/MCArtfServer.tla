---------------------------- MODULE MCArtfServer ----------------------------
(* Small instances of the server and of the claims about it. *)
EXTENDS DocumentedClaims, TLC

P(count, days) == [keepCount |-> count, keepDays |-> days]

KeepAll == {P(0, 0)}
KeepOne == {P(1, 0)}
KeepOneDayOrNegative == {P(1, 0), P(0, 1), P(-1, 0)}
NegativeToOne == -1 .. 1
KeepAllOrOne == {P(0, 0), P(1, 0)}

NoPatches == {}
PatchDays == {[keepCount |-> Unset, keepDays |-> 1]}

MCSymmetry == Permutations(Upload) \union Permutations(ArtifactName)
=============================================================================
