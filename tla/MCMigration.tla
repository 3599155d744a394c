----------------------------- MODULE MCMigration -----------------------------
(* A small instance of Migration. *)
EXTENDS Migration, TLC

MCSymmetry == Permutations(RepoName)
=============================================================================
