--------------------------- MODULE MCRepoCommands ---------------------------
(* Small instances of RepoCommands. *)
EXTENDS RepoCommands, TLC

MCPolicies == Policy

MCSymmetry == Permutations(Command)
=============================================================================
