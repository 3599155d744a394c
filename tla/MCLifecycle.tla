---------------------------- MODULE MCLifecycle ----------------------------
(* A small instance of Lifecycle. *)
EXTENDS Lifecycle

CONSTANTS port, repo

\* Every process is told to listen on the default address.
OnePort == [p \in Process |-> port]

OneRepository == [a \in Expired |-> repo]
=============================================================================
