-------------------------- MODULE ArtifactPublishing --------------------------
(***************************************************************************)
(* What artf promises to those who upload and download: an artifact is     *)
(* published once, whole, under a name that is free; nobody can change it  *)
(* while it is published, and it disappears only by being withdrawn.  How  *)
(* records and files bring this about is left to ArtfServer.               *)
(***************************************************************************)
CONSTANTS
    Path,       \* where artifacts are published
    Content,    \* whole bodies of uploads
    Nothing     \* nothing is published there

VARIABLE
    published   \* what a download of each path gets

PublishingInit == published = [p \in Path |-> Nothing]

Publish(p, c) ==
    /\ published[p] = Nothing
    /\ published' = [published EXCEPT ![p] = c]

\* One artifact, or all those of a repository at once.
Withdraw(ps) ==
    published' = [p \in Path |-> IF p \in ps THEN Nothing ELSE published[p]]

PublishingNext ==
    \/ \E p \in Path, c \in Content : Publish(p, c)
    \/ \E ps \in SUBSET Path : Withdraw(ps)

PublishingSpec == PublishingInit /\ [][PublishingNext]_published
=============================================================================
