--------------------------- MODULE DocumentedClaims ---------------------------
(***************************************************************************)
(* What the README, comments and tests of artf say of the program and what *)
(* its code does not do in every interleaving.  Each claim is refuted by a *)
(* run of its own, whose trace shows how.                                  *)
(***************************************************************************)
EXTENDS ArtfServer

\* server/handler/artifact_test.go:372, "duplicate upload returns conflict
\* without overwrite": once an upload was answered 409, the artifact that was
\* there first still has its file.  Two uploads that both pass the existence
\* check share the final path, and the loser overwrites and removes it.
ConflictWithoutOverwrite ==
    \A u \in Upload : up[u].pc = "409" =>
        \A a \in artifacts : a.path = up[u].path => files[a.path] = a.sha

\* store/store.go:68, "path to the repo folder on the filesystem": a
\* repository has a folder.  Creating a repository again fails, and the failed
\* request removes the folder of the existing one if it is empty.
RepoHasFolder == \A r \in repos : r.name \in dirs

\* README.md:108, "Both = 0: no cleanup, all artifacts are kept".  A cleaner
\* in the middle of a pass removes files by path: the files of a repository
\* deleted and created anew meanwhile, whatever its policy.
KeepAllIsKept ==
    [][cl' # cl => \A a \in artifacts, r \in repos :
          a.repoId = r.id /\ r.keepCount = 0 /\ r.keepDays = 0 /\ HasFile(a.path)
              => HasFile(a.path)']_vars
=============================================================================
