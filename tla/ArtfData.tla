------------------------------- MODULE ArtfData -------------------------------
(***************************************************************************)
(* The data that artf's parts exchange.  The content of a file, and the    *)
(* SHA-256 that identifies it, is the upload request that sent it: every   *)
(* request has a body of its own.                                          *)
(***************************************************************************)
EXTENDS Clock

CONSTANTS
    RepoName,       \* names a repository may have (validate.RepoName)
    ArtifactName,   \* names an artifact may have (validate.ArtifactName)
    Upload          \* upload requests

ASSUME DataAssumption == Upload \intersect ArtifactName = {}

\* "repos/<repository>/<artifact>", below the data directory.
Path == RepoName \X ArtifactName
=============================================================================
