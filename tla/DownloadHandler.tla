--------------------------- MODULE DownloadHandler ---------------------------
(***************************************************************************)
(* GET /{repoName}/{artifactName}: server/handler/artifact.go,             *)
(* DownloadArtifact.  It reads the repository, then the artifact, then     *)
(* opens the file; http.ServeFile sends what the file it has opened holds, *)
(* also if the file is unlinked meanwhile.                                 *)
(***************************************************************************)
EXTENDS Environment, SqliteStore, DataDir

CONSTANTS
    Download,   \* download requests
    Latest      \* the name "latest", which stands for the newest record

ASSUME DownloadAssumption == Latest \notin ArtifactName

VARIABLE
    dn          \* the state of each download request

(***************************************************************************)
(* path: what is asked for; repoId: its repository, once known; record:    *)
(* the artifact found; body: what was sent.                                *)
(***************************************************************************)
NoArtifactFound == <<>>

DownloadPc == {"idle", "find", "serve", "200", "404", "500", "lost"}

DownloadState == [pc : DownloadPc,
                  path : (RepoName \X (ArtifactName \union {Latest})) \union {<<>>},
                  repoId : Nat,
                  record : Artifact \union {NoArtifactFound},
                  body : Upload \union {NoFile, Partial}]

DownloadTypeOK == dn \in [Download -> DownloadState]

DownloadIdle == [pc |-> "idle", path |-> <<>>, repoId |-> 0,
                 record |-> NoArtifactFound, body |-> NoFile]

DownloadInit == dn = [d \in Download |-> DownloadIdle]

DownloadAnswer(d, status) == dn' = [dn EXCEPT ![d] = [DownloadIdle EXCEPT !.pc = status]]

\* GetByName, 63-75.
DownloadLookup(d) ==
    /\ dn[d].pc = "idle"
    /\ \E p \in RepoName \X (ArtifactName \union {Latest}) :
          \/ /\ ReposNamed(p[1]) = {}
             /\ DownloadAnswer(d, "404")
          \/ \E r \in ReposNamed(p[1]) :
                dn' = [dn EXCEPT ![d] = [DownloadIdle EXCEPT !.pc = "find", !.path = p,
                                                           !.repoId = r.id]]
    /\ NoFault
    /\ UNCHANGED <<storeVars, dirVars>>

\* The rows that the request asks for: at most one.
Wanted(i, name) == IF name = Latest THEN LatestOf(i) ELSE ArtifactsNamed(i, name)

\* GetLatestByRepo or GetByRepoAndName, 77-90.
DownloadFind(d) ==
    /\ dn[d].pc = "find"
    /\ \/ /\ Wanted(dn[d].repoId, dn[d].path[2]) = {}
          /\ DownloadAnswer(d, "404")
       \/ \E a \in Wanted(dn[d].repoId, dn[d].path[2]) :
             dn' = [dn EXCEPT ![d] = [DownloadIdle EXCEPT !.pc = "serve", !.record = a]]
    /\ NoFault
    /\ UNCHANGED <<storeVars, dirVars>>

\* http.ServeFile, 92-96: it opens what is at the record's path now.
DownloadServe(d) ==
    /\ dn[d].pc = "serve"
    /\ IF HasFile(dn[d].record.path)
       THEN dn' = [dn EXCEPT ![d] = [DownloadIdle EXCEPT !.pc = "200", !.record = dn[d].record,
                                                         !.body = files[dn[d].record.path]]]
       ELSE DownloadAnswer(d, "404")
    /\ NoFault
    /\ UNCHANGED <<storeVars, dirVars>>

\* A query fails, 73 and 88.
DownloadQueryFails(d) ==
    /\ dn[d].pc \in {"idle", "find"}
    /\ DownloadAnswer(d, "500")
    /\ Fault
    /\ UNCHANGED <<storeVars, dirVars>>

DownloadStep(d) ==
    \/ DownloadLookup(d)
    \/ DownloadFind(d)
    \/ DownloadServe(d)
    \/ DownloadQueryFails(d)

DownloadCrash ==
    dn' = [d \in Download |->
              IF dn[d].pc \in {"find", "serve"} THEN [DownloadIdle EXCEPT !.pc = "lost"]
              ELSE dn[d]]
=============================================================================
