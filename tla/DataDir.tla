------------------------------- MODULE DataDir -------------------------------
(***************************************************************************)
(* The data directory: one directory <data>/repos/<name> per repository,   *)
(* in it the artifacts' files under their final names and the temporary    *)
(* files ".upload-*" of uploads.  Its operations are the system calls that *)
(* the handlers and the cleaner make (os.MkdirAll, Remove, CreateTemp,     *)
(* Rename and the steps of RemoveAll), each atomic in the kernel.          *)
(*                                                                         *)
(* CreateTemp opens its file exclusively under a fresh name, so a          *)
(* temporary file is known by the upload that made it.                     *)
(***************************************************************************)
EXTENDS ArtfData

CONSTANTS
    NoFile,         \* there is no such file
    Partial         \* content that is not the whole body of any upload

ASSUME DataDirAssumption ==
    /\ NoFile \notin Upload
    /\ Partial \notin Upload
    /\ NoFile # Partial

VARIABLES
    dirs,   \* the repositories' directories that exist
    files,  \* content of the file at each final path
    temps   \* the temporary file of each upload: its directory and content

dirVars == <<dirs, files, temps>>

Temp == [dir : RepoName, body : Upload \union {Partial}]

DataDirTypeOK ==
    /\ dirs \subseteq RepoName
    /\ files \in [Path -> Upload \union {NoFile, Partial}]
    /\ temps \in [Upload -> Temp \union {NoFile}]

DataDirInit(existing) ==
    /\ dirs = existing
    /\ files = [p \in Path |-> NoFile]
    /\ temps = [u \in Upload |-> NoFile]

HasFile(p) == files[p] # NoFile

HasTemp(u) == temps[u] # NoFile

\* What a listing of the directory shows: names of artifacts, temporary files.
Entries(d) ==
    {a \in ArtifactName : HasFile(<<d, a>>)}
        \union {u \in Upload : HasTemp(u) /\ temps[u].dir = d}

MkdirAll(d) ==
    /\ dirs' = dirs \union {d}
    /\ UNCHANGED <<files, temps>>

\* Mutant: os.RemoveAll where the code calls os.Remove.
RemoveDirMutant(d) ==
    /\ dirs' = dirs \ {d}
    /\ files' = [p \in Path |-> IF p[1] = d THEN NoFile ELSE files[p]]
    /\ temps' = [u \in Upload |->
                     IF HasTemp(u) /\ temps[u].dir = d THEN NoFile ELSE temps[u]]

\* os.Remove of a directory: refused unless the directory is empty.
RemoveDir(d) ==
    /\ dirs' = IF Entries(d) = {} THEN dirs \ {d} ELSE dirs
    /\ UNCHANGED <<files, temps>>

\* Mutant: a directory goes with its last file.
RemoveFileMutant(p) ==
    /\ files' = [files EXCEPT ![p] = NoFile]
    /\ dirs' = IF Entries(p[1]) \subseteq {p[2]} THEN dirs \ {p[1]} ELSE dirs
    /\ UNCHANGED temps

\* os.Remove of a file; that it is missing already changes nothing.
RemoveFile(p) ==
    /\ files' = [files EXCEPT ![p] = NoFile]
    /\ UNCHANGED <<dirs, temps>>

CreateTemp(u, d) ==
    /\ d \in dirs
    /\ temps' = [temps EXCEPT ![u] = [dir |-> d, body |-> Partial]]
    /\ UNCHANGED <<dirs, files>>

\* The body arrives in full.  The upload writes through a descriptor: if its
\* file has been unlinked in the meantime, nobody sees what it writes.
WriteTemp(u) ==
    /\ temps' = IF HasTemp(u) THEN [temps EXCEPT ![u].body = u] ELSE temps
    /\ UNCHANGED <<dirs, files>>

RemoveTemp(u) ==
    /\ temps' = [temps EXCEPT ![u] = NoFile]
    /\ UNCHANGED <<dirs, files>>

\* rename(2) replaces whatever is at p.
RenameTemp(u, p) ==
    /\ HasTemp(u)
    /\ files' = [files EXCEPT ![p] = temps[u].body]
    /\ temps' = [temps EXCEPT ![u] = NoFile]
    /\ UNCHANGED dirs

\* One step of os.RemoveAll: an entry of the listing it took is unlinked, if
\* the entry is still there.
Unlink(d, e) ==
    /\ files' = [p \in Path |-> IF p = <<d, e>> THEN NoFile ELSE files[p]]
    /\ temps' = [u \in Upload |->
                     IF u = e /\ HasTemp(u) /\ temps[u].dir = d THEN NoFile ELSE temps[u]]
    /\ UNCHANGED dirs
=============================================================================
