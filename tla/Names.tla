------------------------------- MODULE Names -------------------------------
(***************************************************************************)
(* From names to paths.  The other modules take a repository's directory   *)
(* for its name and a final path for a pair of names; here is why they     *)
(* may: validate/*.go decides which names a request may carry, and the     *)
(* handlers make paths of them with filepath.Join.                         *)
(*                                                                         *)
(* A name is a sequence of pieces, each of which the code tells apart from *)
(* the others or takes for a run of ordinary characters: "dot" is ".",     *)
(* "slash" is "/", "at" stands for what no name may contain.               *)
(***************************************************************************)
EXTENDS Integers, FiniteSets, Sequences, SequencesExt

CONSTANTS
    Raw,            \* the names that requests carry
    MaxNameLength,  \* MaxRepoNameLength
    Refused         \* no path: the request was refused

Piece == {"a", "dot", "slash", "space", "at", "latest"}

ASSUME NamesAssumption ==
    /\ Raw \subseteq Seq(Piece)
    /\ MaxNameLength \in Nat

VARIABLES
    repoName,       \* the name in a request to create a repository
    dir,            \* the directory of the repository, as its components
    artifactName,   \* the name in an upload to it
    path            \* the final path of the artifact

nameVars == <<repoName, dir, artifactName, path>>

NotYet == <<>>

-----------------------------------------------------------------------------
(* The Go library, as it is used here. *)

TrimSpace(s) ==
    LET solid == {i \in DOMAIN s : s[i] # "space"}
    IN  IF solid = {} THEN <<>> ELSE SubSeq(s, Min(solid), Max(solid))

\* strings.Split(s, "/"): what is between one separator, or end, and the next.
Components(s) ==
    LET ends == {0, Len(s) + 1} \union {i \in DOMAIN s : s[i] = "slash"}
        End(k) == CHOOSE i \in ends : Cardinality({j \in ends : j < i}) = k
    IN  [k \in 1 .. Cardinality(ends) - 1 |-> SubSeq(s, End(k - 1) + 1, End(k) - 1)]

\* From a clean path, by one component.
Enter(clean, c) ==
    CASE c \in {<<>>, <<"dot">>} -> clean
      [] c = <<"dot", "dot">> -> IF clean = <<>> THEN clean ELSE Front(clean)
      [] OTHER -> Append(clean, c)

\* filepath.Join of a clean path and a name, with the Clean at its end.
Join(clean, name) ==
    LET cs == Components(name)
        joined[k \in 0 .. Len(cs)] == IF k = 0 THEN clean ELSE Enter(joined[k - 1], cs[k])
    IN  joined[Len(cs)]

-----------------------------------------------------------------------------
(* validate/repo.go and validate/artifact.go. *)

\* Mutant: the range of characters begins one too early, with "/".
AllowedMutant(p) == p \in {"a", "dot", "slash", "latest"}

\* isAllowedRepoNameRune: letters, digits, and the characters . _ -
Allowed(p) == p \in {"a", "dot", "latest"}

AllAllowed(s) == \A i \in DOMAIN s : Allowed(s[i])

\* Mutant: only the empty name is special.
SpecialMutant(s) == s = <<>>

\* The names that are components of a path and no entries of a directory.
Special(s) == s \in {<<>>, <<"dot">>, <<"dot", "dot">>}

RepoNameValid(raw) ==
    LET s == TrimSpace(raw)
    IN  ~ Special(s) /\ Len(s) <= MaxNameLength /\ AllAllowed(s)

ArtifactNameValid(s) ==
    /\ s # <<"latest">>
    /\ ~ Special(s)
    /\ Len(s) <= MaxNameLength
    /\ AllAllowed(s)

-----------------------------------------------------------------------------

DataDirectory == << <<"data">> >>

NamesInit ==
    /\ repoName \in Raw
    /\ artifactName \in Raw
    /\ dir = NotYet
    /\ path = NotYet

\* createRepoHandler, 70-88: the name is trimmed, and then validated.
CreateRepo ==
    /\ dir = NotYet
    /\ dir' = IF RepoNameValid(TrimSpace(repoName))
              THEN Join(Join(DataDirectory, <<"repos">>), TrimSpace(repoName))
              ELSE Refused
    /\ UNCHANGED <<repoName, artifactName, path>>

\* UploadArtifact, 104-122: a name of an artifact is not trimmed.
UploadArtifact ==
    /\ dir \notin {NotYet, Refused}
    /\ path = NotYet
    /\ path' = IF ArtifactNameValid(artifactName) THEN Join(dir, artifactName) ELSE Refused
    /\ UNCHANGED <<repoName, artifactName, dir>>

NamesNext == CreateRepo \/ UploadArtifact

NamesSpec == NamesInit /\ [][NamesNext]_nameVars

-----------------------------------------------------------------------------

\* A repository has a directory of its own, an entry of "repos" that is called
\* like the repository: two repositories never share one, and none is "repos"
\* itself or outside of it (validate/repo.go:17-33, repo_handler.go:70-88).
RepoDirIsItsOwn ==
    dir \notin {NotYet, Refused} =>
        dir = DataDirectory \o << <<"repos">>, TrimSpace(repoName) >>

\* A final path is an entry of the repository's directory that is called like
\* the artifact: artifacts of different names or repositories never share a
\* file (validate/artifact.go:15-34, artifact.go:106-122).
ArtifactFileIsItsOwn ==
    path \notin {NotYet, Refused} => path = dir \o << artifactName >>
=============================================================================
