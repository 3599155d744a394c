----------------------------- MODULE InputProofs -----------------------------
(***************************************************************************)
(* What a user or a client writes and the program reads: the limit on      *)
(* uploads, for integers of any width and any multipliers, and the names   *)
(* of repositories and artifacts, for any set of them and of any length.   *)
(***************************************************************************)
EXTENDS ByteSize, Names, FiniteSetTheorems, SequenceTheorems,
        WellFoundedInduction, TLAPS

(* The limit on uploads: the division in the code's test decides whether   *)
(* the product is one that the integers hold, to the last unit.            *)


\* The quotient is the largest number whose product with m does not exceed x.
LEMMA Quotient ==
  ASSUME NEW x \in Nat, NEW m \in Nat \ {0}, NEW n \in Int
  PROVE  n <= x \div m <=> n * m <= x
  <1> DEFINE q == x \div m
             r == x % m
  <1>1. q \in Int /\ r \in 0 .. m - 1 /\ x = q * m + r
    OBVIOUS
  <1> HIDE DEF q, r
  <1>2. CASE n <= q
    <2>1. n * m <= q * m
      BY <1>1, <1>2
    <2> QED
      BY <1>1, <1>2, <2>1 DEF q
  <1>3. CASE n > q
    <2>1. n * m >= (q + 1) * m
      BY <1>1, <1>3
    <2>2. (q + 1) * m = q * m + m
      BY <1>1
    <2> QED
      BY <1>1, <1>3, <2>1, <2>2 DEF q
  <1> QED
    BY <1>1, <1>2, <1>3

\* What int64 holds does not wrap.
LEMMA WrapKeeps ==
  ASSUME NEW x \in 1 .. MaxInt
  PROVE  Wrap(x) = x
  <1> DEFINE a == x + MaxInt + 1
             b == 2 * MaxInt + 2
  <1>1. a \in Nat /\ b \in Nat \ {0} /\ a < b
    BY ByteSizeAssumption
  <1>2. \A c \in Nat, d \in Nat \ {0} : c < d => c % d = c
    OBVIOUS
  <1> HIDE DEF a, b
  <1>3. a % b = a
    BY <1>1, <1>2
  <1> QED
    BY <1>3, ByteSizeAssumption DEF Wrap, a, b

-----------------------------------------------------------------------------

SizeInv == setting \in Setting /\ LimitAsWritten

LEMMA AcceptedIsExact ==
  ASSUME setting \in Setting
  PROVE  Accepted(setting) <=>
             /\ setting.suffix \in Suffix
             /\ setting.number \in Int
             /\ Exact(setting) \in 1 .. MaxInt
  <1>1. CASE setting.suffix \in Suffix /\ setting.number \in Int
    <2> DEFINE n == setting.number
               m == Multiplier[setting.suffix]
    <2>1. n \in Int /\ m \in Nat \ {0} /\ MaxInt \in Nat
      BY <1>1, ByteSizeAssumption
    <2> HIDE DEF n, m
    <2>2. n <= MaxInt \div m <=> n * m <= MaxInt
      BY <2>1, Quotient
    <2>3. n > 0 <=> n * m >= 1
      BY <2>1
    <2>4. n * m \in Int
      BY <2>1
    <2>5. n > 0 /\ n <= MaxInt \div m <=> n * m \in 1 .. MaxInt
      BY <2>1, <2>2, <2>3, <2>4
    <2> QED
      BY <1>1, <2>5 DEF Accepted, Fits, Exact, n, m
  <1>2. CASE ~ (setting.suffix \in Suffix /\ setting.number \in Int)
    BY <1>2 DEF Accepted
  <1> QED
    BY <1>1, <1>2

LEMMA SizeInitInv == SizeInit => SizeInv
  BY DEF SizeInit, SizeInv, LimitAsWritten

LEMMA SizeNextInv == SizeInv /\ [Resolve]_sizeVars => SizeInv'
  <1> SUFFICES ASSUME SizeInv, [Resolve]_sizeVars PROVE SizeInv'
    OBVIOUS
  <1>1. CASE UNCHANGED sizeVars
    BY <1>1 DEF SizeInv, LimitAsWritten, Exact, sizeVars
  <1>2. CASE Resolve
    <2>1. setting' = setting /\ setting \in Setting
      BY <1>2 DEF Resolve, SizeInv
    <2>2. CASE Accepted(setting)
      <3>1. /\ setting.suffix \in Suffix /\ setting.number \in Int
            /\ Exact(setting) \in 1 .. MaxInt
        BY <2>1, <2>2, AcceptedIsExact
      <3>2. limit' = Exact(setting)
        BY <1>2, <2>2, <3>1, WrapKeeps DEF Resolve, Exact
      <3> QED
        BY <2>1, <3>1, <3>2 DEF SizeInv, LimitAsWritten, Exact
    <2>3. CASE ~ Accepted(setting)
      <3>1. limit' = Rejected
        BY <1>2, <2>3 DEF Resolve
      <3>2. ~ (/\ setting.suffix \in Suffix /\ setting.number \in Int
               /\ Exact(setting) \in 1 .. MaxInt)
        BY <2>1, <2>3, AcceptedIsExact
      <3> QED
        BY <2>1, <3>1, <3>2 DEF SizeInv, LimitAsWritten, Exact
    <2> QED
      BY <2>2, <2>3
  <1> QED
    BY <1>1, <1>2

\* For integers of any width, "artf serve" works with the limit it was given
\* or does not start (serve_config.go:20-58).
THEOREM LimitsAreExact == SizeSpec => []LimitAsWritten
  <1>1. SizeInv => LimitAsWritten
    BY DEF SizeInv
  <1> QED
    BY <1>1, SizeInitInv, SizeNextInv, PTL DEF SizeSpec

-----------------------------------------------------------------------------
(* From names to paths. *)

\* A set of natural numbers has a smallest one.
LEMMA Smallest ==
  ASSUME NEW S \in SUBSET Nat, S # {}
  PROVE  Min(S) \in S /\ \A j \in S : Min(S) <= j
  <1> DEFINE below == OpToRel(<, Nat)
  <1>1. \E x \in S : \A y \in S : ~ (<<y, x>> \in below)
    <2>1. IsWellFoundedOn(below, Nat)
      BY NatLessThanWellFounded
    <2> HIDE DEF below
    <2> QED
      BY <2>1, WFMin
  <1>2. \E x \in S : \A y \in S : x <= y
    <2>1. PICK x \in S : \A y \in S : ~ (<<y, x>> \in below)
      BY <1>1
    <2>2. ASSUME NEW y \in S PROVE x <= y
      <3>1. x \in Nat /\ y \in Nat /\ ~ (<<y, x>> \in below)
        BY <2>1
      <3>2. ~ (y < x)
        BY <3>1 DEF OpToRel
      <3> HIDE DEF below
      <3> QED
        BY <3>1, <3>2
    <2> QED
      BY <2>2
  <1> QED
    BY <1>2 DEF Min

\* A bounded one has a largest: the one that is nearest to the bound.
LEMMA LargestOf ==
  ASSUME NEW n \in Nat, NEW S \in SUBSET (0 .. n), S # {}
  PROVE  Max(S) \in S /\ \A j \in S : Max(S) >= j
  <1> DEFINE gaps == {g \in 0 .. n : n - g \in S}
  <1>1. gaps \subseteq Nat /\ gaps # {}
    <2>1. PICK j \in S : TRUE
      OBVIOUS
    <2>2. j \in 0 .. n
      OBVIOUS
    <2>3. n - j \in 0 .. n /\ n - (n - j) = j
      BY <2>2
    <2>4. n - j \in gaps
      BY <2>3
    <2>5. gaps \subseteq Nat
      OBVIOUS
    <2> QED
      BY <2>4, <2>5
  <1>2. Min(gaps) \in gaps /\ \A g \in gaps : Min(gaps) <= g
    <2> HIDE DEF gaps
    <2> QED
      BY <1>1, Smallest
  <1>3. \E x \in S : \A y \in S : x >= y
    <2> DEFINE x == n - Min(gaps)
    <2>1. x \in S /\ Min(gaps) \in 0 .. n
      BY <1>2
    <2>2. ASSUME NEW y \in S PROVE x >= y
      <3>1. n - y \in gaps
        OBVIOUS
      <3> QED
        BY <1>2, <2>1, <3>1
    <2> QED
      BY <2>1, <2>2
  <1> QED
    BY <1>3 DEF Max

\* Nothing is trimmed from a name whose ends are not white.
LEMMA SolidEnds ==
  ASSUME NEW P, NEW t \in Seq(P), t # <<>>, t[1] # "space", t[Len(t)] # "space"
  PROVE  TrimSpace(t) = t
  <1> DEFINE kept == {i \in DOMAIN t : t[i] # "space"}
  <1>1. DOMAIN t = 1 .. Len(t) /\ Len(t) \in Nat \ {0}
    OBVIOUS
  <1>2. kept \in SUBSET (1 .. Len(t)) /\ 1 \in kept /\ Len(t) \in kept
    BY <1>1
  <1>3. TrimSpace(t) = SubSeq(t, Min(kept), Max(kept))
    BY <1>2 DEF TrimSpace
  <1> HIDE DEF kept
  <1>4. /\ Min(kept) \in kept /\ \A j \in kept : Min(kept) <= j
        /\ Max(kept) \in kept /\ \A j \in kept : Max(kept) >= j
    <2>1. kept \in SUBSET Nat /\ kept \in SUBSET (0 .. Len(t)) /\ kept # {}
      BY <1>1, <1>2
    <2> QED
      BY <1>1, <2>1, Smallest, LargestOf
  <1>5. Min(kept) = 1 /\ Max(kept) = Len(t)
    <2>1. Min(kept) \in 1 .. Len(t) /\ Max(kept) \in 1 .. Len(t)
      BY <1>2, <1>4
    <2>2. Min(kept) <= 1 /\ Max(kept) >= Len(t)
      BY <1>2, <1>4
    <2> QED
      BY <1>1, <2>1, <2>2
  <1> QED
    BY <1>3, <1>5, SubSeqFull

\* What is trimmed has nothing left to trim.
LEMMA TrimmedOnce ==
  ASSUME NEW P, NEW s \in Seq(P)
  PROVE  /\ TrimSpace(s) \in Seq(P)
         /\ TrimSpace(TrimSpace(s)) = TrimSpace(s)
  <1> DEFINE solid == {i \in DOMAIN s : s[i] # "space"}
  <1>0. /\ Len(s) \in Nat
        /\ solid \in SUBSET Nat /\ solid \in SUBSET (0 .. Len(s))
        /\ \A i \in solid : i \in 1 .. Len(s) /\ s[i] # "space"
    <2>1. DOMAIN s = 1 .. Len(s) /\ Len(s) \in Nat
      OBVIOUS
    <2> QED
      BY <2>1
  <1>1. CASE solid = {}
    <2>1. TrimSpace(s) = <<>>
      BY <1>1 DEF TrimSpace
    <2>2. TrimSpace(<<>>) = <<>>
      BY DEF TrimSpace
    <2> QED
      BY <2>1, <2>2
  <1>2. CASE solid # {}
    <2> DEFINE lo == Min(solid)
               hi == Max(solid)
    <2>1. TrimSpace(s) = SubSeq(s, lo, hi)
      BY <1>2 DEF TrimSpace
    <2> HIDE DEF solid
    <2>2. lo \in solid /\ hi \in solid /\ lo <= hi
      <3>1. lo \in solid /\ \A j \in solid : lo <= j
        BY <1>0, <1>2, Smallest
      <3>2. hi \in solid
        BY <1>0, <1>2, LargestOf
      <3> QED
        BY <3>1, <3>2
    <2> HIDE DEF lo, hi
    <2>3. /\ lo \in 1 .. Len(s) /\ hi \in 1 .. Len(s)
          /\ s[lo] # "space" /\ s[hi] # "space"
      BY <1>0, <2>2
    <2> DEFINE t == SubSeq(s, lo, hi)
    <2>4. /\ t \in Seq(P) /\ Len(t) = hi - lo + 1
          /\ \A i \in 1 .. hi - lo + 1 : t[i] = s[lo + i - 1]
      <3>1. \A i \in lo .. hi : s[i] \in P
        BY <1>0, <2>3
      <3> QED
        BY <2>2, <2>3, <3>1, SubSeqProperties
    <2> HIDE DEF t
    <2>5. TrimSpace(t) = t
      BY <2>2, <2>3, <2>4, SolidEnds
    <2> QED
      BY <2>1, <2>4, <2>5 DEF t
  <1> QED
    BY <1>1, <1>2

-----------------------------------------------------------------------------

NoSeparator(s) == \A i \in DOMAIN s : s[i] # "slash"

\* A name without a separator is one component of a path.
LEMMA OneComponent ==
  ASSUME NEW P, NEW s \in Seq(P), NoSeparator(s)
  PROVE  Components(s) = <<s>>
  <1> DEFINE ends == {0, Len(s) + 1} \union {i \in DOMAIN s : s[i] = "slash"}
             Before(i) == {j \in ends : j < i}
             End(k) == CHOOSE i \in ends : Cardinality(Before(i)) = k
  <1>1. Components(s) =
            [k \in 1 .. Cardinality(ends) - 1 |-> SubSeq(s, End(k - 1) + 1, End(k) - 1)]
    BY DEF Components
  <1>2. Len(s) \in Nat
    BY LenProperties
  <1>3. ends = {0, Len(s) + 1}
    BY DEF NoSeparator
  <1> HIDE DEF ends
  <1>4. Cardinality(ends) = 2
    <2>1. IsFiniteSet({0}) /\ Cardinality({0}) = 1
      BY FS_Singleton
    <2>2. ends = {0} \cup {Len(s) + 1} /\ Len(s) + 1 \notin {0}
      BY <1>2, <1>3
    <2>3. Cardinality(ends) = Cardinality({0}) + 1
      BY <2>1, <2>2, FS_AddElement
    <2> QED
      BY <2>1, <2>3
  <1>5. Before(0) = {} /\ Before(Len(s) + 1) = {0}
    BY <1>2, <1>3
  <1>6. Cardinality(Before(0)) = 0 /\ Cardinality(Before(Len(s) + 1)) = 1
    <2> HIDE DEF Before
    <2> QED
      BY <1>5, FS_EmptySet, FS_Singleton
  <1>7. End(0) = 0 /\ End(1) = Len(s) + 1
    <2> HIDE DEF Before
    <2> QED
      BY <1>3, <1>6
  <1> HIDE DEF End
  <1>8. SubSeq(s, End(0) + 1, End(1) - 1) = s
    <2>1. End(0) + 1 = 1 /\ End(1) - 1 = Len(s)
      BY <1>2, <1>7
    <2> QED
      BY <2>1, SubSeqFull
  <1>9. Components(s) = [k \in 1 .. 1 |-> s]
    <2>1. 1 .. Cardinality(ends) - 1 = 1 .. 1
      BY <1>4
    <2>2. \A k \in 1 .. 1 : SubSeq(s, End(k - 1) + 1, End(k) - 1) = s
      BY <1>8
    <2> QED
      BY <1>1, <2>1, <2>2
  <1> QED
    BY <1>9

\* A path and a name of one component make a path that is one component longer.
LEMMA JoinOne ==
  ASSUME NEW P, NEW clean, NEW name \in Seq(P), NoSeparator(name), ~ Special(name)
  PROVE  Join(clean, name) = Append(clean, name)
  <1> DEFINE cs == Components(name)
             Step(f, k) == IF k = 0 THEN clean ELSE Enter(f[k - 1], cs[k])
             joined == CHOOSE f : f = [k \in 0 .. Len(cs) |-> Step(f, k)]
             entered == [k \in 0 .. 1 |-> IF k = 0 THEN clean ELSE Enter(clean, name)]
  <1>1. Len(cs) = 1 /\ cs[1] = name
    BY OneComponent
  <1>2. Join(clean, name) = joined[Len(cs)]
    BY DEF Join
  <1> HIDE DEF cs
  <1>3. entered = [k \in 0 .. Len(cs) |-> Step(entered, k)]
    BY <1>1
  <1>4. joined = [k \in 0 .. Len(cs) |-> Step(joined, k)]
    <2> HIDE DEF entered
    <2> QED
      BY <1>3
  <1> HIDE DEF joined
  <1>5. joined[0] = clean /\ joined[1] = Enter(joined[0], cs[1])
    BY <1>1, <1>4
  <1>6. Enter(clean, name) = Append(clean, name)
    BY DEF Enter, Special
  <1> QED
    BY <1>1, <1>2, <1>5, <1>6

\* A valid name is no empty or special one, and has no separator.
LEMMA ValidNames ==
  ASSUME NEW s
  PROVE  /\ RepoNameValid(s) => NoSeparator(TrimSpace(s)) /\ ~ Special(TrimSpace(s))
         /\ ArtifactNameValid(s) => NoSeparator(s) /\ ~ Special(s)
  BY DEF RepoNameValid, ArtifactNameValid, AllAllowed, Allowed, NoSeparator

LEMMA ReposDirectory == Join(DataDirectory, <<"repos">>) = << <<"data">>, <<"repos">> >>
  <1>1. <<"repos">> \in Seq({"repos"}) /\ NoSeparator(<<"repos">>) /\ ~ Special(<<"repos">>)
    BY DEF NoSeparator, Special
  <1>2. Join(DataDirectory, <<"repos">>) = Append(DataDirectory, <<"repos">>)
    BY <1>1, JoinOne
  <1> QED
    BY <1>2 DEF DataDirectory

\* The directory that the code makes of a name that it takes.
LEMMA RepoDirectory ==
  ASSUME NEW raw \in Seq(Piece), RepoNameValid(TrimSpace(raw))
  PROVE  LET Repos == Join(DataDirectory, <<"repos">>)
         IN  /\ Join(Repos, TrimSpace(raw)) = Append(Repos, TrimSpace(raw))
             /\ Join(Repos, TrimSpace(raw)) =
                    DataDirectory \o << <<"repos">>, TrimSpace(raw) >>
  <1> DEFINE name == TrimSpace(raw)
  <1>1. name \in Seq(Piece) /\ TrimSpace(name) = name
    BY TrimmedOnce
  <1> HIDE DEF name
  <1>2. NoSeparator(name) /\ ~ Special(name)
    <2>1. RepoNameValid(name)
      BY DEF name
    <2> QED
      BY <1>1, <2>1, ValidNames
  <1> DEFINE Repos == Join(DataDirectory, <<"repos">>)
  <1>3. Join(Repos, name) = Append(Repos, name)
    BY <1>1, <1>2, JoinOne
  <1>4. Append(Repos, name) = DataDirectory \o << <<"repos">>, name >>
    <2>1. Repos = << <<"data">>, <<"repos">> >>
      BY ReposDirectory
    <2> HIDE DEF Repos
    <2>2. Append(<< <<"data">>, <<"repos">> >>, name) = DataDirectory \o << <<"repos">>, name >>
      BY <1>1 DEF DataDirectory
    <2> QED
      BY <2>1, <2>2
  <1> QED
    BY <1>3, <1>4 DEF name

LEMMA ArtifactFile ==
  ASSUME NEW D, NEW clean \in Seq(D),
         NEW raw \in Seq(Piece), ArtifactNameValid(raw)
  PROVE  Join(clean, raw) = clean \o << raw >>
  <1>1. Join(clean, raw) = Append(clean, raw)
    BY ValidNames, JoinOne
  <1> QED
    BY <1>1

NamesInv ==
    /\ repoName \in Seq(Piece) /\ artifactName \in Seq(Piece)
    /\ dir = NotYet => path = NotYet
    /\ RepoDirIsItsOwn
    /\ ArtifactFileIsItsOwn

LEMMA NamesInitInv == NamesInit => NamesInv
  BY NamesAssumption
  DEF NamesInit, NamesInv, RepoDirIsItsOwn, ArtifactFileIsItsOwn

LEMMA NamesNextInv == NamesInv /\ [NamesNext]_nameVars => NamesInv'
  <1> SUFFICES ASSUME NamesInv, [NamesNext]_nameVars PROVE NamesInv'
    OBVIOUS
  <1> USE DEF NamesInv, RepoDirIsItsOwn, ArtifactFileIsItsOwn
  <1>1. CASE UNCHANGED nameVars
    BY <1>1 DEF nameVars
  <1>2. CASE CreateRepo
    <2>1. /\ UNCHANGED <<repoName, artifactName, path>> /\ path = NotYet
          /\ RepoNameValid(TrimSpace(repoName)) \/ dir' = Refused
      BY <1>2 DEF CreateRepo
    <2>2. dir' # Refused => dir' = DataDirectory \o << <<"repos">>, TrimSpace(repoName) >>
      BY <1>2, <2>1, RepoDirectory DEF CreateRepo
    <2> QED
      BY <2>1, <2>2
  <1>3. CASE UploadArtifact
    <2>1. /\ UNCHANGED <<repoName, artifactName, dir>>
          /\ dir \notin {NotYet, Refused}
      BY <1>3 DEF UploadArtifact
    <2> DEFINE Component == Seq(Piece) \cup { <<"data">>, <<"repos">> }
    <2>2. dir \in Seq(Component)
      <3>1. dir = << <<"data">>, <<"repos">>, TrimSpace(repoName) >>
        BY <2>1 DEF DataDirectory
      <3>2. TrimSpace(repoName) \in Component
        BY TrimmedOnce
      <3>3. <<"data">> \in Component /\ <<"repos">> \in Component
        OBVIOUS
      <3> HIDE DEF Component
      <3> QED
        BY <3>1, <3>2, <3>3
    <2>3. path' # Refused => path' = dir \o << artifactName >>
      BY <1>3, <2>2, ArtifactFile DEF UploadArtifact
    <2> QED
      BY <2>1, <2>3
  <1> QED
    BY <1>1, <1>2, <1>3 DEF NamesNext

\* The length of a name is no bound of this: two repositories, whatever they
\* are called, have two directories in "repos" (validate/repo.go:17-33,
\* repo_handler.go:70-88).
THEOREM RepoDirs == NamesSpec => []RepoDirIsItsOwn
  <1>1. NamesInv => RepoDirIsItsOwn
    BY DEF NamesInv
  <1> QED
    BY <1>1, NamesInitInv, NamesNextInv, PTL DEF NamesSpec

\* Nor of this: a final path is an entry of the repository's directory that is
\* called like the artifact (validate/artifact.go:15-34, artifact.go:106-122).
THEOREM ArtifactFiles == NamesSpec => []ArtifactFileIsItsOwn
  <1>1. NamesInv => ArtifactFileIsItsOwn
    BY DEF NamesInv
  <1> QED
    BY <1>1, NamesInitInv, NamesNextInv, PTL DEF NamesSpec

\* Different names, different files: the paths that two requests come to, with
\* names that the code takes, are the same only if the names are, and the one
\* of a repository is no file of another.  This is why the other modules may
\* name a directory by its repository and a file by a pair of names.
THEOREM NamesAreFiles ==
  ASSUME NEW raw1 \in Seq(Piece), RepoNameValid(TrimSpace(raw1)),
         NEW raw2 \in Seq(Piece), RepoNameValid(TrimSpace(raw2)),
         NEW name1 \in Seq(Piece), ArtifactNameValid(name1),
         NEW name2 \in Seq(Piece), ArtifactNameValid(name2)
  PROVE  LET Repos == Join(DataDirectory, <<"repos">>)
             RepoDir(raw) == Join(Repos, TrimSpace(raw))
         IN  /\ RepoDir(raw1) = RepoDir(raw2) <=> TrimSpace(raw1) = TrimSpace(raw2)
             /\ Join(RepoDir(raw1), name1) = Join(RepoDir(raw2), name2) <=>
                    TrimSpace(raw1) = TrimSpace(raw2) /\ name1 = name2
             /\ Join(RepoDir(raw1), name1) # RepoDir(raw2)
  <1> DEFINE Component == Seq(Piece) \cup { <<"data">>, <<"repos">> }
             Repos == Join(DataDirectory, <<"repos">>)
             repo1 == TrimSpace(raw1)
             repo2 == TrimSpace(raw2)
             dir1 == Join(Repos, repo1)
             dir2 == Join(Repos, repo2)
             file1 == Join(dir1, name1)
             file2 == Join(dir2, name2)
  <1>1. repo1 \in Component /\ repo2 \in Component /\ name1 \in Component /\ name2 \in Component
    BY TrimmedOnce
  <1>2. Repos \in Seq(Component) /\ Len(Repos) = 2
    <2>1. <<"data">> \in Component /\ <<"repos">> \in Component
      OBVIOUS
    <2>2. Repos = << <<"data">>, <<"repos">> >>
      BY ReposDirectory
    <2> HIDE DEF Component, Repos
    <2> QED
      BY <2>1, <2>2
  <1>3. dir1 = Append(Repos, repo1) /\ dir2 = Append(Repos, repo2)
    BY RepoDirectory
  <1>4. file1 = Append(dir1, name1) /\ file2 = Append(dir2, name2)
    BY ValidNames, JoinOne
  <1> HIDE DEF Component, Repos, repo1, repo2, dir1, dir2, file1, file2
  <1>5. /\ dir1 \in Seq(Component) /\ Len(dir1) = 3
        /\ dir2 \in Seq(Component) /\ Len(dir2) = 3
    <2>1. \A name \in Component : /\ Append(Repos, name) \in Seq(Component)
                                  /\ Len(Append(Repos, name)) = Len(Repos) + 1
      BY <1>2, AppendProperties, Zenon
    <2> QED
      BY <1>1, <1>2, <1>3, <2>1
  <1>6. dir1 = dir2 <=> repo1 = repo2
    BY <1>1, <1>2, <1>3, AppendInjective
  <1>7. file1 = file2 <=> dir1 = dir2 /\ name1 = name2
    <2>1. dir1 \in Seq(Component) /\ dir2 \in Seq(Component)
      BY <1>5
    <2>2. Append(dir1, name1) = Append(dir2, name2) <=> dir1 = dir2 /\ name1 = name2
      BY <1>1, <2>1, AppendInjective
    <2> QED
      BY <1>4, <2>2
  <1>8. Len(file1) = 4
    <2>1. dir1 \in Seq(Component) /\ name1 \in Component
      BY <1>1, <1>5
    <2>2. Len(Append(dir1, name1)) = Len(dir1) + 1
      BY <2>1, AppendProperties, Zenon
    <2> QED
      BY <1>4, <1>5, <2>2
  <1> QED
    <2>1. file1 # dir2
      <3>1. file1 = dir2 => Len(file1) = Len(dir2)
        OBVIOUS
      <3>2. Len(file1) = 4 /\ Len(dir2) = 3
        BY <1>5, <1>8
      <3> QED
        BY <3>1, <3>2
    <2>2. file1 = file2 <=> repo1 = repo2 /\ name1 = name2
      BY <1>6, <1>7
    <2> QED
      BY <1>6, <2>1, <2>2, Zenon DEF Repos, repo1, repo2, dir1, dir2, file1, file2
=============================================================================
