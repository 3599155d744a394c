------------------------------ MODULE ByteSize ------------------------------
(***************************************************************************)
(* The limit on uploads: cmd/serve_config.go reads a number of bytes with  *)
(* an optional suffix and multiplies in int64.  A setting is what          *)
(* strings.TrimSpace leaves of it, cut where the code cuts it: its suffix, *)
(* and what strconv.ParseInt makes of the rest.                            *)
(***************************************************************************)
EXTENDS Integers

CONSTANTS
    MaxInt,         \* 2^63 - 1
    Suffix,         \* "k", "m" and "g", in either case, and none
    Multiplier,     \* what each stands for
    OtherSuffix,    \* a last character that is neither a digit nor a suffix
    NoNumber,       \* ParseInt finds no number, or one beyond int64
    Numbers,        \* bound: the numbers that ParseInt may find
    Unset, Rejected

ASSUME ByteSizeAssumption ==
    /\ MaxInt \in Nat
    /\ Multiplier \in [Suffix -> Nat \ {0}]
    /\ OtherSuffix \notin Suffix
    /\ Numbers \subseteq Int
    /\ NoNumber \notin Int
    /\ Unset \notin Int
    /\ Rejected \notin Int
    /\ Unset # Rejected

VARIABLES
    setting,        \* --max-upload-size or ARTF_MAX_UPLOAD_SIZE
    limit           \* maxUploadSize

sizeVars == <<setting, limit>>

Setting == [number : Numbers \union {NoNumber}, suffix : Suffix \union {OtherSuffix}]

\* Arithmetic in int64.
Wrap(x) == ((x + MaxInt + 1) % (2 * MaxInt + 2)) - (MaxInt + 1)

\* Mutant: the product is tested when it has wrapped already.
FitsMutant(n, m) == Wrap(n * m) > 0

\* n > (1<<63-1)/multiplier, 53, is an error.
Fits(n, m) == n <= MaxInt \div m

\* parseByteSize, 20-58.
Accepted(s) ==
    /\ s.suffix \in Suffix
    /\ s.number \in Int
    /\ s.number > 0
    /\ Fits(s.number, Multiplier[s.suffix])

SizeInit ==
    /\ setting \in Setting
    /\ limit = Unset

\* resolveMaxUploadSize; an error ends "artf serve" before it opens anything.
Resolve ==
    /\ limit = Unset
    /\ limit' = IF Accepted(setting) THEN Wrap(setting.number * Multiplier[setting.suffix])
                ELSE Rejected
    /\ UNCHANGED setting

SizeSpec == SizeInit /\ [][Resolve]_sizeVars

-----------------------------------------------------------------------------

Exact(s) == s.number * Multiplier[s.suffix]

\* The limit in force is the one that was written, to the byte, whatever the
\* magnitude: no product wraps into another limit, or into one that is not
\* positive, and none that int64 can hold is refused (serve_config.go:46-57).
LimitAsWritten ==
    limit # Unset =>
        IF setting.suffix \in Suffix /\ setting.number \in Int /\ Exact(setting) \in 1 .. MaxInt
        THEN limit = Exact(setting)
        ELSE limit = Rejected
=============================================================================
