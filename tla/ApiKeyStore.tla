----------------------------- MODULE ApiKeyStore -----------------------------
(***************************************************************************)
(* The table api_keys of store/sqlite: a column hash that is unique, ids   *)
(* from AUTOINCREMENT, and one action per statement that changes it.  A    *)
(* row carries the columns that some decision reads; name and created_at   *)
(* are left out.                                                           *)
(***************************************************************************)
EXTENDS Clock

CONSTANTS
    KeyHash,        \* SHA-256 sums of keys; every generated key has its own
    Never,          \* last_used_at IS NULL
    MaxKeyId        \* bound: the largest id of the table

ASSUME KeyAssumption ==
    /\ MaxKeyId \in Nat
    /\ Never \notin Instant

VARIABLES
    keys,           \* rows of api_keys
    keySeq          \* sqlite_sequence of api_keys

keyVars == <<keys, keySeq>>

ApiKey == [id : Nat, hash : KeyHash, readOnly : BOOLEAN, lastUsed : Instant \union {Never}]

KeyTypeOK ==
    /\ keys \subseteq ApiKey
    /\ keySeq \in 0 .. MaxKeyId

KeyInit ==
    /\ keys = {}
    /\ keySeq = 0

\* Get and GetByKey: sets of at most one row.
KeysWithId(i) == {k \in keys : k.id = i}

KeysWithHash(h) == {k \in keys : k.hash = h}

\* Mutant: INTEGER PRIMARY KEY without AUTOINCREMENT.
NextKeyIdMutant ==
    CHOOSE i \in 1 .. keySeq + 1 :
        /\ \A k \in keys : k.id < i
        /\ i = 1 \/ KeysWithId(i - 1) # {}

NextKeyId == keySeq + 1

\* UNIQUE INDEX api_keys_key_hash_idx.
KeyCreatable(h) ==
    /\ KeysWithHash(h) = {}
    /\ keySeq < MaxKeyId

KeyCreate(h, readOnly) ==
    /\ KeyCreatable(h)
    /\ keys' = keys \union
           {[id |-> NextKeyId, hash |-> h, readOnly |-> readOnly, lastUsed |-> Never]}
    /\ keySeq' = IF keySeq < NextKeyId THEN NextKeyId ELSE keySeq

\* DELETE ... WHERE id = ?; without such a row, the caller gets ErrNotFound.
KeyDelete(i) ==
    /\ keys' = keys \ KeysWithId(i)
    /\ UNCHANGED keySeq

\* Mutant: INSERT OR REPLACE of the whole record, as the caller has it.
KeyTouchMutant(key, t) ==
    /\ keys' = (keys \ KeysWithId(key.id)) \union {[key EXCEPT !.lastUsed = t]}
    /\ UNCHANGED keySeq

\* UPDATE ... SET last_used_at WHERE id = ?; without such a row, ErrNotFound.
KeyTouch(key, t) ==
    /\ keys' = (keys \ KeysWithId(key.id)) \union
           {[k EXCEPT !.lastUsed = t] : k \in KeysWithId(key.id)}
    /\ UNCHANGED keySeq

\* Ids and hashes identify keys: whoever presents a key gets one record, and
\* its rights (migrations.go: the unique index and AUTOINCREMENT).
KeyIntegrity ==
    /\ \A k, l \in keys : k.id = l.id \/ k.hash = l.hash => k = l
    /\ \A k \in keys : k.id \in 1 .. keySeq
=============================================================================
