------------------------------- MODULE KeyProofs -------------------------------
(***************************************************************************)
(* Proofs about the API keys, for any number of keys, requests and         *)
(* commands: first Authentication, then the commands of KeyCommands.       *)
(*                                                                         *)
(* None of Authentication's properties is inductive: each rests on what an *)
(* id still means after its row is gone.  AuthInv says so for everybody    *)
(* who holds one, the answer to a creation, a deletion and a request's     *)
(* copy of the row; a new id, above all that were given out, matches none  *)
(* of them.                                                                *)
(***************************************************************************)
EXTENDS KeyCommands, TLAPS

\* A key has the hash of the request that created it, and the id which that
\* request answered.
CreatedInv ==
    \A c \in CreateKeyReq :
        /\ kc[c].pc = "idle" => \A k \in keys : k.hash # c
        /\ kc[c].pc = "200" =>
               /\ kc[c].id \in 1 .. keySeq
               /\ \A k \in keys : k.hash = c => k.id = kc[c].id

\* A deleted id has no row.
DeletedInv ==
    \A d \in DeleteKeyReq : kd[d].pc = "200" =>
        /\ kd[d].id \in 1 .. keySeq
        /\ \A k \in keys : k.id # kd[d].id

Holding == {"serve", "stamp", "write", "done"}

\* The row that a request's copy was read from, if it is still there.
HeldInv ==
    \A q \in Request : rq[q].pc \in Holding =>
        /\ rq[q].key \in ApiKey
        /\ rq[q].key.id \in 1 .. keySeq
        /\ rq[q].key.hash = rq[q].hash
        /\ \A k \in keys : k.id = rq[q].key.id =>
               /\ k.hash = rq[q].hash
               /\ rq[q].key.lastUsed # Never => k.lastUsed # Never
        /\ rq[q].pc = "done" /\ faults = 0 =>
               \A k \in keys : k.id = rq[q].key.id => k.lastUsed # Never

AuthInv ==
    /\ AuthTypeOK
    /\ KeyIntegrity
    /\ CreatedInv
    /\ DeletedInv
    /\ DeletedOnce
    /\ HeldInv
    /\ StampsOwnKey

-----------------------------------------------------------------------------

LEMMA AuthInitInv == AuthInit => AuthInv
  <1> SUFFICES ASSUME AuthInit PROVE AuthInv
    OBVIOUS
  <1> USE DEF AuthInit, KeyInit, EnvironmentInit
  <1>1. AuthTypeOK
    BY KeyAssumption, EnvironmentAssumption, ClockAssumption
    DEF AuthTypeOK, EnvironmentTypeOK, KeyTypeOK, KeyCreateState, KeyDeleteState,
        RequestState, Instant
  <1>2. KeyIntegrity /\ CreatedInv /\ DeletedInv /\ DeletedOnce /\ HeldInv /\ StampsOwnKey
    BY DEF KeyIntegrity, CreatedInv, DeletedInv, DeletedOnce, HeldInv, StampsOwnKey, Holding
  <1> QED
    BY <1>1, <1>2 DEF AuthInv

-----------------------------------------------------------------------------
(* What a statement does to the rows. *)

LEMMA CreateRow ==
  ASSUME KeyTypeOK, NEW c \in KeyHash, NEW readOnly \in BOOLEAN, KeyCreate(c, readOnly)
  PROVE  /\ KeyTypeOK'
         /\ keySeq' = keySeq + 1
         /\ NextKeyId = keySeq + 1
         /\ keys \subseteq keys'
         /\ \A k \in keys : k.hash # c
         /\ \A k \in keys' \ keys : k.id = keySeq + 1 /\ k.hash = c /\ k.lastUsed = Never
         /\ \A k, l \in keys' \ keys : k = l
  <1> DEFINE row == [id |-> keySeq + 1, hash |-> c, readOnly |-> readOnly, lastUsed |-> Never]
  <1>1. keySeq \in Nat /\ keySeq < MaxKeyId /\ MaxKeyId \in Nat
    BY KeyAssumption DEF KeyCreate, KeyCreatable, KeyTypeOK
  <1>2. keySeq' = keySeq + 1 /\ NextKeyId = keySeq + 1
    BY <1>1 DEF KeyCreate, NextKeyId
  <1>3. keys' = keys \union {row}
    BY <1>2 DEF KeyCreate
  <1>4. row \in ApiKey
    BY <1>1 DEF ApiKey
  <1>5. KeyTypeOK'
    BY <1>1, <1>2, <1>3, <1>4 DEF KeyTypeOK
  <1>6. \A k \in keys : k.hash # c
    BY DEF KeyCreate, KeyCreatable, KeysWithHash
  <1> QED
    BY <1>2, <1>3, <1>5, <1>6

LEMMA TouchRow ==
  ASSUME KeyTypeOK, NEW key \in ApiKey, NEW t \in Instant, KeyTouch(key, t)
  PROVE  /\ KeyTypeOK'
         /\ keySeq' = keySeq
         /\ \A l \in keys' : \E k \in keys :
                /\ l.id = k.id
                /\ l.hash = k.hash
                /\ k.id # key.id => l = k
                /\ k.id = key.id => l = [k EXCEPT !.lastUsed = t]
  <1>1. ASSUME NEW k \in keys
        PROVE  /\ [k EXCEPT !.lastUsed = t] \in ApiKey
               /\ [k EXCEPT !.lastUsed = t].id = k.id
               /\ [k EXCEPT !.lastUsed = t].hash = k.hash
    BY DEF KeyTypeOK, ApiKey
  <1>2. keySeq' = keySeq
    BY DEF KeyTouch
  <1>3. \A l \in keys' :
          \/ l \in keys /\ l.id # key.id
          \/ \E k \in keys : k.id = key.id /\ l = [k EXCEPT !.lastUsed = t]
    BY DEF KeyTouch, KeysWithId
  <1>4. keys' \subseteq ApiKey
    BY <1>1, <1>3 DEF KeyTypeOK
  <1> QED
    BY <1>1, <1>2, <1>3, <1>4 DEF KeyTypeOK

-----------------------------------------------------------------------------
(* One lemma per kind of step. *)

LEMMA CreateKeyStep ==
  ASSUME AuthInv, NEW c \in CreateKeyReq, CreateKey(c)
  PROVE  AuthInv'
  <1> USE DEF AuthInv
  <1>0. c \in KeyHash
    BY AuthenticationAssumption
  <1>1. PICK readOnly \in BOOLEAN :
          \/ /\ KeyCreate(c, readOnly)
             /\ \/ kc' = [kc EXCEPT ![c] = [pc |-> "200", id |-> NextKeyId]]
                \/ kc' = [kc EXCEPT ![c] = [pc |-> "lost", id |-> 0]]
          \/ /\ kc' = [kc EXCEPT ![c] = [pc |-> "500", id |-> 0]]
             /\ UNCHANGED keyVars
    BY DEF CreateKey
  <1>2. /\ kc[c].pc = "idle"
        /\ UNCHANGED <<kd, rq>>
        /\ EnvironmentTypeOK'
        /\ faults' = 0 => faults = 0
    BY EnvironmentAssumption
    DEF CreateKey, Fault, NoFault, envVars, AuthTypeOK, EnvironmentTypeOK
  <1>3. CASE KeyCreate(c, readOnly)
    <2>1. /\ KeyTypeOK'
          /\ keySeq' = keySeq + 1
          /\ NextKeyId = keySeq + 1
          /\ keys \subseteq keys'
          /\ \A k \in keys : k.hash # c
          /\ \A k \in keys' \ keys : k.id = keySeq + 1 /\ k.hash = c /\ k.lastUsed = Never
          /\ \A k, l \in keys' \ keys : k = l
      BY <1>0, <1>3, CreateRow DEF AuthTypeOK
    <2>2. keySeq \in Nat /\ keys \subseteq ApiKey /\ \A k \in keys : k.id \in 1 .. keySeq
      BY KeyAssumption DEF AuthTypeOK, KeyTypeOK, KeyIntegrity
    <2>3. AuthTypeOK'
      BY <1>1, <1>2, <2>1, <2>2 DEF AuthTypeOK, KeyCreateState
    <2>4. KeyIntegrity'
      BY <2>1, <2>2 DEF KeyIntegrity
    <2>5. CreatedInv'
      <3> SUFFICES ASSUME NEW d \in CreateKeyReq
                   PROVE  /\ kc'[d].pc = "idle" => \A k \in keys' : k.hash # d
                          /\ kc'[d].pc = "200" =>
                                 /\ kc'[d].id \in 1 .. keySeq'
                                 /\ \A k \in keys' : k.hash = d => k.id = kc'[d].id
        BY DEF CreatedInv
      <3>1. CASE d = c
        BY <1>1, <2>1, <2>2, <3>1 DEF AuthTypeOK, KeyCreate, keyVars
      <3>2. CASE d # c
        BY <1>1, <2>1, <2>2, <3>2 DEF AuthTypeOK, CreatedInv
      <3> QED
        BY <3>1, <3>2
    <2>6. DeletedInv' /\ DeletedOnce'
      BY <1>2, <2>1, <2>2 DEF DeletedInv, DeletedOnce
    <2>7. HeldInv'
      BY <1>2, <2>1, <2>2 DEF HeldInv
    <2>8. StampsOwnKey'
      BY <1>2, <2>1 DEF StampsOwnKey
    <2> QED
      BY <2>3, <2>4, <2>5, <2>6, <2>7, <2>8
  <1>4. CASE /\ kc' = [kc EXCEPT ![c] = [pc |-> "500", id |-> 0]]
             /\ UNCHANGED keyVars
    <2>1. keys' = keys /\ keySeq' = keySeq
      BY <1>4 DEF keyVars
    <2>2. AuthTypeOK'
      BY <1>2, <1>4, <2>1 DEF AuthTypeOK, KeyTypeOK, KeyCreateState
    <2>3. CreatedInv'
      BY <1>4, <2>1 DEF CreatedInv, AuthTypeOK
    <2> QED
      BY <1>2, <2>1, <2>2, <2>3
      DEF KeyIntegrity, DeletedInv, DeletedOnce, HeldInv, StampsOwnKey
  <1> QED
    BY <1>1, <1>3, <1>4

LEMMA DeleteKeyStep ==
  ASSUME AuthInv, NEW d \in DeleteKeyReq, DeleteKey(d)
  PROVE  AuthInv'
  <1> USE DEF AuthInv
  <1>1. PICK i \in 1 .. MaxKeyId :
          \/ /\ KeyDelete(i)
             /\ kd' = [kd EXCEPT ![d] = [pc |-> IF KeysWithId(i) = {} THEN "404" ELSE "200",
                                         id |-> i]]
          \/ /\ kd' = [kd EXCEPT ![d] = [pc |-> "500", id |-> i]]
             /\ UNCHANGED keyVars
    BY DEF DeleteKey
  <1>2. /\ UNCHANGED <<kc, rq>>
        /\ EnvironmentTypeOK'
        /\ faults' = 0 => faults = 0
    BY EnvironmentAssumption
    DEF DeleteKey, Fault, NoFault, envVars, AuthTypeOK, EnvironmentTypeOK
  <1>3. /\ keySeq' = keySeq
        /\ keys' \subseteq keys
        /\ kd'[d].pc = "200" => /\ kd'[d].id = i
                                /\ \E k \in keys : k.id = i
                                /\ \A k \in keys' : k.id # i
        /\ kd'[d].pc \in {"200", "404", "500"}
        /\ \A e \in DeleteKeyReq \ {d} : kd'[e] = kd[e]
    BY <1>1 DEF KeyDelete, KeysWithId, keyVars, AuthTypeOK
  <1>4. AuthTypeOK'
    BY <1>1, <1>2, <1>3, KeyAssumption DEF AuthTypeOK, KeyTypeOK, KeyDeleteState
  <1>5. KeyIntegrity' /\ CreatedInv' /\ HeldInv' /\ StampsOwnKey'
    BY <1>2, <1>3 DEF KeyIntegrity, CreatedInv, HeldInv, StampsOwnKey
  <1>6. DeletedInv'
    BY <1>3 DEF DeletedInv, KeyIntegrity
  <1>7. DeletedOnce'
    <2> SUFFICES ASSUME NEW a \in DeleteKeyReq, NEW b \in DeleteKeyReq,
                        kd'[a].pc = "200", kd'[b].pc = "200", kd'[a].id = kd'[b].id, a # b
                 PROVE  FALSE
      BY DEF DeletedOnce
    <2>1. CASE a # d /\ b # d
      BY <1>3, <2>1 DEF DeletedOnce
    <2>2. CASE a = d \/ b = d
      BY <1>3, <2>2 DEF DeletedInv
    <2> QED
      BY <2>1, <2>2
  <1> QED
    BY <1>4, <1>5, <1>6, <1>7
LEMMA AuthenticateStep ==
  ASSUME AuthInv, NEW q \in Request, Authenticate(q)
  PROVE  AuthInv'
  <1> USE DEF AuthInv
  <1>1. PICK h \in KeyHash :
          \/ \E status \in {"401", "403"} :
                rq' = [rq EXCEPT ![q] = [pc |-> status, hash |-> h, key |-> NoKey, at |-> 0]]
          \/ \E k \in KeysWithHash(h) :
                rq' = [rq EXCEPT ![q] = [pc |-> "serve", hash |-> h, key |-> k, at |-> 0]]
    BY DEF Authenticate, RequestAnswer
  <1>2. /\ UNCHANGED <<keyVars, kc, kd>>
        /\ rq[q].pc = "idle"
        /\ EnvironmentTypeOK'
        /\ faults' = 0 => faults = 0
    BY EnvironmentAssumption
    DEF Authenticate, Fault, NoFault, envVars, AuthTypeOK, EnvironmentTypeOK
  <1>3. keys' = keys /\ keySeq' = keySeq /\ 0 \in Instant
    BY <1>2, ClockAssumption DEF keyVars, Instant
  <1>4. \A k \in KeysWithHash(h) : k \in keys /\ k \in ApiKey /\ k.hash = h
    BY DEF KeysWithHash, AuthTypeOK, KeyTypeOK
  <1>5. AuthTypeOK'
    BY <1>1, <1>2, <1>3, <1>4 DEF AuthTypeOK, KeyTypeOK, RequestState
  <1>6. KeyIntegrity' /\ CreatedInv' /\ DeletedInv' /\ DeletedOnce'
    BY <1>2, <1>3 DEF KeyIntegrity, CreatedInv, DeletedInv, DeletedOnce
  <1>7. HeldInv'
    <2>1. ASSUME NEW o \in Request \ {q}
          PROVE  rq'[o] = rq[o]
      BY <1>1 DEF AuthTypeOK
    <2>2. rq'[q].pc \in Holding =>
            /\ rq'[q].pc # "done"
            /\ rq'[q].key \in keys
            /\ rq'[q].key \in ApiKey
            /\ rq'[q].key.hash = rq'[q].hash
      BY <1>1, <1>4 DEF AuthTypeOK, Holding
    <2> QED
      BY <1>2, <1>3, <2>1, <2>2 DEF HeldInv, KeyIntegrity
  <1>8. StampsOwnKey'
    BY <1>1, <1>2, <1>3 DEF StampsOwnKey, AuthTypeOK
  <1> QED
    BY <1>5, <1>6, <1>7, <1>8

\* A request, or its goroutine, moves on without touching the table.
LEMMA MoveOnStep ==
  ASSUME AuthInv, NEW q \in Request, Served(q) \/ Stamp(q)
  PROVE  AuthInv'
  <1> USE DEF AuthInv
  <1>1. /\ UNCHANGED <<envVars, keyVars, kc, kd>>
        /\ rq[q].pc \in {"serve", "stamp"}
        /\ \E pc \in {"stamp", "write", "done"} :
               /\ rq' = [rq EXCEPT ![q].pc = pc, ![q].at = now]
               /\ pc = "done" => ~ TouchDue(rq[q].key)
    BY DEF Served, Stamp, NoFault
  <1>2. keys' = keys /\ keySeq' = keySeq /\ faults' = faults /\ now \in Instant
    BY <1>1 DEF keyVars, envVars, AuthTypeOK, EnvironmentTypeOK
  <1>3. /\ rq'[q].key = rq[q].key
        /\ rq'[q].hash = rq[q].hash
        /\ rq'[q].pc \in {"stamp", "write", "done"}
        /\ rq'[q].pc = "done" => rq[q].key.lastUsed # Never
        /\ \A o \in Request \ {q} : rq'[o] = rq[o]
    BY <1>1 DEF AuthTypeOK, RequestState, TouchDue
  <1>4. AuthTypeOK'
    <2>1. PICK pc \in {"stamp", "write", "done"} :
             rq' = [rq EXCEPT ![q].pc = pc, ![q].at = now]
      BY <1>1
    <2>2. rq' \in [Request -> RequestState]
      BY <1>2, <2>1 DEF AuthTypeOK, RequestState
    <2> QED
      BY <1>1, <1>2, <2>2 DEF AuthTypeOK, KeyTypeOK, EnvironmentTypeOK, envVars
  <1>5. KeyIntegrity' /\ CreatedInv' /\ DeletedInv' /\ DeletedOnce'
    BY <1>1, <1>2 DEF KeyIntegrity, CreatedInv, DeletedInv, DeletedOnce
  <1>6. HeldInv'
    <2> SUFFICES ASSUME NEW o \in Request, rq'[o].pc \in Holding
                 PROVE  /\ rq'[o].key \in ApiKey
                        /\ rq'[o].key.id \in 1 .. keySeq'
                        /\ rq'[o].key.hash = rq'[o].hash
                        /\ \A k \in keys' : k.id = rq'[o].key.id =>
                               /\ k.hash = rq'[o].hash
                               /\ rq'[o].key.lastUsed # Never => k.lastUsed # Never
                        /\ rq'[o].pc = "done" /\ faults' = 0 =>
                               \A k \in keys' : k.id = rq'[o].key.id => k.lastUsed # Never
      BY DEF HeldInv
    <2>1. CASE o = q
      BY <1>1, <1>2, <1>3, <2>1 DEF HeldInv, Holding
    <2>2. CASE o # q
      BY <1>2, <1>3, <2>2 DEF HeldInv
    <2> QED
      BY <2>1, <2>2
  <1>7. StampsOwnKey'
    <2>1. \A o \in Request : rq[o].pc = "done" => rq'[o] = rq[o]
      BY <1>1, <1>3
    <2> QED
      BY <1>2, <2>1 DEF StampsOwnKey
  <1> QED
    BY <1>4, <1>5, <1>6, <1>7

LEMMA WriteStampStep ==
  ASSUME AuthInv, NEW q \in Request, WriteStamp(q)
  PROVE  AuthInv'
  <1> USE DEF AuthInv
  <1>1. /\ rq[q].pc = "write"
        /\ rq' = [rq EXCEPT ![q].pc = "done"]
        /\ UNCHANGED <<kc, kd>>
        /\ EnvironmentTypeOK'
        /\ faults' = 0 => faults = 0
    BY EnvironmentAssumption
    DEF WriteStamp, Fault, NoFault, envVars, AuthTypeOK, EnvironmentTypeOK
  <1>2. /\ rq'[q].key = rq[q].key
        /\ rq'[q].hash = rq[q].hash
        /\ rq'[q].pc = "done"
        /\ \A o \in Request \ {q} : rq'[o] = rq[o]
    BY <1>1 DEF AuthTypeOK, RequestState
  <1>3. /\ rq[q].key \in ApiKey
        /\ rq[q].at \in Instant
        /\ \A k \in keys : k.id = rq[q].key.id => k.hash = rq[q].hash
    BY <1>1 DEF HeldInv, Holding, AuthTypeOK, RequestState
  <1>4. \/ KeyTouch(rq[q].key, rq[q].at)
        \/ UNCHANGED keyVars /\ faults' # 0
    <2>1. KeyTouch(rq[q].key, rq[q].at) \/ (Fault /\ UNCHANGED keyVars)
      BY DEF WriteStamp
    <2>2. ASSUME Fault PROVE faults' # 0
      BY <2>2 DEF Fault, AuthTypeOK, EnvironmentTypeOK
    <2> QED
      BY <2>1, <2>2
  <1>5. /\ KeyTypeOK'
        /\ keySeq' = keySeq
        /\ \A l \in keys' : \E k \in keys :
               /\ l.id = k.id
               /\ l.hash = k.hash
               /\ k.lastUsed # Never => l.lastUsed # Never
               /\ k.id # rq[q].key.id => l = k
               /\ k.id = rq[q].key.id /\ faults' = 0 => l.lastUsed # Never
               /\ l.lastUsed # Never => k.lastUsed # Never \/ k.id = rq[q].key.id
        /\ \A k, l \in keys' : k.id = l.id => k = l
    <2>1. CASE KeyTouch(rq[q].key, rq[q].at)
      <3>1. /\ KeyTypeOK'
            /\ keySeq' = keySeq
            /\ \A l \in keys' : \E k \in keys :
                   /\ l.id = k.id
                   /\ l.hash = k.hash
                   /\ k.id # rq[q].key.id => l = k
                   /\ k.id = rq[q].key.id => l = [k EXCEPT !.lastUsed = rq[q].at]
        BY <1>3, <2>1, TouchRow DEF AuthTypeOK
      <3>2. \A k \in keys : [k EXCEPT !.lastUsed = rq[q].at].lastUsed # Never
        BY <1>3, KeyAssumption DEF AuthTypeOK, KeyTypeOK, ApiKey
      <3>3. \A l \in keys' : \E k \in keys :
               /\ l.id = k.id
               /\ l.hash = k.hash
               /\ k.id # rq[q].key.id => l = k
               /\ k.id = rq[q].key.id => l.lastUsed # Never
        BY <3>1, <3>2
      <3>4. \A k, l \in keys : k.id = l.id => k = l
        BY DEF KeyIntegrity
      <3>5. \A k, l \in keys' : k.id = l.id => k = l
        <4> SUFFICES ASSUME NEW k \in keys', NEW l \in keys', k.id = l.id
                     PROVE  k = l
          OBVIOUS
        <4>1. PICK a \in keys : /\ k.id = a.id
                                /\ a.id # rq[q].key.id => k = a
                                /\ a.id = rq[q].key.id => k = [a EXCEPT !.lastUsed = rq[q].at]
          BY <3>1
        <4>2. PICK b \in keys : /\ l.id = b.id
                                /\ b.id # rq[q].key.id => l = b
                                /\ b.id = rq[q].key.id => l = [b EXCEPT !.lastUsed = rq[q].at]
          BY <3>1
        <4>3. a = b
          BY <3>4, <4>1, <4>2
        <4> QED
          BY <4>1, <4>2, <4>3
      <3>6. \A l \in keys' : \E k \in keys :
               /\ l.id = k.id
               /\ l.hash = k.hash
               /\ k.lastUsed # Never => l.lastUsed # Never
               /\ k.id # rq[q].key.id => l = k
               /\ k.id = rq[q].key.id /\ faults' = 0 => l.lastUsed # Never
               /\ l.lastUsed # Never => k.lastUsed # Never \/ k.id = rq[q].key.id
        <4> SUFFICES ASSUME NEW l \in keys'
                     PROVE  \E k \in keys :
                               /\ l.id = k.id
                               /\ l.hash = k.hash
                               /\ k.lastUsed # Never => l.lastUsed # Never
                               /\ k.id # rq[q].key.id => l = k
                               /\ k.id = rq[q].key.id /\ faults' = 0 => l.lastUsed # Never
                               /\ l.lastUsed # Never =>
                                      k.lastUsed # Never \/ k.id = rq[q].key.id
          OBVIOUS
        <4>1. PICK k \in keys :
                 /\ l.id = k.id
                 /\ l.hash = k.hash
                 /\ k.id # rq[q].key.id => l = k
                 /\ k.id = rq[q].key.id => l.lastUsed # Never
          BY <3>3
        <4> QED
          BY <4>1
      <3> QED
        BY <3>1, <3>5, <3>6
    <2>2. CASE UNCHANGED keyVars /\ faults' # 0
      BY <2>2 DEF keyVars, AuthTypeOK, KeyTypeOK, KeyIntegrity
    <2> QED
      BY <1>4, <2>1, <2>2
  <1>6. AuthTypeOK'
    BY <1>1, <1>5 DEF AuthTypeOK, RequestState
  <1>7. KeyIntegrity'
    BY <1>5 DEF KeyIntegrity
  <1>8. CreatedInv' /\ DeletedInv' /\ DeletedOnce'
    BY <1>1, <1>5 DEF CreatedInv, DeletedInv, DeletedOnce
  <1>9. HeldInv'
    <2> SUFFICES ASSUME NEW o \in Request, rq'[o].pc \in Holding
                 PROVE  /\ rq'[o].key \in ApiKey
                        /\ rq'[o].key.id \in 1 .. keySeq'
                        /\ rq'[o].key.hash = rq'[o].hash
                        /\ \A k \in keys' : k.id = rq'[o].key.id =>
                               /\ k.hash = rq'[o].hash
                               /\ rq'[o].key.lastUsed # Never => k.lastUsed # Never
                        /\ rq'[o].pc = "done" /\ faults' = 0 =>
                               \A k \in keys' : k.id = rq'[o].key.id => k.lastUsed # Never
      BY DEF HeldInv
    <2>1. CASE o = q
      BY <1>1, <1>2, <1>5, <2>1 DEF HeldInv, Holding
    <2>2. CASE o # q
      BY <1>1, <1>2, <1>5, <2>2 DEF HeldInv
    <2> QED
      BY <2>1, <2>2
  <1>10. StampsOwnKey'
    <2> SUFFICES ASSUME NEW l \in keys', l.lastUsed # Never
                 PROVE  \E o \in Request : rq'[o].hash = l.hash /\ rq'[o].pc = "done"
      BY DEF StampsOwnKey
    <2>1. PICK k \in keys : /\ l.hash = k.hash
                            /\ k.lastUsed # Never \/ k.id = rq[q].key.id
      BY <1>5
    <2>2. CASE k.lastUsed # Never
      BY <1>2, <2>1, <2>2 DEF StampsOwnKey
    <2>3. CASE k.id = rq[q].key.id
      BY <1>2, <1>3, <2>1, <2>3
    <2> QED
      BY <2>1, <2>2, <2>3
  <1> QED
    BY <1>6, <1>7, <1>8, <1>9, <1>10

LEMMA AuthCrashStep ==
  ASSUME AuthInv, AuthCrash
  PROVE  AuthInv'
  <1> USE DEF AuthInv
  <1>1. /\ UNCHANGED <<keyVars, kc, kd>>
        /\ EnvironmentTypeOK'
        /\ faults' = 0 => faults = 0
    BY EnvironmentAssumption
    DEF AuthCrash, Fault, AuthTypeOK, EnvironmentTypeOK
  <1>2. keys' = keys /\ keySeq' = keySeq
    BY <1>1 DEF keyVars
  <1>3. \A q \in Request :
          \/ rq'[q] = rq[q]
          \/ rq[q].pc # "done" /\ rq'[q] = [rq[q] EXCEPT !.pc = "lost"]
    BY DEF AuthCrash
  <1>4. \A q \in Request : [rq[q] EXCEPT !.pc = "lost"].pc = "lost"
    BY DEF AuthTypeOK, RequestState
  <1>5. AuthTypeOK'
    <2>1. \A q \in Request : [rq[q] EXCEPT !.pc = "lost"] \in RequestState
      BY DEF AuthTypeOK, RequestState
    <2>2. rq' \in [Request -> RequestState]
      BY <2>1 DEF AuthCrash, AuthTypeOK
    <2> QED
      BY <1>1, <1>2, <2>2 DEF AuthTypeOK, KeyTypeOK
  <1>6. KeyIntegrity' /\ CreatedInv' /\ DeletedInv' /\ DeletedOnce'
    BY <1>1, <1>2 DEF KeyIntegrity, CreatedInv, DeletedInv, DeletedOnce
  <1>7. HeldInv'
    <2>1. \A q \in Request : rq'[q].pc \in Holding => rq'[q] = rq[q]
      BY <1>3, <1>4 DEF Holding
    <2> QED
      BY <1>1, <1>2, <2>1 DEF HeldInv
  <1>8. StampsOwnKey'
    <2>1. \A q \in Request : rq[q].pc = "done" => rq'[q] = rq[q]
      BY <1>3
    <2> QED
      BY <1>2, <2>1 DEF StampsOwnKey
  <1> QED
    BY <1>5, <1>6, <1>7, <1>8

LEMMA AuthTickStep ==
  ASSUME AuthInv, AuthTick \/ UNCHANGED authVars
  PROVE  AuthInv'
  <1> USE DEF AuthInv
  <1>1. /\ keys' = keys /\ keySeq' = keySeq /\ kc' = kc /\ kd' = kd /\ rq' = rq
        /\ faults' = faults
        /\ EnvironmentTypeOK'
    BY ClockAssumption
    DEF AuthTick, Tick, authVars, envVars, keyVars, AuthTypeOK, EnvironmentTypeOK, Instant
  <1> QED
    BY <1>1 DEF AuthTypeOK, KeyTypeOK, KeyIntegrity, CreatedInv, DeletedInv, DeletedOnce,
                HeldInv, StampsOwnKey

LEMMA AuthInvariant == AuthSpec => []AuthInv
  <1>1. AuthInv /\ [AuthNext]_authVars => AuthInv'
    BY CreateKeyStep, DeleteKeyStep, AuthenticateStep, MoveOnStep, WriteStampStep,
       AuthCrashStep, AuthTickStep
    DEF AuthNext
  <1> QED
    BY <1>1, AuthInitInv, PTL DEF AuthSpec

-----------------------------------------------------------------------------

\* Types of the table, of every request and of its goroutine.
THEOREM AuthTypeCorrect == AuthSpec => []AuthTypeOK
  BY AuthInvariant, PTL DEF AuthInv

\* A deleted key stays deleted, for any number of keys, requests and
\* goroutines that still hold its record.
THEOREM RevokedKeysStayOut == AuthSpec => []RevokedStaysOut
  <1>1. AuthInv => RevokedStaysOut
    BY AuthenticationAssumption
    DEF AuthInv, CreatedInv, DeletedInv, RevokedStaysOut, KeysWithHash
  <1> QED
    BY <1>1, AuthInvariant, PTL

\* No two deletions by one id both delete a key.
THEOREM KeysAreDeletedOnce == AuthSpec => []DeletedOnce
  BY AuthInvariant, PTL DEF AuthInv

\* A goroutine that outlives its key never marks another one.
THEOREM StampsAreOwn == AuthSpec => []StampsOwnKey
  BY AuthInvariant, PTL DEF AuthInv

LEMMA Authenticates ==
  ASSUME AuthInv, NEW q \in Request, Authenticate(q)
  PROVE  /\ rq'[q].pc \in {"serve", "401", "403"}
         /\ \A o \in Request \ {q} : rq'[o] = rq[o]
  <1>1. \E h \in KeyHash :
          \/ \E status \in {"401", "403"} :
                rq' = [rq EXCEPT ![q] = [pc |-> status, hash |-> h, key |-> NoKey, at |-> 0]]
          \/ \E k \in KeysWithHash(h) :
                rq' = [rq EXCEPT ![q] = [pc |-> "serve", hash |-> h, key |-> k, at |-> 0]]
    BY DEF Authenticate, RequestAnswer
  <1> QED
    BY <1>1 DEF AuthInv, AuthTypeOK

\* A goroutine that is under way read the clock more than a minute after the
\* mark that its request found.
DueInv ==
    \A q \in Request : rq[q].pc \in {"stamp", "write"} =>
        /\ rq[q].at <= now
        /\ rq[q].key.lastUsed # Never => rq[q].at > rq[q].key.lastUsed + 1

LEMMA AuthStepDue == AuthInv /\ DueInv /\ [AuthNext]_authVars => DueInv'
  <1> SUFFICES ASSUME AuthInv, DueInv, [AuthNext]_authVars PROVE DueInv'
    OBVIOUS
  <1>1. /\ rq \in [Request -> RequestState] /\ now \in Int
        /\ \A q \in Request : rq[q].at \in Int
        /\ \A q \in Request : rq[q].pc \in Holding /\ rq[q].key.lastUsed # Never
                              => rq[q].key.lastUsed \in Int
    BY DEF AuthInv, AuthTypeOK, EnvironmentTypeOK, RequestState, HeldInv, ApiKey, Instant
  <1>2. ASSUME NEW q \in Request, Authenticate(q) \/ WriteStamp(q) PROVE DueInv'
    <2>1. now' = now
      BY <1>2 DEF Authenticate, WriteStamp, Fault, NoFault, envVars
    <2>2. rq'[q].pc \notin {"stamp", "write"} /\ \A o \in Request \ {q} : rq'[o] = rq[o]
      BY <1>1, <1>2, Authenticates DEF WriteStamp, RequestState
    <2> QED
      BY <2>1, <2>2 DEF DueInv
  <1>3. ASSUME NEW q \in Request, Served(q) PROVE DueInv'
    <2>1. now' = now /\ \A o \in Request \ {q} : rq'[o] = rq[o]
      BY <1>1, <1>3 DEF Served, NoFault, envVars
    <2>2. /\ rq'[q].at = now /\ rq'[q].key = rq[q].key
          /\ rq'[q].pc = IF TouchDue(rq[q].key) THEN "stamp" ELSE "done"
      BY <1>1, <1>3 DEF Served, RequestState
    <2>3. rq[q].pc \in Holding
      BY <1>3 DEF Served, Holding
    <2>4. rq'[q].pc = "stamp" /\ rq[q].key.lastUsed # Never => now > rq[q].key.lastUsed + 1
      BY <1>1, <2>2, <2>3 DEF TouchDue
    <2>5. rq'[q].pc # "write"
      BY <2>2
    <2> QED
      BY <1>1, <2>1, <2>2, <2>4, <2>5 DEF DueInv
  <1>4. ASSUME NEW q \in Request, Stamp(q) PROVE DueInv'
    <2>1. now' = now /\ \A o \in Request \ {q} : rq'[o] = rq[o]
      BY <1>1, <1>4 DEF Stamp, NoFault, envVars
    <2>2. rq[q].pc = "stamp" /\ rq'[q].at = now /\ rq'[q].key = rq[q].key
      BY <1>1, <1>4 DEF Stamp, RequestState
    <2>3. rq[q].pc \in Holding
      BY <2>2 DEF Holding
    <2> QED
      BY <1>1, <2>1, <2>2, <2>3 DEF DueInv
  <1>5. CASE AuthCrash
    <2>1. now' = now
      BY <1>5 DEF AuthCrash, Fault
    <2>2. \A q \in Request : rq'[q].pc \notin {"stamp", "write"}
      <3>1. \A q \in Request : [rq[q] EXCEPT !.pc = "lost"].pc = "lost"
        BY <1>1 DEF RequestState
      <3> QED
        BY <1>5, <3>1 DEF AuthCrash
    <2> QED
      BY <2>2 DEF DueInv
  <1>6. CASE UNCHANGED rq /\ (now' = now \/ Tick)
    <2>1. now' \in Int /\ now <= now'
      BY <1>1, <1>6 DEF Tick
    <2> QED
      BY <1>1, <1>6, <2>1 DEF DueInv
  <1>7. ASSUME NEW c \in CreateKeyReq, CreateKey(c) PROVE UNCHANGED rq /\ now' = now
    BY <1>7 DEF CreateKey, Fault, NoFault, envVars
  <1>8. ASSUME NEW d \in DeleteKeyReq, DeleteKey(d) PROVE UNCHANGED rq /\ now' = now
    BY <1>8 DEF DeleteKey, Fault, NoFault, envVars
  <1> QED
    BY <1>2, <1>3, <1>4, <1>5, <1>6, <1>7, <1>8 DEF AuthNext, AuthTick, authVars, envVars

\* The mark of a row that was there is changed by a goroutine only, to the
\* instant at which it read the clock.
LEMMA MarkedBy ==
  ASSUME AuthInv, [AuthNext]_authVars,
         NEW l \in keys, NEW k \in keys', k.id = l.id, k.lastUsed # l.lastUsed
  PROVE  \E p \in Request :
            WriteStamp(p) /\ rq[p].key.id = l.id /\ k.lastUsed = rq[p].at
  <1>1. \A r \in keys : r.id = l.id => r = l
    BY DEF AuthInv, KeyIntegrity
  <1>2. k \notin keys
    BY <1>1
  <1>3. ASSUME NEW c \in CreateKeyReq, CreateKey(c) PROVE FALSE
    <2>1. PICK readOnly \in BOOLEAN : KeyCreate(c, readOnly)
      BY <1>2, <1>3 DEF CreateKey, keyVars
    <2>2. k.id = keySeq + 1
      BY <1>2, <2>1 DEF KeyCreate, NextKeyId
    <2>3. l.id \in 1 .. keySeq
      BY DEF AuthInv, KeyIntegrity
    <2> QED
      BY <2>2, <2>3 DEF AuthInv, AuthTypeOK, KeyTypeOK
  <1>4. ASSUME NEW d \in DeleteKeyReq, DeleteKey(d) PROVE keys' \subseteq keys
    BY <1>4 DEF DeleteKey, KeyDelete, keyVars
  <1>5. ASSUME NEW q \in Request, WriteStamp(q)
        PROVE  rq[q].key.id = l.id /\ k.lastUsed = rq[q].at
    <2>1. KeyTouch(rq[q].key, rq[q].at)
      BY <1>2, <1>5 DEF WriteStamp, keyVars
    <2>2. PICK r \in keys : r.id = rq[q].key.id /\ k = [r EXCEPT !.lastUsed = rq[q].at]
      BY <1>2, <2>1 DEF KeyTouch, KeysWithId
    <2>3. r \in ApiKey
      BY DEF AuthInv, AuthTypeOK, KeyTypeOK
    <2> QED
      BY <1>1, <2>2, <2>3 DEF ApiKey
  <1>6. ASSUME NEW q \in Request, Authenticate(q) \/ Served(q) \/ Stamp(q) PROVE keys' = keys
    BY <1>6 DEF Authenticate, Served, Stamp, keyVars
  <1>7. AuthTick \/ AuthCrash \/ UNCHANGED authVars => keys' = keys
    BY DEF AuthTick, AuthCrash, authVars, keyVars
  <1> QED
    BY <1>2, <1>3, <1>4, <1>5, <1>6, <1>7 DEF AuthNext

LEMMA UseRecordedStep ==
  ASSUME AuthInv, DueInv, AuthInv', [AuthNext]_authVars, faults' = 0,
         NEW q \in Request, NEW k \in keys', rq'[q].pc = "done", rq'[q].key.id = k.id
  PROVE  OnRecord(q, k)
  <1>0. /\ rq \in [Request -> RequestState]
        /\ now \in Int /\ \A o \in Request : rq[o].at \in Int
        /\ \A l \in keys : l \in ApiKey /\ (l.lastUsed # Never => l.lastUsed \in Int)
        /\ \A l \in keys' : l.lastUsed # Never => l.lastUsed \in Int
    BY DEF AuthInv, AuthTypeOK, KeyTypeOK, ApiKey, EnvironmentTypeOK, RequestState, Instant
  <1>1. k.lastUsed # Never
    BY DEF AuthInv, HeldInv, Holding
  <1>2. ASSUME rq[q].pc # "done", rq[q].key \in keys
        PROVE  rq'[q].at <= k.lastUsed + 1
    <2>1. Served(q) \/ WriteStamp(q)
      <3>1. ASSUME NEW o \in Request, o # q,
                   Authenticate(o) \/ Served(o) \/ Stamp(o) \/ WriteStamp(o)
            PROVE  FALSE
        BY <1>0, <1>2, <3>1, Authenticates DEF Served, Stamp, WriteStamp
      <3>2. ~ Authenticate(q) /\ ~ Stamp(q)
        BY <1>0, Authenticates DEF Stamp, RequestState
      <3>3. ~ AuthCrash
        BY <1>0, <1>2 DEF AuthCrash, RequestState
      <3>4. rq' # rq
        BY <1>2
      <3> QED
        BY <3>1, <3>2, <3>3, <3>4 DEF AuthNext, CreateKey, DeleteKey, AuthTick, authVars
    <2>2. CASE Served(q)
      <3>1. keys' = keys /\ rq'[q].at = now /\ rq'[q].key = rq[q].key
        BY <1>0, <2>2 DEF Served, keyVars, RequestState
      <3>2. k = rq[q].key
        BY <1>2, <3>1 DEF AuthInv, KeyIntegrity
      <3>3. ~ TouchDue(rq[q].key)
        BY <1>0, <2>2 DEF Served, RequestState
      <3> QED
        BY <1>0, <1>1, <3>1, <3>2, <3>3 DEF TouchDue
    <2>3. CASE WriteStamp(q)
      <3>1. rq'[q].at = rq[q].at /\ rq'[q].key = rq[q].key
        BY <1>0, <2>3 DEF WriteStamp, RequestState
      <3>2. KeyTouch(rq[q].key, rq[q].at)
        BY <2>3 DEF WriteStamp, Fault, AuthInv, AuthTypeOK, EnvironmentTypeOK
      <3>3. PICK r \in keys : k = [r EXCEPT !.lastUsed = rq[q].at]
        BY <3>1, <3>2 DEF KeyTouch, KeysWithId
      <3>4. k.lastUsed = rq[q].at
        BY <1>0, <3>3 DEF ApiKey
      <3> QED
        BY <1>0, <3>1, <3>4
    <2> QED
      BY <2>1, <2>2, <2>3
  <1>3. ASSUME NEW l \in keys, l.id = k.id, l.lastUsed # Never, k.lastUsed < l.lastUsed
        PROVE  \E p \in Request :
                  /\ rq[p].pc = "write" /\ rq'[p].pc = "done"
                  /\ rq[p].key.id = k.id /\ rq[p].key # l
    <2>1. k.lastUsed # l.lastUsed
      BY <1>0, <1>1, <1>3
    <2>2. PICK p \in Request :
             WriteStamp(p) /\ rq[p].key.id = l.id /\ k.lastUsed = rq[p].at
      BY <1>3, <2>1, MarkedBy
    <2>3. rq[p].pc = "write" /\ rq'[p].pc = "done"
      BY <1>0, <2>2 DEF WriteStamp, RequestState
    <2>4. rq[p].key # l
      BY <1>0, <1>3, <2>2, <2>3 DEF DueInv
    <2> QED
      BY <1>3, <2>2, <2>3, <2>4
  <1> QED
    BY <1>1, <1>2, <1>3 DEF OnRecord

\* Without faults, every use that is through is on record, a use of the last
\* minute unless the row was written meanwhile, and only a goroutine that was
\* overtaken sets a mark back, for any number of requests with a key.
THEOREM UsesAreRecorded == AuthSpec => UseIsRecorded
  <1>1. AuthInit => DueInv
    BY DEF AuthInit, DueInv
  <1>2. AuthInv /\ AuthInv' /\ DueInv /\ [AuthNext]_authVars =>
           [faults' = 0 => \A q \in Request, k \in keys' :
              rq'[q].pc = "done" /\ rq'[q].key.id = k.id => OnRecord(q, k)]_authVars
    BY UseRecordedStep
  <1> QED
    BY <1>1, <1>2, AuthStepDue, AuthInvariant, PTL DEF AuthSpec, UseIsRecorded

-----------------------------------------------------------------------------
(***************************************************************************)
(* The commands.  A step of a command is one of Authentication, or leaves  *)
(* its variables alone: all that is proved above carries over.  What a     *)
(* command holds is an id; ShownInv says what that id still means while    *)
(* others create and delete keys.                                          *)
(***************************************************************************)

\* The key with this id, if there is one, is the one that was listed.
Means(s) ==
    /\ s \in Listed
    /\ s.id \in 1 .. keySeq
    /\ \A k \in keys : k.id = s.id => k.hash = s.hash

ShownInv ==
    \A c \in Command :
        /\ \A s \in cmd[c].shown : Means(s)
        /\ cmd[c].key # NoItem => Means(cmd[c].key)

CommandInv ==
    /\ cmd \in [Command -> CommandState]
    /\ \A c \in Command : cmd[c].pc \in {"idle", "choose"} => cmd[c].key = NoItem
    /\ \A c \in DeleteKeyReq : Out(c) => cmd[c].key # NoItem

\* A key that was created is there, or somebody was given it to delete.
PrintedInv ==
    \A c \in CreateKeyReq :
        /\ cmd[c].pc = "ok" => kc[c].pc = "200"
        /\ kc[c].pc = "200" =>
               \/ \E k \in keys : k.hash = c
               \/ \E d \in Command : Revokes(d, c)

-----------------------------------------------------------------------------
(* Commands do to the keys what Authentication lets them do. *)

LEMMA CommandStepLeavesKeys ==
  ASSUME NEW c \in Command, KeyCommandStep(c)
  PROVE  UNCHANGED authVars
  BY DEF KeyCommandStep, ListKeys, ChooseName, ChooseKey, ChooseNoKey, KeyReply, KeyTimeout,
         NoFault, authVars

LEMMA CommandsStepAuth == [KeyCommandNext]_vars => [AuthNext]_authVars
  <1> SUFFICES ASSUME [KeyCommandNext]_vars PROVE [AuthNext]_authVars
    OBVIOUS
  <1>1. ASSUME NEW c \in Command, KeyCommandStep(c) PROVE UNCHANGED authVars
    BY <1>1, CommandStepLeavesKeys
  <1>2. ASSUME NEW c \in Command, HandleKeyRequest(c) PROVE AuthNext
    BY <1>2 DEF HandleKeyRequest, AuthNext
  <1>3. ASSUME NEW q \in Request, Serves(q) PROVE AuthNext
    BY <1>3 DEF Serves, AuthNext
  <1>4. ASSUME AuthTick \/ KeyServerCrash PROVE AuthNext
    BY <1>4 DEF KeyServerCrash, AuthNext
  <1>5. CASE UNCHANGED vars
    BY <1>5 DEF vars
  <1> QED
    BY <1>1, <1>2, <1>3, <1>4, <1>5 DEF KeyCommandNext

\* The keys of a server with commands behave as those of Authentication:
\* every theorem about AuthSpec holds of KeyCommandSpec too.
THEOREM CommandsImplementAuth == KeyCommandSpec => AuthSpec
  <1>1. KeyCommandInit => AuthInit
    BY DEF KeyCommandInit
  <1> QED
    BY <1>1, CommandsStepAuth, PTL DEF KeyCommandSpec, AuthSpec

LEMMA AuthHoldsOfCommands == KeyCommandSpec => []AuthInv
  BY CommandsImplementAuth, AuthInvariant, PTL

-----------------------------------------------------------------------------
(* What the table may do to the ids that somebody holds. *)

\* A row keeps its hash and its id; only a deletion of its id removes it.
RowsKept(removed) ==
    /\ keySeq' \in Nat /\ keySeq <= keySeq'
    /\ \A l \in keys' : l.id > keySeq \/ \E k \in keys : k.id = l.id /\ k.hash = l.hash
    /\ \A k \in keys : k.id \in removed \/ \E l \in keys' : l.id = k.id /\ l.hash = k.hash

LEMMA TouchKeepsRows ==
  ASSUME AuthInv, NEW key \in ApiKey, NEW t \in Instant, KeyTouch(key, t)
  PROVE  RowsKept({})
  <1>1. /\ keySeq' = keySeq
        /\ keySeq \in Nat
        /\ \A l \in keys' : \E k \in keys : l.id = k.id /\ l.hash = k.hash
    BY TouchRow, KeyAssumption DEF AuthInv, AuthTypeOK, KeyTypeOK
  <1>2. ASSUME NEW k \in keys PROVE \E l \in keys' : l.id = k.id /\ l.hash = k.hash
    <2>1. CASE k.id # key.id
      BY <2>1 DEF KeyTouch, KeysWithId
    <2>2. CASE k.id = key.id
      <3>1. [k EXCEPT !.lastUsed = t] \in keys'
        BY <2>2 DEF KeyTouch, KeysWithId
      <3>2. [k EXCEPT !.lastUsed = t].id = k.id /\ [k EXCEPT !.lastUsed = t].hash = k.hash
        BY DEF AuthInv, AuthTypeOK, KeyTypeOK, ApiKey
      <3> QED
        BY <3>1, <3>2
    <2> QED
      BY <2>1, <2>2
  <1> QED
    BY <1>1, <1>2 DEF RowsKept

LEMMA UnchangedKeepsRows ==
  ASSUME AuthInv, UNCHANGED keyVars
  PROVE  RowsKept({})
  BY KeyAssumption DEF AuthInv, AuthTypeOK, KeyTypeOK, keyVars, RowsKept

LEMMA CreateKeepsRows ==
  ASSUME AuthInv, NEW c \in CreateKeyReq, CreateKey(c)
  PROVE  RowsKept({})
  <1>1. PICK readOnly \in BOOLEAN : KeyCreate(c, readOnly) \/ UNCHANGED keyVars
    BY DEF CreateKey
  <1>2. CASE KeyCreate(c, readOnly)
    <2>1. /\ keySeq' = keySeq + 1
          /\ keySeq \in Nat
          /\ keys \subseteq keys'
          /\ \A k \in keys' \ keys : k.id = keySeq + 1
      BY <1>2, CreateRow, AuthenticationAssumption, KeyAssumption
      DEF AuthInv, AuthTypeOK, KeyTypeOK
    <2> QED
      BY <2>1 DEF RowsKept
  <1> QED
    BY <1>1, <1>2, UnchangedKeepsRows

LEMMA DeleteKeepsRows ==
  ASSUME AuthInv, NEW d \in DeleteKeyReq, DeleteKey(d)
  PROVE  RowsKept({kd'[d].id})
  <1>1. PICK i \in 1 .. MaxKeyId :
          /\ KeyDelete(i) \/ UNCHANGED keyVars
          /\ \E pc \in {"200", "404", "500"} : kd' = [kd EXCEPT ![d] = [pc |-> pc, id |-> i]]
    BY DEF DeleteKey
  <1>2. kd'[d].id = i
    BY <1>1 DEF AuthInv, AuthTypeOK
  <1> QED
    BY <1>1, <1>2, KeyAssumption
    DEF KeyDelete, KeysWithId, AuthInv, AuthTypeOK, KeyTypeOK, keyVars, RowsKept

LEMMA WriteStampKeepsRows ==
  ASSUME AuthInv, NEW q \in Request, WriteStamp(q)
  PROVE  RowsKept({})
  <1>1. rq[q].key \in ApiKey /\ rq[q].at \in Instant
    BY DEF AuthInv, HeldInv, Holding, WriteStamp, AuthTypeOK, RequestState
  <1>2. KeyTouch(rq[q].key, rq[q].at) \/ UNCHANGED keyVars
    BY DEF WriteStamp
  <1> QED
    BY <1>1, <1>2, TouchKeepsRows, UnchangedKeepsRows

\* Whatever happens, a row goes only by the request of a command that holds
\* its id.
Doomed == {cmd[c].key.id : c \in {d \in DeleteKeyReq : Out(d)}}

LEMMA RowsAreKept ==
  ASSUME AuthInv, [KeyCommandNext]_vars
  PROVE  RowsKept(Doomed)
  <1>1. ASSUME NEW removed, removed \subseteq Doomed, RowsKept(removed) PROVE RowsKept(Doomed)
    BY <1>1 DEF RowsKept
  <1>2. CASE UNCHANGED keyVars
    BY <1>2, <1>1, UnchangedKeepsRows
  <1>3. ASSUME NEW c \in Command, HandleKeyRequest(c) PROVE RowsKept(Doomed)
    <2>1. CASE c \in CreateKeyReq /\ CreateKey(c)
      BY <2>1, <1>1, CreateKeepsRows
    <2>2. CASE c \in DeleteKeyReq /\ DeleteKey(c) /\ kd'[c].id = cmd[c].key.id
      <3>1. {kd'[c].id} \subseteq Doomed
        BY <1>3, <2>2 DEF HandleKeyRequest, Doomed
      <3> QED
        BY <2>2, <3>1, <1>1, DeleteKeepsRows
    <2> QED
      BY <1>3, <2>1, <2>2 DEF HandleKeyRequest
  <1>4. ASSUME NEW q \in Request, Serves(q) PROVE RowsKept(Doomed)
    BY <1>1, <1>2, <1>4, WriteStampKeepsRows DEF Serves, Authenticate, Served, Stamp
  <1>5. ASSUME NEW c \in Command, KeyCommandStep(c) PROVE RowsKept(Doomed)
    BY <1>2, <1>5, CommandStepLeavesKeys DEF authVars
  <1>6. CASE AuthTick \/ KeyServerCrash \/ UNCHANGED vars
    BY <1>2, <1>6 DEF AuthTick, KeyServerCrash, AuthCrash, vars, authVars, keyVars
  <1> QED
    BY <1>3, <1>4, <1>5, <1>6 DEF KeyCommandNext

-----------------------------------------------------------------------------
(* What commands hold. *)

LEMMA CommandInitInv == KeyCommandInit => CommandInv /\ ShownInv /\ PrintedInv
  <1> SUFFICES ASSUME KeyCommandInit PROVE CommandInv /\ ShownInv /\ PrintedInv
    OBVIOUS
  <1>1. CommandInv
    BY DEF KeyCommandInit, CommandInv, CommandState, Out, Command
  <1>2. ShownInv
    BY DEF KeyCommandInit, ShownInv
  <1>3. PrintedInv
    BY AuthenticationAssumption DEF KeyCommandInit, AuthInit, PrintedInv, Command
  <1> QED
    BY <1>1, <1>2, <1>3

\* What a step does to a command.
LEMMA CommandMoves ==
  ASSUME CommandInv, KeyTypeOK, KeyIntegrity, [KeyCommandNext]_vars, NEW c \in Command
  PROVE  /\ cmd'[c] \in CommandState
         /\ cmd'[c].shown \subseteq cmd[c].shown \union ListedKeys
         /\ cmd'[c].key # NoItem => cmd'[c].key \in cmd[c].shown \union {cmd[c].key}
         /\ cmd[c].key # NoItem => cmd'[c].key = cmd[c].key
         /\ cmd'[c].pc \in {"idle", "choose"} => cmd'[c].key = NoItem
         /\ c \in DeleteKeyReq /\ cmd'[c].pc \in {"sent", "timeout"} => cmd'[c].key # NoItem
         /\ c \in CreateKeyReq /\ cmd'[c].pc = "ok" =>
                cmd[c].pc = "ok" \/ (kc[c].pc = "200" /\ kc' = kc)
  <1>1. /\ cmd[c] \in CommandState
        /\ cmd[c].pc \in {"idle", "choose"} => cmd[c].key = NoItem
        /\ c \in DeleteKeyReq /\ cmd[c].pc \in {"sent", "timeout"} => cmd[c].key # NoItem
    BY DEF CommandInv, Out
  <1>2. ListedKeys \subseteq Listed
    BY DEF ListedKeys, Listed, KeyTypeOK, ApiKey
  <1>3. cmd \in [Command -> CommandState]
    BY DEF CommandInv
  <1>4. CASE cmd'[c] = cmd[c]
    BY <1>1, <1>4
  <1>5. CASE cmd'[c] = [cmd[c] EXCEPT !.pc = "ended"]
    BY <1>1, <1>5 DEF CommandState
  <1>6. ASSUME ListKeys(c)
        PROVE  \/ cmd'[c] = [cmd[c] EXCEPT !.pc = "choose", !.shown = ListedKeys]
               \/ cmd'[c] = [cmd[c] EXCEPT !.pc = "ended", !.shown = {}]
    BY <1>3, <1>6 DEF ListKeys, Ends
  <1>7. CASE ListKeys(c)
    BY <1>1, <1>2, <1>6, <1>7 DEF CommandState, ListKeys
  <1>8. CASE ChooseName(c)
    <2>1. \/ \E n \in KeyName :
                cmd'[c] = [cmd[c] EXCEPT !.pc = "sent", !.shown = {}, !.name = n, !.key = NoItem]
          \/ cmd'[c] = [cmd[c] EXCEPT !.pc = "ended", !.shown = {}]
      BY <1>3, <1>8 DEF ChooseName, Sends, Ends
    <2>2. c \notin DeleteKeyReq /\ cmd[c].key = NoItem
      BY <1>1, <1>8, KeyCommandsAssumption DEF ChooseName
    <2> QED
      BY <1>1, <2>1, <2>2 DEF CommandState
  <1>9. CASE ChooseKey(c)
    <2>1. PICK s \in cmd[c].shown :
             \/ cmd'[c] = [cmd[c] EXCEPT !.pc = "sent", !.shown = {}, !.name = NoItem, !.key = s]
             \/ cmd'[c] = [cmd[c] EXCEPT !.pc = "ended", !.shown = {}]
      BY <1>3, <1>9 DEF ChooseKey, Sends, Ends
    <2>2. c \notin CreateKeyReq /\ cmd[c].key = NoItem /\ s \in Listed /\ s # NoItem
      BY <1>1, <1>9, KeyCommandsAssumption DEF ChooseKey, CommandState
    <2> QED
      BY <1>1, <2>1, <2>2 DEF CommandState
  <1>10. ASSUME NEW pc \in {"timeout", "ok", "ended"}, Ends(c, pc)
         PROVE  cmd'[c] = [cmd[c] EXCEPT !.pc = pc, !.shown = {}]
    BY <1>3, <1>10 DEF Ends
  <1>11. CASE ChooseNoKey(c)
    BY <1>1, <1>10, <1>11 DEF ChooseNoKey, CommandState
  <1>12. CASE KeyTimeout(c)
    BY <1>1, <1>10, <1>12 DEF KeyTimeout, CommandState
  <1>13. CASE KeyReply(c)
    <2>1. PICK pc \in {"ok", "ended"} :
             /\ cmd'[c] = [cmd[c] EXCEPT !.pc = pc, !.shown = {}]
             /\ pc = "ok" => Status(c) = "200"
      BY <1>10, <1>13 DEF KeyReply
    <2>2. c \in CreateKeyReq => kc[c].pc = Status(c) /\ kc' = kc
      BY <1>13 DEF KeyReply, Status
    <2> QED
      BY <1>1, <2>1, <2>2 DEF CommandState
  <1>14. ASSUME NEW e \in Command, e # c, KeyCommandStep(e) PROVE cmd'[c] = cmd[c]
    BY <1>3, <1>14
    DEF KeyCommandStep, ListKeys, ChooseName, ChooseKey, ChooseNoKey, KeyReply, KeyTimeout,
        Ends, Sends
  <1>15. \/ \E e \in Command : KeyCommandStep(e)
         \/ cmd'[c] = cmd[c]
         \/ cmd'[c] = [cmd[c] EXCEPT !.pc = "ended"]
    <2>1. ASSUME KeyServerCrash
          PROVE  cmd'[c] = cmd[c] \/ cmd'[c] = [cmd[c] EXCEPT !.pc = "ended"]
      BY <2>1 DEF KeyServerCrash
    <2> QED
      BY <2>1 DEF KeyCommandNext, HandleKeyRequest, vars
  <1> QED
    BY <1>4, <1>5, <1>7, <1>8, <1>9, <1>11, <1>12, <1>13, <1>14, <1>15 DEF KeyCommandStep

LEMMA CommandNextInv ==
  ASSUME CommandInv, AuthInv, [KeyCommandNext]_vars
  PROVE  CommandInv'
  <1>1. KeyTypeOK /\ KeyIntegrity
    BY DEF AuthInv, AuthTypeOK
  <1>2. \E f : cmd' = [c \in Command |-> f[c]]
    <2>1. cmd \in [Command -> CommandState]
      BY DEF CommandInv
    <2>2. ASSUME NEW e \in Command, KeyCommandStep(e) PROVE cmd' = [c \in Command |-> cmd'[c]]
      BY <2>1, <2>2
      DEF KeyCommandStep, ListKeys, ChooseName, ChooseKey, ChooseNoKey, KeyReply, KeyTimeout,
          Ends, Sends
    <2>3. CASE cmd' = cmd
      BY <2>1, <2>3
    <2>4. CASE KeyServerCrash
      BY <2>4 DEF KeyServerCrash
    <2> QED
      BY <2>2, <2>3, <2>4 DEF KeyCommandNext, HandleKeyRequest, vars
  <1>3. cmd' \in [Command -> CommandState]
    BY <1>1, <1>2, CommandMoves
  <1>4. \A c \in Command : cmd'[c].pc \in {"idle", "choose"} => cmd'[c].key = NoItem
    BY <1>1, CommandMoves
  <1>5. \A c \in DeleteKeyReq : cmd'[c].pc \in {"sent", "timeout"} => cmd'[c].key # NoItem
    BY <1>1, CommandMoves DEF Command
  <1> QED
    BY <1>3, <1>4, <1>5 DEF CommandInv, Out

LEMMA ShownNextInv ==
  ASSUME CommandInv, ShownInv, AuthInv, AuthInv', [KeyCommandNext]_vars
  PROVE  ShownInv'
  <1>1. RowsKept(Doomed) /\ KeyTypeOK /\ KeyIntegrity /\ keySeq \in Nat
    BY RowsAreKept, KeyAssumption DEF AuthInv, AuthTypeOK, KeyTypeOK
  <1>2. ASSUME NEW s, Means(s)
        PROVE  /\ s \in Listed
               /\ s.id \in 1 .. keySeq'
               /\ \A k \in keys' : k.id = s.id => k.hash = s.hash
    BY <1>1, <1>2 DEF Means, RowsKept, Listed
  <1>3. ASSUME NEW s \in ListedKeys PROVE Means(s)
    <2>1. PICK k \in keys : s = [id |-> k.id, hash |-> k.hash]
      BY <1>3 DEF ListedKeys
    <2>2. k.id \in Nat /\ k.hash \in KeyHash /\ k.id \in 1 .. keySeq
      BY <1>1 DEF KeyTypeOK, ApiKey, KeyIntegrity
    <2> QED
      BY <1>1, <2>1, <2>2 DEF Means, Listed, KeyIntegrity
  <1>4. ASSUME NEW c \in Command
        PROVE  /\ \A s \in cmd'[c].shown : Means(s)
               /\ cmd'[c].key # NoItem => Means(cmd'[c].key)
    <2>1. /\ cmd'[c].shown \subseteq cmd[c].shown \union ListedKeys
          /\ cmd'[c].key # NoItem => cmd'[c].key \in cmd[c].shown \union {cmd[c].key}
          /\ cmd[c].key # NoItem => cmd'[c].key = cmd[c].key
      BY <1>1, CommandMoves
    <2>2. /\ \A s \in cmd[c].shown : Means(s)
          /\ cmd[c].key # NoItem => Means(cmd[c].key)
      BY DEF ShownInv
    <2> QED
      BY <1>3, <2>1, <2>2
  <1> QED
    BY <1>2, <1>4 DEF ShownInv, Means

LEMMA PrintedNextInv ==
  ASSUME CommandInv, ShownInv, PrintedInv, AuthInv, [KeyCommandNext]_vars
  PROVE  PrintedInv'
  <1>1. RowsKept(Doomed) /\ KeyTypeOK /\ KeyIntegrity
    BY RowsAreKept DEF AuthInv, AuthTypeOK
  <1>2. ASSUME NEW d \in Command, NEW h, Revokes(d, h)
        PROVE  cmd'[d].key # NoItem /\ cmd'[d].key.hash = h
    BY <1>1, <1>2, CommandMoves DEF Revokes
  <1>3. ASSUME NEW k \in keys, k.id \in Doomed PROVE \E d \in Command : Revokes(d, k.hash)
    <2>1. PICK d \in DeleteKeyReq : Out(d) /\ cmd[d].key.id = k.id
      BY <1>3 DEF Doomed
    <2>2. d \in Command /\ cmd[d].key # NoItem /\ Means(cmd[d].key)
      BY <2>1 DEF Command, CommandInv, ShownInv
    <2> QED
      BY <2>1, <2>2 DEF Means, Revokes
  <1>4. \A c \in CreateKeyReq :
          \/ kc'[c] = kc[c]
          \/ kc[c].pc = "idle" /\ (kc'[c].pc = "200" => \E k \in keys' : k.hash = c)
    <2>1. CASE kc' = kc
      BY <2>1
    <2>2. ASSUME NEW c \in CreateKeyReq, CreateKey(c)
          PROVE  \A d \in CreateKeyReq :
                     \/ kc'[d] = kc[d]
                     \/ kc[d].pc = "idle" /\ (kc'[d].pc = "200" => \E k \in keys' : k.hash = d)
      <3>1. PICK pc \in {"200", "500", "lost"}, i \in {0, NextKeyId} :
               /\ kc' = [kc EXCEPT ![c] = [pc |-> pc, id |-> i]]
               /\ kc[c].pc = "idle"
               /\ pc = "200" => \E readOnly \in BOOLEAN : KeyCreate(c, readOnly)
        BY <2>2 DEF CreateKey
      <3>2. ASSUME NEW readOnly \in BOOLEAN, KeyCreate(c, readOnly)
            PROVE  \E k \in keys' : k.hash = c
        <4> DEFINE row ==
                [id |-> NextKeyId, hash |-> c, readOnly |-> readOnly, lastUsed |-> Never]
        <4>1. row \in keys' /\ row.hash = c
          BY <3>2 DEF KeyCreate
        <4> QED
          BY <4>1
      <3> QED
        BY <3>1, <3>2 DEF AuthInv, AuthTypeOK
    <2>3. (\E c \in CreateKeyReq : CreateKey(c)) \/ kc' = kc
      BY CommandsStepAuth
      DEF AuthNext, DeleteKey, Authenticate, Served, Stamp, WriteStamp, AuthTick, AuthCrash,
          authVars
    <2> QED
      BY <2>1, <2>2, <2>3
  <1>5. ASSUME NEW c \in CreateKeyReq
        PROVE  /\ cmd'[c].pc = "ok" => kc'[c].pc = "200"
               /\ kc'[c].pc = "200" =>
                      \/ \E k \in keys' : k.hash = c
                      \/ \E d \in Command : cmd'[d].key # NoItem /\ cmd'[d].key.hash = c
    <2>1. cmd'[c].pc = "ok" => kc'[c].pc = "200"
      <3>1. cmd'[c].pc = "ok" => cmd[c].pc = "ok" \/ (kc[c].pc = "200" /\ kc' = kc)
        BY <1>1, CommandMoves DEF Command
      <3> QED
        BY <1>4, <3>1 DEF PrintedInv
    <2>2. ASSUME kc[c].pc = "200"
          PROVE  \/ \E k \in keys' : k.hash = c
                 \/ \E d \in Command : cmd'[d].key # NoItem /\ cmd'[d].key.hash = c
      <3>1. CASE \E d \in Command : Revokes(d, c)
        BY <1>2, <3>1
      <3>2. ASSUME NEW k \in keys, k.hash = c
            PROVE  (\E l \in keys' : l.hash = c) \/ \E d \in Command : Revokes(d, c)
        BY <1>1, <1>3, <3>2 DEF RowsKept
      <3> QED
        BY <1>2, <2>2, <3>1, <3>2 DEF PrintedInv
    <2> QED
      BY <1>4, <2>1, <2>2
  <1> QED
    BY <1>5 DEF PrintedInv, Revokes

LEMMA CommandsInvariant == KeyCommandSpec => [](AuthInv /\ CommandInv /\ ShownInv /\ PrintedInv)
  <1>1. /\ AuthInv /\ AuthInv'
        /\ CommandInv /\ ShownInv /\ PrintedInv
        /\ [KeyCommandNext]_vars
        => (CommandInv /\ ShownInv /\ PrintedInv)'
    BY CommandNextInv, ShownNextInv, PrintedNextInv
  <1> QED
    BY <1>1, CommandInitInv, AuthHoldsOfCommands, PTL DEF KeyCommandSpec

-----------------------------------------------------------------------------

\* Types of the commands and of all that they run against.
THEOREM CommandsTypeCorrect == KeyCommandSpec => []KeyCommandTypeOK
  <1>1. AuthInv /\ CommandInv => KeyCommandTypeOK
    BY DEF AuthInv, CommandInv, KeyCommandTypeOK
  <1> QED
    BY <1>1, CommandsInvariant, PTL

\* A key goes only by the request of somebody who was shown that very key.
THEOREM RemovalsWereShown == KeyCommandSpec => RemovesKeyShown
  <1>1. AuthInv /\ CommandInv /\ ShownInv /\ [KeyCommandNext]_vars =>
          \A k \in keys : (\A l \in keys' : l.hash # k.hash) =>
              \E c \in Command : Out(c) /\ Revokes(c, k.hash)
    <2> SUFFICES ASSUME AuthInv, CommandInv, ShownInv, [KeyCommandNext]_vars,
                        NEW k \in keys, \A l \in keys' : l.hash # k.hash
                 PROVE  \E c \in Command : Out(c) /\ Revokes(c, k.hash)
      OBVIOUS
    <2>1. k.id \in Doomed
      BY RowsAreKept DEF RowsKept
    <2>2. PICK d \in DeleteKeyReq : Out(d) /\ cmd[d].key.id = k.id
      BY <2>1 DEF Doomed
    <2>3. d \in Command /\ cmd[d].key # NoItem /\ Means(cmd[d].key)
      BY <2>2 DEF Command, CommandInv, ShownInv
    <2> QED
      BY <2>2, <2>3 DEF Means, Revokes
  <1> QED
    BY <1>1, CommandsInvariant, PTL DEF KeyCommandSpec, RemovesKeyShown

\* A printed key opens the server until somebody comes to revoke it.
THEOREM PrintedKeysOpen == KeyCommandSpec => PrintedKeyOpens
  <1> DEFINE Opens ==
          \A q \in Request, c \in CreateKeyReq :
              (/\ rq'[q].pc = "401" /\ rq[q].pc # "401" /\ rq'[q].hash = c
               /\ cmd[c].pc = "ok")
                  => faults' # faults \/ \E d \in Command : Revokes(d, c)
  <1>1. AuthInv /\ PrintedInv /\ [KeyCommandNext]_vars => Opens
    <2> SUFFICES ASSUME AuthInv, PrintedInv, [KeyCommandNext]_vars,
                        NEW q \in Request, NEW c \in CreateKeyReq,
                        rq'[q].pc = "401", rq[q].pc # "401", rq'[q].hash = c,
                        cmd[c].pc = "ok"
                 PROVE  faults' # faults \/ \E d \in Command : Revokes(d, c)
      OBVIOUS
    <2>1. rq \in [Request -> RequestState] /\ faults \in Nat
      BY EnvironmentAssumption DEF AuthInv, AuthTypeOK, EnvironmentTypeOK
    <2>2. [AuthNext]_authVars
      BY CommandsStepAuth
    <2>3. ASSUME NEW o \in Request, Authenticate(o)
          PROVE  faults' # faults \/ \E d \in Command : Revokes(d, c)
      <3>1. PICK h \in KeyHash :
               \/ KeysWithHash(h) = {} /\ RequestAnswer(o, h, "401")
               \/ Fault
               \/ RequestAnswer(o, h, "403")
               \/ \E k \in KeysWithHash(h) :
                     rq' = [rq EXCEPT ![o] = [pc |-> "serve", hash |-> h, key |-> k, at |-> 0]]
        BY <2>3 DEF Authenticate
      <3>2. CASE Fault
        BY <2>1, <3>2 DEF Fault
      <3>3. CASE KeysWithHash(h) = {} /\ RequestAnswer(o, h, "401")
        <4>1. h = c
          BY <2>1, <3>3 DEF RequestAnswer
        <4> QED
          BY <3>3, <4>1 DEF PrintedInv, KeysWithHash
      <3> QED
        BY <2>1, <3>1, <3>2, <3>3 DEF RequestAnswer
    <2>4. ASSUME NEW o \in Request, Served(o) \/ Stamp(o) \/ WriteStamp(o) PROVE FALSE
      BY <2>1, <2>4 DEF Served, Stamp, WriteStamp, RequestState
    <2>5. ASSUME AuthCrash PROVE FALSE
      BY <2>1, <2>5 DEF AuthCrash, RequestState
    <2>6. rq' # rq
      OBVIOUS
    <2> QED
      BY <2>2, <2>3, <2>4, <2>5, <2>6 DEF AuthNext, CreateKey, DeleteKey, AuthTick, authVars
  <1> QED
    BY <1>1, CommandsInvariant, PTL DEF KeyCommandSpec, PrintedKeyOpens
=============================================================================
