---------------------------- MODULE Authentication ----------------------------
(***************************************************************************)
(* API keys at work: the administrator's requests that create and delete   *)
(* keys (admin/key_handler.go) and the middleware that lets requests in    *)
(* (server/middleware_auth.go).  The middleware looks a key up once, holds *)
(* on to its copy while the request is served, and may then start a        *)
(* goroutine that writes last_used_at: after the answer, after other such  *)
(* goroutines, and after the deletion of the key.  A tick is a minute.     *)
(*                                                                         *)
(* The key that a create request generates is named after the request.     *)
(***************************************************************************)
EXTENDS Environment, ApiKeyStore

CONSTANTS
    CreateKeyReq,   \* create requests
    DeleteKeyReq,   \* delete requests
    Request         \* requests that present a key

ASSUME AuthenticationAssumption == CreateKeyReq = KeyHash

VARIABLES
    kc,             \* the state of each create request
    kd,             \* the state of each delete request
    rq              \* the state of each request with a key, and of its goroutine

authVars == <<envVars, keyVars, kc, kd, rq>>

NoKey == <<>>

KeyCreateState == [pc : {"idle", "200", "500", "lost"}, id : Nat]

KeyDeleteState == [pc : {"idle", "200", "404", "500"}, id : Nat]

\* serve: in the handler; stamp and write: answered, its goroutine is under
\* way; done: answered, and no goroutine is left.
RequestState == [pc : {"idle", "serve", "stamp", "write", "done", "401", "403", "lost"},
                 hash : KeyHash \union {NoKey}, key : ApiKey \union {NoKey}, at : Instant]

AuthTypeOK ==
    /\ EnvironmentTypeOK
    /\ KeyTypeOK
    /\ kc \in [CreateKeyReq -> KeyCreateState]
    /\ kd \in [DeleteKeyReq -> KeyDeleteState]
    /\ rq \in [Request -> RequestState]

AuthInit ==
    /\ EnvironmentInit
    /\ KeyInit
    /\ kc = [c \in CreateKeyReq |-> [pc |-> "idle", id |-> 0]]
    /\ kd = [d \in DeleteKeyReq |-> [pc |-> "idle", id |-> 0]]
    /\ rq = [q \in Request |-> [pc |-> "idle", hash |-> NoKey, key |-> NoKey, at |-> 0]]

-----------------------------------------------------------------------------
(* Administration. *)

\* createKeyHandler, 49-97.  An error of the statement leaves no key; one of
\* the response leaves a key that nobody knows.
CreateKey(c) ==
    /\ kc[c].pc = "idle"
    /\ \E readOnly \in BOOLEAN :
          \/ /\ KeyCreate(c, readOnly)
             /\ \/ /\ kc' = [kc EXCEPT ![c] = [pc |-> "200", id |-> NextKeyId]]
                   /\ NoFault
                \/ /\ kc' = [kc EXCEPT ![c] = [pc |-> "lost", id |-> 0]]
                   /\ Fault
          \/ /\ kc' = [kc EXCEPT ![c] = [pc |-> "500", id |-> 0]]
             /\ IF KeyCreatable(c) THEN Fault ELSE NoFault
             /\ UNCHANGED keyVars
    /\ UNCHANGED <<kd, rq>>

\* deleteKeyHandler, 99-122.
DeleteKey(d) ==
    /\ kd[d].pc = "idle"
    /\ \E i \in 1 .. MaxKeyId :
          \/ /\ KeyDelete(i)
             /\ kd' = [kd EXCEPT ![d] = [pc |-> IF KeysWithId(i) = {} THEN "404" ELSE "200",
                                         id |-> i]]
             /\ NoFault
          \/ /\ kd' = [kd EXCEPT ![d] = [pc |-> "500", id |-> i]]
             /\ Fault
             /\ UNCHANGED keyVars
    /\ UNCHANGED <<kc, rq>>

-----------------------------------------------------------------------------
(* AuthMiddleware, 24-62. *)

RequestAnswer(q, h, status) ==
    rq' = [rq EXCEPT ![q] = [pc |-> status, hash |-> h, key |-> NoKey, at |-> 0]]

\* A read-only key at an endpoint that writes, 45-49.
Forbidden(k, write) == write /\ k.readOnly

\* GetByKey, 36-49: the one moment at which the key is looked at.  Any error
\* is 401, that of the database too.
Authenticate(q) ==
    /\ rq[q].pc = "idle"
    /\ \E h \in KeyHash, write \in BOOLEAN :
          \/ /\ KeysWithHash(h) = {}
             /\ RequestAnswer(q, h, "401")
             /\ NoFault
          \/ /\ KeysWithHash(h) # {}
             /\ RequestAnswer(q, h, "401")
             /\ Fault
          \/ \E k \in KeysWithHash(h) :
                /\ IF Forbidden(k, write)
                   THEN RequestAnswer(q, h, "403")
                   ELSE rq' = [rq EXCEPT ![q] = [pc |-> "serve", hash |-> h, key |-> k, at |-> 0]]
                /\ NoFault
    /\ UNCHANGED <<keyVars, kc, kd>>

\* Mutant: a key that was used once is never marked again.
TouchDueMutant(k) == k.lastUsed = Never

\* LastUsedAt == nil || time.Since(*LastUsedAt) > time.Minute, 53: of the
\* copy that was read when the request came in.
TouchDue(k) == k.lastUsed = Never \/ now - k.lastUsed > 1

\* next.ServeHTTP returns, 51-54, and the goroutine starts if it is due.
Served(q) ==
    /\ rq[q].pc = "serve"
    /\ rq' = [rq EXCEPT ![q].pc = IF TouchDue(rq[q].key) THEN "stamp" ELSE "done",
                        ![q].at = now]
    /\ NoFault
    /\ UNCHANGED <<keyVars, kc, kd>>

\* The goroutine reads the clock, 55.
Stamp(q) ==
    /\ rq[q].pc = "stamp"
    /\ rq' = [rq EXCEPT ![q].pc = "write", ![q].at = now]
    /\ NoFault
    /\ UNCHANGED <<keyVars, kc, kd>>

\* UpdateLastUsed, 55-57: an error is logged.
WriteStamp(q) ==
    /\ rq[q].pc = "write"
    /\ rq' = [rq EXCEPT ![q].pc = "done"]
    /\ \/ /\ KeyTouch(rq[q].key, rq[q].at)
          /\ NoFault
       \/ /\ Fault
          /\ UNCHANGED keyVars
    /\ UNCHANGED <<kc, kd>>

\* The process is killed: requests and goroutines are gone, the table stays.
AuthCrash ==
    /\ rq' = [q \in Request |->
                 IF rq[q].pc \in {"serve", "stamp", "write"}
                 THEN [rq[q] EXCEPT !.pc = "lost"] ELSE rq[q]]
    /\ Fault
    /\ UNCHANGED <<keyVars, kc, kd>>

AuthTick == Tick /\ UNCHANGED <<keyVars, kc, kd, rq>>

AuthNext ==
    \/ \E c \in CreateKeyReq : CreateKey(c)
    \/ \E d \in DeleteKeyReq : DeleteKey(d)
    \/ \E q \in Request : Authenticate(q)
    \/ \E q \in Request : Served(q)
    \/ \E q \in Request : Stamp(q)
    \/ \E q \in Request : WriteStamp(q)
    \/ AuthTick
    \/ AuthCrash

AuthSpec == AuthInit /\ [][AuthNext]_authVars

-----------------------------------------------------------------------------

\* A key whose deletion was answered 200 opens nothing any more and never
\* comes back, although goroutines that hold its record may still write to it
\* (key_handler.go:109-121, middleware_auth.go:54-58).
RevokedStaysOut ==
    \A c \in CreateKeyReq, d \in DeleteKeyReq :
        kc[c].pc = "200" /\ kd[d].pc = "200" /\ kd[d].id = kc[c].id => KeysWithHash(c) = {}

\* The id in a deletion means the key it was shown with, however long ago
\* that was: of the requests that name one id, one at most deletes a key
\* (migrations.go:22, apikeys.go:113).
DeletedOnce ==
    \A c, d \in DeleteKeyReq :
        kd[c].pc = "200" /\ kd[d].pc = "200" /\ kd[c].id = kd[d].id => c = d

\* A goroutine marks the key that its request presented, and no key made
\* since in its place: what shows a use was used (middleware_auth.go:54-58,
\* apikeys.go:130).
StampsOwnKey ==
    \A k \in keys : k.lastUsed # Never =>
        \E q \in Request : rq[q].hash = k.hash /\ rq[q].pc = "done"

\* What k, a row of the table after the step, shows of a use by q.
OnRecord(q, k) ==
    /\ k.lastUsed # Never
    /\ rq[q].pc # "done" /\ rq[q].key \in keys => rq'[q].at <= k.lastUsed + 1
    /\ \A l \in keys : l.id = k.id /\ l.lastUsed # Never /\ k.lastUsed < l.lastUsed =>
           \E p \in Request : /\ rq[p].pc = "write" /\ rq'[p].pc = "done"
                             /\ rq[p].key.id = k.id /\ rq[p].key # l

\* As long as nothing fails, a use is on record when its request is through
\* (middleware_auth.go:53-57).  The key shows some use from then on.  It shows
\* one of the last minute, if its row is still the one that the request read
\* when it came in: so deciding by that old copy is good enough.  And the mark
\* goes back only by a goroutine whose request had not read it, one that was
\* overtaken by others.
UseIsRecorded ==
    [][faults' = 0 => \A q \in Request, k \in keys' :
          rq'[q].pc = "done" /\ rq'[q].key.id = k.id => OnRecord(q, k)]_authVars
=============================================================================
