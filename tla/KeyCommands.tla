----------------------------- MODULE KeyCommands -----------------------------
(***************************************************************************)
(* The administrator's commands "artf key new" and "key rm",               *)
(* cmd/key_*.go, over the admin client, admin/client.go: like those of     *)
(* RepoCommands, they work from a list of the keys for as long as the      *)
(* administrator takes to answer, send one request, and wait for it five   *)
(* seconds at most.  Other commands and requests that present keys go on   *)
(* meanwhile.  Whether a name is taken is asked of the list, and nowhere   *)
(* else: the table has no unique index on names.                           *)
(*                                                                         *)
(* The key that a command creates has the command's name as its hash, so   *)
(* the column name of a key is the name its command asked for.             *)
(***************************************************************************)
EXTENDS Authentication

CONSTANTS
    KeyName,        \* names of keys
    NoItem          \* no name and no key

\* Runs of "key new" and of "key rm", by the request that each may send.
Command == CreateKeyReq \union DeleteKeyReq

\* A key as the list shows it.
Listed == [id : Nat, hash : KeyHash]

ASSUME KeyCommandsAssumption ==
    /\ CreateKeyReq \intersect DeleteKeyReq = {}
    /\ NoItem \notin KeyName \union Listed

VARIABLE
    cmd             \* the state of each command

vars == <<authVars, cmd>>

\* key: the key that was chosen for deletion; name: that of the one to create.
CommandState == [pc : {"idle", "choose", "sent", "timeout", "ok", "ended"},
                 shown : SUBSET Listed, key : Listed \union {NoItem},
                 name : KeyName \union {NoItem}]

KeyCommandTypeOK == AuthTypeOK /\ cmd \in [Command -> CommandState]

KeyCommandInit ==
    /\ AuthInit
    /\ cmd = [c \in Command |-> [pc |-> "idle", shown |-> {}, key |-> NoItem,
                                 name |-> NoItem]]

Ends(c, pc) == cmd' = [cmd EXCEPT ![c].pc = pc, ![c].shown = {}]

-----------------------------------------------------------------------------

\* listKeysHandler, 16-47: every row.
ListedKeys == {[id |-> k.id, hash |-> k.hash] : k \in keys}

\* initAdminClient's ping, and ListKeys.
ListKeys(c) ==
    /\ cmd[c].pc = "idle"
    /\ \/ cmd' = [cmd EXCEPT ![c].pc = "choose", ![c].shown = ListedKeys]
       \/ Ends(c, "ended")
    /\ NoFault
    /\ UNCHANGED <<keyVars, kc, kd, rq>>

\* The request is written, or the server cannot be reached.
Sends(c, name, key) ==
    \/ cmd' = [cmd EXCEPT ![c].pc = "sent", ![c].shown = {}, ![c].name = name, ![c].key = key]
    \/ Ends(c, "ended")

\* key new: validateName looks for the name in the list.
ChooseName(c) ==
    /\ cmd[c].pc = "choose"
    /\ c \in CreateKeyReq
    /\ \E n \in KeyName :
          IF \E s \in cmd[c].shown : cmd[s.hash].name = n
          THEN Ends(c, "ended")
          ELSE Sends(c, n, NoItem)
    /\ NoFault
    /\ UNCHANGED <<keyVars, kc, kd, rq>>

\* key rm: by id or from the list, with a confirmation.
ChooseKey(c) ==
    /\ cmd[c].pc = "choose"
    /\ c \in DeleteKeyReq
    /\ \E s \in cmd[c].shown : Sends(c, NoItem, s)
    /\ NoFault
    /\ UNCHANGED <<keyVars, kc, kd, rq>>

\* There is no key, none that the argument denotes, or no confirmation.
ChooseNoKey(c) ==
    /\ cmd[c].pc = "choose"
    /\ c \in DeleteKeyReq
    /\ Ends(c, "ended")
    /\ NoFault
    /\ UNCHANGED <<keyVars, kc, kd, rq>>

\* A request that is out reaches its handler, also after the client gave up.
Out(c) == cmd[c].pc \in {"sent", "timeout"}

HandleKeyRequest(c) ==
    /\ Out(c)
    /\ \/ c \in CreateKeyReq /\ CreateKey(c)
       \/ c \in DeleteKeyReq /\ DeleteKey(c) /\ kd'[c].id = cmd[c].key.id
    /\ UNCHANGED cmd

Status(c) == IF c \in CreateKeyReq THEN kc[c].pc ELSE kd[c].pc

\* Mutant: what the answer says is not looked at.
KeyReplyMutant(c) ==
    /\ cmd[c].pc = "sent"
    /\ Status(c) # "idle"
    /\ Ends(c, "ok")
    /\ NoFault
    /\ UNCHANGED <<keyVars, kc, kd, rq>>

\* The answer: "key new" prints the key, and nothing shows it again.
KeyReply(c) ==
    /\ cmd[c].pc = "sent"
    /\ Status(c) # "idle"
    /\ Ends(c, IF Status(c) = "200" THEN "ok" ELSE "ended")
    /\ NoFault
    /\ UNCHANGED <<keyVars, kc, kd, rq>>

\* controlSocketTimeout, 18.
KeyTimeout(c) ==
    /\ cmd[c].pc = "sent"
    /\ Ends(c, "timeout")
    /\ NoFault
    /\ UNCHANGED <<keyVars, kc, kd, rq>>

\* The server is killed, with the requests that have not reached a handler.
KeyServerCrash ==
    /\ AuthCrash
    /\ cmd' = [c \in Command |-> IF Out(c) /\ Status(c) = "idle"
                                  THEN [cmd[c] EXCEPT !.pc = "ended"] ELSE cmd[c]]

KeyCommandStep(c) ==
    \/ ListKeys(c)
    \/ ChooseName(c)
    \/ ChooseKey(c)
    \/ ChooseNoKey(c)
    \/ KeyReply(c)
    \/ KeyTimeout(c)

Serves(q) == Authenticate(q) \/ Served(q) \/ Stamp(q) \/ WriteStamp(q)

KeyCommandNext ==
    \/ \E c \in Command : KeyCommandStep(c)
    \/ \E c \in Command : HandleKeyRequest(c)
    \/ \E q \in Request : Serves(q) /\ UNCHANGED cmd
    \/ AuthTick /\ UNCHANGED cmd
    \/ KeyServerCrash

KeyCommandSpec == KeyCommandInit /\ [][KeyCommandNext]_vars

-----------------------------------------------------------------------------

\* A command was given the key to delete, and has sent the request.
Revokes(c, h) == cmd[c].key # NoItem /\ cmd[c].key.hash = h

\* A key goes only because somebody was shown this very key, confirmed its
\* deletion, and has not been told of the outcome yet, whatever was deleted
\* and created since he saw the list (key_rm.go:40-102, migrations.go:
\* AUTOINCREMENT).
RemovesKeyShown ==
    [][\A k \in keys : (\A l \in keys' : l.hash # k.hash) =>
           \E c \in Command : Out(c) /\ Revokes(c, k.hash)]_vars

\* A key that was printed opens the server until somebody comes to revoke it,
\* through crashes, and whatever happens to other keys: only a fault of the
\* very request keeps it out (key_new.go:104-113, middleware_auth.go:36-43).
PrintedKeyOpens ==
    [][\A q \in Request, c \in CreateKeyReq :
           (/\ rq'[q].pc = "401" /\ rq[q].pc # "401" /\ rq'[q].hash = c
            /\ cmd[c].pc = "ok")
               => faults' # faults \/ \E d \in Command : Revokes(d, c)]_vars
=============================================================================
