-------------------------- MODULE RepoCommandsProofs --------------------------
(***************************************************************************)
(* Proofs about RepoCommands, for any number of commands, uploads,         *)
(* repositories and crashes.  Three things connect an administrator with   *)
(* what is done to the tables: the repository he was shown is under its id *)
(* the one of that name (CommandNames), a handler works on what its        *)
(* command asked for (RequestsAsked), and what was answered 200 remains    *)
(* true until a deletion that somebody asked for (DoneInv).                *)
(***************************************************************************)
EXTENDS RepoCommands, HandlerProofs, FiniteSetTheorems

CommandNames ==
  \A c \in Command :
    /\ \A r \in cmd[c].shown : NamedSo(r.id, r.name)
    /\ Asked(c, "edit") \/ Asked(c, "rm") =>
          /\ cmd[c].repo \in Repo
          /\ NamedSo(cmd[c].repo.id, cmd[c].repo.name)
          /\ cmd[c].name = cmd[c].repo.name
    /\ Asked(c, "new") => cmd[c].policy \in Policy
    /\ cmd[c].pc \in {"sent", "timeout", "ok"} => cmd[c].op # "info"

CreateAsked(c) ==
  /\ cr[c].pc \in {"insert", "rmdir", "200"} => Asked(c, "new") /\ cr[c].name = cmd[c].name
  /\ cr[c].pc = "insert" => cr[c].policy = cmd[c].policy

UpdateAsked(c) ==
  /\ pt[c].pc \in {"put", "200"} => Asked(c, "edit")
  /\ pt[c].pc = "put" => pt[c].row.name = cmd[c].name

DeleteAsked(c) ==
  dl[c].pc \in {"rows", "row", "list", "unlink", "200"} =>
    Asked(c, "rm") /\ dl[c].id = cmd[c].repo.id

RequestsAsked == \A c \in Command : CreateAsked(c) /\ UpdateAsked(c) /\ DeleteAsked(c)

CommandInv ==
  /\ HandlersInv
  /\ cmd \in [Command -> CommandState]
  /\ CommandNames
  /\ UpdateNames
  /\ DeleteNames
  /\ RowsGone
  /\ RequestsAsked

-----------------------------------------------------------------------------
(* The initial states.                                                     *)

LEMMA CommandInitStore == CommandInit => StoreInv
  <1> SUFFICES ASSUME CommandInit PROVE StoreInv
    OBVIOUS
  <1>1. Cardinality(Existing) \in Nat
    BY CommandsAssumption, FS_CardinalityType
  <1>2. PICK id \in [Existing -> 1 .. Cardinality(Existing)], p \in Policy :
          /\ \A m, n \in Existing : id[m] = id[n] => m = n
          /\ repos = {[id |-> id[n], name |-> n, keepCount |-> p.keepCount,
                       keepDays |-> p.keepDays] : n \in Existing}
    BY DEF CommandInit
  <1>3. repos \subseteq Repo
    BY <1>1, <1>2, CommandsAssumption DEF Repo, Policy
  <1>4. repoSeq = Cardinality(Existing) /\ artifacts = {} /\ artifactSeq = 0
    BY DEF CommandInit
  <1>5. StoreTypeOK
    BY <1>1, <1>3, <1>4, StoreAssumption, CommandsAssumption DEF StoreTypeOK
  <1>6. UniqueRepos
    BY <1>2 DEF UniqueRepos
  <1>7. IdsFromSequence
    BY <1>1, <1>2, <1>4 DEF IdsFromSequence
  <1> QED
    BY <1>4, <1>5, <1>6, <1>7
       DEF StoreInv, StoreIntegrity, UniqueArtifacts, ForeignKeys

LEMMA CommandInitInv == CommandInit => CommandInv
  <1> SUFFICES ASSUME CommandInit PROVE CommandInv
    OBVIOUS
  <1>1. StoreTypeOK /\ StoreIntegrity
    BY CommandInitStore DEF StoreInv
  <1>2. DataDirTypeOK
    BY CommandsAssumption DEF CommandInit, DataDirInit, DataDirTypeOK
  <1>3. HandlersInv
    BY <1>1, <1>2, HandlersInitType DEF CommandInit, HandlersInv
  <1>4. cmd = [c \in Command |-> Nothing("idle")]
    BY DEF CommandInit
  <1>5. cmd \in [Command -> CommandState] /\ CommandNames
    BY <1>4 DEF Nothing, CommandState, Op, CommandNames, Asked
  <1>6. UpdateNames /\ DeleteNames /\ RowsGone /\ RequestsAsked
    BY CommandsAssumption
       DEF CommandInit, AdminInit, UpdateNames, DeleteNames, RowsGone, RequestsAsked, CreateAsked,
           UpdateAsked, DeleteAsked
  <1> QED
    BY <1>3, <1>5, <1>6 DEF CommandInv

-----------------------------------------------------------------------------
(***************************************************************************)
(* A command's own steps leave the server alone; a step of its handler is  *)
(* one of the handlers' of RepoHandlers.                                   *)
(***************************************************************************)

LEMMA OwnStep ==
  ASSUME NEW c \in Command, CommandStep(c)
  PROVE  NoFault /\ UNCHANGED serverVars
  BY DEF CommandStep, ListRepos, ChooseNew, ChooseEdit, ChooseRm, ChooseNone, Reply, Timeout

LEMMA HandlerIs ==
  ASSUME NEW c \in Command, HandlerStep(c)
  PROVE  /\ UNCHANGED <<up, cmd>>
         /\ \/ CreateStep(c) /\ UNCHANGED <<pt, dl>>
            \/ UpdateStep(c) /\ UNCHANGED <<cr, dl>>
            \/ DeleteStep(c) /\ UNCHANGED <<cr, pt>>
  <1>1. CreateStep(c) => UNCHANGED <<pt, dl>>
    BY DEF CreateStep, CreateMkdir, CreateInsert, CreateRmdir
  <1>2. UpdateStep(c) => UNCHANGED <<cr, dl>>
    BY DEF UpdateStep, UpdateGet, UpdatePut
  <1>3. DeleteStep(c) => UNCHANGED <<cr, pt>>
    BY DEF DeleteStep, DeleteGet, DeleteRows, DeleteRow, DeleteList, DeleteUnlink, DeleteRmdir,
           DeleteRemoveFails
  <1> QED
    BY <1>1, <1>2, <1>3
       DEF HandlerStep, BeginCreate, BeginUpdate, BeginDelete, CreateStep, UpdateStep, DeleteStep

LEMMA CommandStoreStep == HandlersInv /\ [CommandNext]_vars => [StoreNext]_storeVars
  <1> SUFFICES ASSUME HandlersInv, [CommandNext]_vars PROVE [StoreNext]_storeVars
    OBVIOUS
  <1>1. ASSUME NEW c \in Command, HandlerStep(c) PROVE [StoreNext]_storeVars
    BY <1>1, HandlerIs, CreateStoreStep, UpdateStoreStep, DeleteStoreStep, CommandsAssumption
  <1>2. ASSUME NEW c \in Command, CommandStep(c) PROVE [StoreNext]_storeVars
    BY <1>2, OwnStep DEF serverVars
  <1>3. ASSUME NEW u \in Upload, UploadStep(u) PROVE [StoreNext]_storeVars
    BY <1>3, UploadStoreStep
  <1> QED
    BY <1>1, <1>2, <1>3 DEF CommandNext, ServerCrash, vars

LEMMA CommandHandlers == HandlersInv /\ [CommandNext]_vars => HandlersInv'
  <1> SUFFICES ASSUME HandlersInv, [CommandNext]_vars PROVE HandlersInv'
    OBVIOUS
  <1>1. StoreTypeOK' /\ StoreIntegrity'
    BY CommandStoreStep, StoreStepInv DEF HandlersInv, StoreInv
  <1>2. UNCHANGED up => UploadTypeOK' /\ UploadLocals'
    BY DEF HandlersInv, UploadTypeOK, UploadLocals
  <1>3. UNCHANGED adminVars => AdminTypeOK' /\ AdminLocals'
    BY DEF HandlersInv, adminVars, AdminTypeOK, AdminLocals
  <1>4. UNCHANGED dirVars => DataDirTypeOK'
    BY DEF HandlersInv, dirVars, DataDirTypeOK
  <1>5. Fault \/ NoFault => EnvironmentTypeOK'
    BY EnvironmentStepType DEF HandlersInv
  <1>6. ASSUME NEW c \in Command, HandlerStep(c) PROVE HandlersInv'
    BY <1>1, <1>2, <1>6, HandlerIs, CreateStepType, UpdateStepType, DeleteStepType,
       CommandsAssumption DEF HandlersInv
  <1>7. ASSUME NEW c \in Command, CommandStep(c) PROVE HandlersInv'
    BY <1>1, <1>2, <1>3, <1>4, <1>5, <1>7, OwnStep DEF serverVars, HandlersInv
  <1>8. ASSUME NEW u \in Upload, UploadStep(u), UNCHANGED adminVars PROVE HandlersInv'
    BY <1>1, <1>3, <1>8, UploadStepType DEF HandlersInv
  <1>9. CASE ServerCrash
    BY <1>1, <1>4, <1>5, <1>9, UploadCrashType, AdminCrashType DEF ServerCrash, HandlersInv
  <1>10. CASE UNCHANGED vars
    BY <1>1, <1>2, <1>3, <1>4, <1>5, <1>10 DEF vars, NoFault, HandlersInv
  <1> QED
    BY <1>6, <1>7, <1>8, <1>9, <1>10 DEF CommandNext
-----------------------------------------------------------------------------
(* Ids, names and rows, as in HandlerProofs.                               *)

LEMMA CommandNamesStay == HandlersInv /\ UpdateNames /\ [CommandNext]_vars => RepoNamesStay
  <1> SUFFICES ASSUME HandlersInv, UpdateNames, [CommandNext]_vars PROVE RepoNamesStay
    OBVIOUS
  <1>1. ASSUME NEW c \in Command, HandlerStep(c) PROVE RepoNamesStay
    BY <1>1, HandlerIs, CreateNamesStay, UpdateNamesStay, DeleteNamesStay, CommandsAssumption
  <1>2. ASSUME NEW u \in Upload, UploadStep(u) PROVE RepoNamesStay
    BY <1>2, UploadNamesStay
  <1>3. CASE UNCHANGED storeVars
    BY <1>3, FewerReposNamesStay DEF storeVars
  <1> QED
    BY <1>1, <1>2, <1>3, OwnStep DEF CommandNext, ServerCrash, serverVars, vars

LEMMA CommandRowNames ==
  ASSUME HandlersInv, UpdateNames, DeleteNames, RowsGone, [CommandNext]_vars
  PROVE  UpdateNames' /\ DeleteNames' /\ RowsGone'
  <1>1. RepoNamesStay /\ IdsStayGone
    BY CommandNamesStay, CommandStoreStep, StoreStepIds DEF HandlersInv, StoreInv
  <1>2. UNCHANGED pt => UpdateNames'
    BY <1>1 DEF RepoNamesStay, UpdateNames, NamedSo
  <1>3. UNCHANGED dl => DeleteNames' /\ RowsGone'
    BY <1>1, OthersRowsGone DEF RepoNamesStay, DeleteNames, NamedSo
  <1>4. ASSUME NEW c \in Command, HandlerStep(c) PROVE UpdateNames' /\ DeleteNames' /\ RowsGone'
    BY <1>1, <1>2, <1>3, <1>4, HandlerIs, UpdateNamesStep, DeleteNamesStep, DeleteRowsGone,
       CommandsAssumption
  <1>5. CASE ServerCrash
    <2>1. UpdateNames' /\ DeleteNames'
      BY <1>5
         DEF ServerCrash, AdminCrash, AdminAnswered, storeVars, UpdateNames, DeleteNames, NamedSo
    <2>2. RowsGone'
      BY <1>1, <1>5, OthersRowsGone DEF ServerCrash, AdminCrash, AdminAnswered
    <2> QED
      BY <2>1, <2>2
  <1> QED
    BY <1>2, <1>3, <1>4, <1>5, OwnStep DEF CommandNext, serverVars, adminVars, vars

-----------------------------------------------------------------------------
(* What a command is about.                                                *)

\* A request that is out stays what it is, whatever becomes of the command;
\* unless a crash comes before its handler has begun.
LEMMA AskedStays ==
  ASSUME cmd \in [Command -> CommandState], [CommandNext]_vars, NEW c \in Command,
         cmd[c].pc \notin {"idle", "choose"},
         ~ ServerCrash \/ ~ Out(c) \/ Status(c) # "idle"
  PROVE  /\ cmd'[c].op = cmd[c].op /\ cmd'[c].name = cmd[c].name
         /\ cmd'[c].repo = cmd[c].repo /\ cmd'[c].policy = cmd[c].policy
         /\ cmd'[c].pc \notin {"idle", "choose"}
  <1>1. ASSUME NEW d \in Command, CommandStep(d)
        PROVE  \/ cmd'[c] = cmd[c]
               \/ \E pc \in {"ok", "ended", "timeout"} : cmd' = [cmd EXCEPT ![c].pc = pc]
    <2>1. CASE d = c
      BY <1>1, <2>1 DEF CommandStep, ListRepos, ChooseNew, ChooseEdit, ChooseRm, ChooseNone, Reply,
                        Timeout
    <2>2. CASE d # c
      BY <1>1, <2>2 DEF CommandStep, ListRepos, ChooseNew, ChooseEdit, ChooseRm, ChooseNone, Reply,
                        Timeout, Sends, GivesUp
    <2> QED
      BY <2>1, <2>2
  <1>2. CASE ServerCrash
    BY <1>2 DEF ServerCrash
  <1>3. CASE UNCHANGED cmd
    BY <1>3
  <1> QED
    BY <1>1, <1>2, <1>3, HandlerIs DEF CommandNext, vars, CommandState

\* A command's own step: from the list it got, or about the request it sent.
LEMMA CommandOwnNames ==
  ASSUME CommandInv, NEW c \in Command, CommandStep(c)
  PROVE  cmd' \in [Command -> CommandState] /\ CommandNames'
  <1> USE DEF CommandInv
  <1>1. UNCHANGED storeVars
    BY OwnStep DEF serverVars
  <1>2. repos \subseteq Repo
    BY DEF HandlersInv, StoreTypeOK
  <1>3. \A i, n : NamedSo(i, n)' <=> NamedSo(i, n)
    BY <1>1 DEF NamedSo, storeVars
  <1>4. cmd[c] \in CommandState
    OBVIOUS
  <1>5. ASSUME NEW s \in CommandState, cmd' = [cmd EXCEPT ![c] = s],
               \A r \in s.shown : NamedSo(r.id, r.name),
               s.pc \notin {"idle", "choose"} /\ s.op \in {"edit", "rm"} =>
                  s.repo \in Repo /\ NamedSo(s.repo.id, s.repo.name) /\ s.name = s.repo.name,
               s.pc \notin {"idle", "choose"} /\ s.op = "new" => s.policy \in Policy,
               s.pc \in {"sent", "timeout", "ok"} => s.op # "info"
        PROVE  cmd' \in [Command -> CommandState] /\ CommandNames'
    <2>1. cmd' \in [Command -> CommandState]
      BY <1>5
    <2>2. CommandNames'
      BY <1>3, <1>5 DEF CommandNames, Asked
    <2> QED
      BY <2>1, <2>2
  <1>6. CASE GivesUp(c)
    <2>1. Nothing("ended") \in CommandState
      BY DEF Nothing, CommandState, Op
    <2>2. /\ Nothing("ended").pc = "ended"
          /\ Nothing("ended").op = "info"
          /\ Nothing("ended").shown = {}
      BY DEF Nothing
    <2> QED
      BY <1>5, <1>6, <2>1, <2>2 DEF GivesUp
  <1>7. ASSUME NEW op \in Op,
               cmd' = [cmd EXCEPT ![c].pc = "choose", ![c].op = op, ![c].shown = ListedRepos]
        PROVE  cmd' \in [Command -> CommandState] /\ CommandNames'
    <2> DEFINE s == [cmd[c] EXCEPT !.pc = "choose", !.op = op, !.shown = ListedRepos]
    <2>1. s \in CommandState /\ s.pc = "choose" /\ s.shown = repos
      BY <1>2, <1>4 DEF CommandState, ListedRepos
    <2>2. cmd' = [cmd EXCEPT ![c] = s]
      BY <1>4, <1>7 DEF CommandState
    <2> HIDE DEF s
    <2> QED
      BY <1>5, <2>1, <2>2, RowNamedSo
  <1>8. ASSUME NEW r \in Repo \union {NoRow}, NEW n \in RepoName,
               NEW p \in Policy \union {NoPolicy},
               Sends(c, r, n, p),
               cmd[c].op \in {"edit", "rm"} => r \in Repo /\ NamedSo(r.id, r.name) /\ n = r.name,
               cmd[c].op = "new" => p \in Policy,
               cmd[c].op # "info"
        PROVE  cmd' \in [Command -> CommandState] /\ CommandNames'
    <2> DEFINE s == [pc |-> "sent", op |-> cmd[c].op, shown |-> {}, repo |-> r, name |-> n,
                     policy |-> p]
    <2>1. /\ s \in CommandState /\ s.pc = "sent" /\ s.op = cmd[c].op /\ s.shown = {}
          /\ s.repo = r /\ s.name = n /\ s.policy = p
      BY <1>4 DEF CommandState
    <2>2. cmd' = [cmd EXCEPT ![c] = s]
      BY <1>8 DEF Sends
    <2> HIDE DEF s
    <2> QED
      BY <1>5, <1>8, <2>1, <2>2
  <1>9. CASE ChooseNew(c)
    BY <1>8, <1>9 DEF ChooseNew
  <1>10. \A r \in cmd[c].shown : r \in Repo /\ r.name \in RepoName /\ NamedSo(r.id, r.name)
    BY <1>4 DEF CommandState, CommandNames, Repo
  <1>11. CASE ChooseEdit(c) \/ ChooseRm(c)
    BY <1>8, <1>10, <1>11 DEF ChooseEdit, ChooseRm
  <1>12. ASSUME NEW pc \in {"ok", "ended", "timeout"}, cmd[c].pc = "sent",
                cmd' = [cmd EXCEPT ![c].pc = pc]
         PROVE  cmd' \in [Command -> CommandState] /\ CommandNames'
    <2> DEFINE s == [cmd[c] EXCEPT !.pc = pc]
    <2>1. /\ s \in CommandState /\ s.pc = pc /\ s.op = cmd[c].op /\ s.shown = cmd[c].shown
          /\ s.repo = cmd[c].repo /\ s.name = cmd[c].name /\ s.policy = cmd[c].policy
      BY <1>4 DEF CommandState
    <2>2. cmd' = [cmd EXCEPT ![c] = s]
      BY <1>12
    <2> HIDE DEF s
    <2> QED
      BY <1>5, <1>12, <2>1, <2>2 DEF CommandNames, Asked
  <1> QED
    BY <1>6, <1>7, <1>9, <1>11, <1>12
       DEF CommandStep, ListRepos, ChooseNone, Reply, Timeout

LEMMA CommandNamesNext ==
  ASSUME CommandInv, [CommandNext]_vars
  PROVE  cmd' \in [Command -> CommandState] /\ CommandNames'
  <1>1. RepoNamesStay
    BY CommandNamesStay DEF CommandInv
  <1>2. \A i, n : NamedSo(i, n) => NamedSo(i, n)'
    BY <1>1 DEF RepoNamesStay, NamedSo
  <1>3. ASSUME NEW c \in Command, CommandStep(c)
        PROVE  cmd' \in [Command -> CommandState] /\ CommandNames'
    BY <1>3, CommandOwnNames
  <1>4. CASE UNCHANGED cmd
    BY <1>2, <1>4 DEF CommandInv, CommandNames, Asked
  <1>5. CASE ServerCrash
    <2>1. Nothing("ended") \in CommandState
      BY DEF Nothing, CommandState, Op
    <2>2. \A c \in Command : cmd'[c] = Nothing("ended") \/ cmd'[c] = cmd[c]
      BY <1>5 DEF ServerCrash
    <2>3. cmd' \in [Command -> CommandState]
      BY <1>5, <2>1 DEF CommandInv, ServerCrash
    <2>4. CommandNames'
      BY <1>2, <2>2 DEF CommandInv, CommandNames, Asked, Nothing
    <2> QED
      BY <2>3, <2>4
  <1> QED
    BY <1>3, <1>4, <1>5, HandlerIs DEF CommandNext, vars

-----------------------------------------------------------------------------
(* A handler does what its command asked for.                              *)

\* What a step of one command's handler leaves alone.
LEMMA HandlerOthers ==
  ASSUME HandlersInv, NEW c \in Command, HandlerStep(c)
  PROVE  /\ UNCHANGED cmd
         /\ \A d \in Command : d # c => cr'[d] = cr[d] /\ pt'[d] = pt[d] /\ dl'[d] = dl[d]
  <1>1. /\ cr \in [Command -> CreateState]
        /\ pt \in [Command -> UpdateState]
        /\ dl \in [Command -> DeleteState]
    BY CommandsAssumption DEF HandlersInv, AdminTypeOK
  <1>2. CASE CreateStep(c)
    BY <1>1, <1>2, HandlerIs DEF CreateStep, CreateMkdir, CreateInsert, CreateRmdir, CreateAnswer
  <1>3. CASE UpdateStep(c)
    BY <1>1, <1>3, HandlerIs DEF UpdateStep, UpdateGet, UpdatePut, UpdateAnswer
  <1>4. CASE DeleteStep(c)
    BY <1>1, <1>4, HandlerIs
       DEF DeleteStep, DeleteGet, DeleteRows, DeleteRow, DeleteList, DeleteUnlink, DeleteRmdir,
           DeleteRemoveFails, DeleteAnswer
  <1> QED
    BY <1>2, <1>3, <1>4, HandlerIs

LEMMA HandlerAsked ==
  ASSUME CommandInv, NEW c \in Command, HandlerStep(c)
  PROVE  RequestsAsked'
  <1>1. /\ cr \in [Command -> CreateState]
        /\ pt \in [Command -> UpdateState]
        /\ dl \in [Command -> DeleteState]
    BY CommandsAssumption DEF CommandInv, HandlersInv, AdminTypeOK
  <1>2. UNCHANGED cmd
    BY HandlerIs
  <1>3. \A d \in Command : d # c => CreateAsked(d)' /\ UpdateAsked(d)' /\ DeleteAsked(d)'
    BY <1>2, HandlerOthers
       DEF CommandInv, RequestsAsked, CreateAsked, UpdateAsked, DeleteAsked, Asked
  <1>4. CreateAsked(c) /\ UpdateAsked(c) /\ DeleteAsked(c)
    BY DEF CommandInv, RequestsAsked
  <1>5. ASSUME UNCHANGED cr PROVE CreateAsked(c)'
    BY <1>2, <1>4, <1>5 DEF CreateAsked, Asked
  <1>6. ASSUME UNCHANGED pt PROVE UpdateAsked(c)'
    BY <1>2, <1>4, <1>6 DEF UpdateAsked, Asked
  <1>7. ASSUME UNCHANGED dl PROVE DeleteAsked(c)'
    BY <1>2, <1>4, <1>7 DEF DeleteAsked, Asked
  <1>8. CASE BeginCreate(c)
    <2>1. cr'[c].pc \in {"insert", "500"}
      BY <1>1, <1>8 DEF BeginCreate, CreateMkdir, CreateAnswer
    <2>2. CreateAsked(c)'
      BY <1>2, <1>8, <2>1 DEF BeginCreate, CreateAsked, Asked, Out
    <2> QED
      BY <1>3, <1>6, <1>7, <1>8, <2>2 DEF BeginCreate, CreateMkdir, RequestsAsked
  <1>9. CASE BeginUpdate(c)
    <2>1. pt'[c].pc \in {"put", "404", "500"}
      BY <1>1, <1>9 DEF BeginUpdate, UpdateGet, UpdateAnswer
    <2>2. Asked(c, "edit")
      BY <1>9 DEF BeginUpdate, Asked, Out
    <2>3. pt'[c].pc = "put" => pt'[c].row.name = cmd[c].name
      <3>1. ASSUME pt'[c].pc = "put" PROVE pt'[c].row \in repos /\ pt'[c].row.id = cmd[c].repo.id
        BY <1>1, <1>9, <3>1 DEF BeginUpdate, UpdateGet, UpdateAnswer, ReposWithId
      <3> QED
        BY <2>2, <3>1 DEF CommandInv, CommandNames, NamedSo
    <2>4. UpdateAsked(c)'
      BY <1>2, <2>1, <2>2, <2>3 DEF UpdateAsked, Asked
    <2> QED
      BY <1>3, <1>5, <1>7, <1>9, <2>4 DEF BeginUpdate, UpdateGet, RequestsAsked
  <1>10. CASE BeginDelete(c)
    <2>1. dl'[c].pc \in {"rows", "404", "500"}
      BY <1>1, <1>10 DEF BeginDelete, DeleteGet, DeleteAnswer
    <2>2. DeleteAsked(c)'
      BY <1>2, <1>10, <2>1 DEF BeginDelete, DeleteAsked, Asked, Out
    <2> QED
      BY <1>3, <1>5, <1>6, <1>10, <2>2 DEF BeginDelete, DeleteGet, RequestsAsked
  <1>11. CASE cr[c].pc # "idle" /\ CreateStep(c)
    <2>1. CreateAsked(c)'
      BY <1>1, <1>2, <1>4, <1>11
         DEF CreateStep, CreateMkdir, CreateInsert, CreateRmdir, CreateAnswer, CreateAsked, Asked,
             CreateState
    <2> QED
      BY <1>3, <1>6, <1>7, <1>11, <2>1
         DEF CreateStep, CreateMkdir, CreateInsert, CreateRmdir, RequestsAsked
  <1>12. CASE pt[c].pc # "idle" /\ UpdateStep(c)
    <2>1. UpdateAsked(c)'
      BY <1>1, <1>2, <1>4, <1>12
         DEF UpdateStep, UpdateGet, UpdatePut, UpdateAnswer, UpdateAsked, Asked, UpdateState
    <2> QED
      BY <1>3, <1>5, <1>7, <1>12, <2>1 DEF UpdateStep, UpdateGet, UpdatePut, RequestsAsked
  <1>13. CASE dl[c].pc # "idle" /\ DeleteStep(c)
    <2>1. DeleteAsked(c)'
      BY <1>1, <1>2, <1>4, <1>13
         DEF DeleteStep, DeleteGet, DeleteRows, DeleteRow, DeleteList, DeleteUnlink, DeleteRmdir,
             DeleteRemoveFails, DeleteAnswer, DeleteAsked, Asked, DeleteState
    <2>2. UNCHANGED <<cr, pt>>
      BY <1>13
         DEF DeleteStep, DeleteGet, DeleteRows, DeleteRow, DeleteList, DeleteUnlink, DeleteRmdir,
             DeleteRemoveFails
    <2> QED
      BY <1>3, <1>5, <1>6, <2>1, <2>2 DEF RequestsAsked
  <1> QED
    BY <1>8, <1>9, <1>10, <1>11, <1>12, <1>13 DEF HandlerStep

LEMMA RequestsAskedNext ==
  ASSUME CommandInv, [CommandNext]_vars
  PROVE  RequestsAsked'
  <1>1. ASSUME NEW c \in Command, HandlerStep(c) PROVE RequestsAsked'
    BY <1>1, HandlerAsked
  <1>2. ASSUME \A c \in Command :
                 /\ cr'[c] = cr[c] \/ cr'[c].pc = "lost"
                 /\ pt'[c] = pt[c] \/ pt'[c].pc = "lost"
                 /\ dl'[c] = dl[c] \/ dl'[c].pc = "lost"
        PROVE  RequestsAsked'
    <2> SUFFICES ASSUME NEW c \in Command
                 PROVE  CreateAsked(c)' /\ UpdateAsked(c)' /\ DeleteAsked(c)'
      BY DEF RequestsAsked
    <2>1. CreateAsked(c) /\ UpdateAsked(c) /\ DeleteAsked(c)
      BY DEF CommandInv, RequestsAsked
    <2>2. ASSUME NEW op, Asked(c, op), Status(c) # "idle"
          PROVE  /\ Asked(c, op)'
                 /\ cmd'[c].name = cmd[c].name /\ cmd'[c].repo = cmd[c].repo
                 /\ cmd'[c].policy = cmd[c].policy
      BY <2>2, AskedStays DEF CommandInv, Asked
    <2>3. /\ Asked(c, "new") => Status(c) = cr[c].pc
          /\ Asked(c, "edit") => Status(c) = pt[c].pc
          /\ Asked(c, "rm") => Status(c) = dl[c].pc
      BY DEF Asked, Status
    <2>4. CreateAsked(c)'
      BY <1>2, <2>1, <2>2, <2>3 DEF CreateAsked
    <2>5. UpdateAsked(c)'
      BY <1>2, <2>1, <2>2, <2>3 DEF UpdateAsked
    <2>6. DeleteAsked(c)'
      BY <1>2, <2>1, <2>2, <2>3 DEF DeleteAsked
    <2> QED
      BY <2>4, <2>5, <2>6
  <1>3. CASE UNCHANGED adminVars
    BY <1>2, <1>3 DEF adminVars
  <1>4. CASE ServerCrash
    BY <1>2, <1>4, CommandsAssumption DEF ServerCrash, AdminCrash
  <1> QED
    BY <1>1, <1>3, <1>4, OwnStep DEF CommandNext, serverVars, adminVars, vars

LEMMA CommandInvariant == CommandSpec => []CommandInv
  <1>1. CommandInv /\ [CommandNext]_vars => CommandInv'
    BY CommandHandlers, CommandNamesNext, CommandRowNames, RequestsAskedNext DEF CommandInv
  <1> QED
    BY <1>1, CommandInitInv, PTL DEF CommandSpec

\* The commands, the requests they send and the tables have their types.
THEOREM CommandTypesCorrect == CommandSpec => []CommandTypeOK
  <1>1. CommandInv => CommandTypeOK
    BY DEF CommandInv, HandlersInv, CommandTypeOK
  <1> QED
    BY <1>1, CommandInvariant, PTL

\* Commands, requests that outlive their command, uploads and crashes: every
\* step is one statement of the store or leaves the tables alone, so what the
\* store promises for any sequence of calls, it promises the commands.
THEOREM CommandsUseStore == CommandSpec => [][StoreNext]_storeVars
  <1>1. CommandInv /\ [CommandNext]_vars => [StoreNext]_storeVars
    BY CommandStoreStep DEF CommandInv
  <1> QED
    BY <1>1, CommandInvariant, PTL DEF CommandSpec

\* The id of a repository that a command was shown, however long ago, names
\* this repository or none: "edit", "rm" and "info" send ids, not names
\* (client.go:122-162, migrations.go: AUTOINCREMENT).
THEOREM ShownIdsNeverReused == CommandSpec => IdsNeverReused
  <1>1. CommandInv /\ [CommandNext]_vars => [IdsStayGone]_storeVars
    BY CommandStoreStep, StoreStepIds DEF CommandInv, HandlersInv, StoreInv
  <1>2. IdsNeverReused <=> [][IdsStayGone]_storeVars
    BY DEF IdsNeverReused, IdsStayGone
  <1> QED
    BY <1>1, <1>2, CommandInvariant, PTL DEF CommandSpec

-----------------------------------------------------------------------------
(***************************************************************************)
(* The steps that change the table of repositories, and who asked for them *)
(***************************************************************************)

Creates(c) ==
  /\ Asked(c, "new")
  /\ RepoCreate(cmd[c].name, cmd[c].policy)

Updates(c) ==
  /\ pt[c].pc = "put"
  /\ RepoUpdate(Patched(pt[c].row, pt[c].patch))

Deletes(c) ==
  /\ dl[c].pc = "row" /\ dl'[c].pc = "list"
  /\ RepoDelete(dl[c].id)

LEMMA ReposChange ==
  ASSUME CommandInv, [CommandNext]_vars
  PROVE  \/ UNCHANGED repos
         \/ \E c \in Command : HandlerStep(c) /\ (Creates(c) \/ Updates(c) \/ Deletes(c))
  <1>1. ASSUME NEW c \in Command, HandlerStep(c)
        PROVE  UNCHANGED repos \/ Creates(c) \/ Updates(c) \/ Deletes(c)
    <2>1. CASE CreateStep(c)
      BY <2>1 DEF CreateStep, CreateMkdir, CreateInsert, CreateRmdir, Creates, CommandInv,
                  RequestsAsked, CreateAsked, storeVars
    <2>2. CASE UpdateStep(c)
      BY <2>2 DEF UpdateStep, UpdateGet, UpdatePut, Updates, storeVars
    <2>3. CASE DeleteStep(c)
      <3>1. dl \in [Command -> DeleteState]
        BY CommandsAssumption DEF CommandInv, HandlersInv, AdminTypeOK
      <3> QED
        BY <2>3, <3>1
           DEF DeleteStep, DeleteGet, DeleteRows, DeleteRow, DeleteList, DeleteUnlink, DeleteRmdir,
               DeleteRemoveFails, ArtifactDeleteByRepo, Deletes, storeVars, DeleteState
    <2> QED
      BY <1>1, <2>1, <2>2, <2>3, HandlerIs
  <1>2. ASSUME NEW u \in Upload, UploadStep(u) PROVE UNCHANGED repos
    BY <1>2
       DEF UploadStep, UploadLookup, UploadCheck, UploadCreateTemp, UploadCopy, UploadCopyFails,
           UploadRename, UploadInsert, UploadRollback, UploadQueryFails, ArtifactCreate, storeVars
  <1> QED
    BY <1>1, <1>2, OwnStep DEF CommandNext, ServerCrash, serverVars, storeVars, vars

\* An update leaves every row its id and its name.
LEMMA UpdatesKeep ==
  ASSUME CommandInv, NEW c \in Command, Updates(c)
  PROVE  /\ \A r \in repos : \E s \in repos' : s.id = r.id /\ s.name = r.name
         /\ \A s \in repos' : \E r \in repos : s.id = r.id /\ s.name = r.name
         /\ \E s \in repos' : s.name = cmd[c].name
  <1> DEFINE row == Patched(pt[c].row, pt[c].patch)
  <1>1. row.id = pt[c].row.id /\ row.name = pt[c].row.name
    BY PatchedType, CommandsAssumption DEF Updates, CommandInv, HandlersInv, AdminLocals
  <1>2. NamedSo(row.id, row.name) /\ row.name = cmd[c].name
    BY <1>1, CommandsAssumption
       DEF Updates, CommandInv, UpdateNames, RequestsAsked, UpdateAsked
  <1>3. RepoUpdate(row)
    BY DEF Updates
  <1> HIDE DEF row
  <1> QED
    BY <1>2, <1>3 DEF RepoUpdate, RepoUpdatable, ReposWithId, NamedSo

\* A deletion takes away the repository that was shown.
LEMMA DeletesShown ==
  ASSUME CommandInv, NEW c \in Command, Deletes(c)
  PROVE  /\ Asked(c, "rm") /\ cmd[c].name = cmd[c].repo.name
         /\ repos' = {r \in repos : r.id # cmd[c].repo.id}
         /\ \A r \in repos : r.id = cmd[c].repo.id => r.name = cmd[c].repo.name
  <1>1. Asked(c, "rm") /\ dl[c].id = cmd[c].repo.id
    BY DEF Deletes, CommandInv, RequestsAsked, DeleteAsked
  <1> QED
    BY <1>1 DEF Deletes, RepoDelete, ReposWithId, CommandInv, CommandNames, NamedSo

RemovedAsShown ==
  \A r \in repos : (\A s \in repos' : s.id # r.id) =>
    \E c \in Command : Asked(c, "rm") /\ cmd[c].repo.id = r.id /\ cmd[c].repo.name = r.name

AddedAsAsked ==
  \A s \in repos' : (\A r \in repos : r.id # s.id) =>
    \E c \in Command :
      /\ Asked(c, "new")
      /\ cmd[c].name = s.name
      /\ cmd[c].policy = [keepCount |-> s.keepCount, keepDays |-> s.keepDays]

LEMMA ReposChangeAsAsked ==
  ASSUME CommandInv, [CommandNext]_vars
  PROVE  RemovedAsShown /\ AddedAsAsked
  <1>1. CASE UNCHANGED repos
    BY <1>1 DEF RemovedAsShown, AddedAsAsked
  <1>2. ASSUME NEW c \in Command, Creates(c) PROVE RemovedAsShown /\ AddedAsAsked
    <2> DEFINE row == [id |-> NextRepoId, name |-> cmd[c].name,
                       keepCount |-> cmd[c].policy.keepCount, keepDays |-> cmd[c].policy.keepDays]
    <2>1. Asked(c, "new") /\ cmd[c].policy \in Policy /\ repos' = repos \union {row}
      BY <1>2 DEF Creates, RepoCreate, CommandInv, CommandNames
    <2>2. /\ row.name = cmd[c].name
          /\ cmd[c].policy = [keepCount |-> row.keepCount, keepDays |-> row.keepDays]
      BY <2>1 DEF Policy
    <2> HIDE DEF row
    <2> QED
      BY <2>1, <2>2 DEF RemovedAsShown, AddedAsAsked
  <1>3. ASSUME NEW c \in Command, Updates(c) PROVE RemovedAsShown /\ AddedAsAsked
    BY <1>3, UpdatesKeep DEF RemovedAsShown, AddedAsAsked
  <1>4. ASSUME NEW c \in Command, Deletes(c) PROVE RemovedAsShown /\ AddedAsAsked
    BY <1>4, DeletesShown DEF RemovedAsShown, AddedAsAsked
  <1> QED
    BY <1>1, <1>2, <1>3, <1>4, ReposChange

\* A repository goes only because a command that was shown it, under the name
\* it has, sent its deletion: an id that was chosen from an old list never
\* means another repository (repo_rm.go:44-95).
THEOREM RemovalsAreOfShown == CommandSpec => RemovesWhatWasShown
  <1>1. CommandInv /\ [CommandNext]_vars => [RemovedAsShown]_vars
    BY ReposChangeAsAsked
  <1>2. RemovesWhatWasShown <=> [][RemovedAsShown]_vars
    BY DEF RemovesWhatWasShown, RemovedAsShown
  <1> QED
    BY <1>1, <1>2, CommandInvariant, PTL DEF CommandSpec

\* A repository appears only as a creation asked for it, with its name and its
\* policy; no edit brings back one that was deleted (repo_handler.go:184-222).
THEOREM AdditionsAreAsked == CommandSpec => AddsWhatWasAsked
  <1>1. CommandInv /\ [CommandNext]_vars => [AddedAsAsked]_vars
    BY ReposChangeAsAsked
  <1>2. AddsWhatWasAsked <=> [][AddedAsAsked]_vars
    BY DEF AddsWhatWasAsked, AddedAsAsked
  <1> QED
    BY <1>1, <1>2, CommandInvariant, PTL DEF CommandSpec

-----------------------------------------------------------------------------
(***************************************************************************)
(* Answers.  Of a name that a creation or an update was answered 200 for,  *)
(* there is a repository, or a deletion of it has begun: the request of    *)
(* that deletion reached its handler, so no crash takes it back.           *)
(***************************************************************************)

Removed(n) == \E d \in Command : dl[d].pc # "idle" /\ Asked(d, "rm") /\ cmd[d].name = n

Named(n) == \E r \in repos : r.name = n

Replied == \A c \in Command : cmd[c].pc = "ok" => Status(c) = "200"

StaysDone ==
  \A c \in Command :
    cr[c].pc = "200" \/ pt[c].pc = "200" => Named(cmd[c].name) \/ Removed(cmd[c].name)

OneCreates ==
  \A c, d \in Command :
    cr[c].pc = "200" /\ cr[d].pc = "200" /\ cmd[c].name = cmd[d].name =>
      c = d \/ Removed(cmd[c].name)

DoneInv == Replied /\ StaysDone /\ OneCreates

\* A request that has begun does not go back, and an answer stays.
LEMMA BegunStays ==
  ASSUME HandlersInv, [CommandNext]_vars, NEW c \in Command
  PROVE  /\ dl[c].pc # "idle" => dl'[c].pc # "idle"
         /\ cr[c].pc = "200" => cr'[c].pc = "200"
         /\ pt[c].pc = "200" => pt'[c].pc = "200"
         /\ dl[c].pc = "200" => dl'[c].pc = "200"
  <1>1. /\ cr \in [Command -> CreateState]
        /\ pt \in [Command -> UpdateState]
        /\ dl \in [Command -> DeleteState]
    BY CommandsAssumption DEF HandlersInv, AdminTypeOK
  <1>2. ASSUME NEW d \in Command, HandlerStep(d)
        PROVE  /\ dl[d].pc # "idle" => dl'[d].pc # "idle"
               /\ cr[d].pc = "200" => cr'[d].pc = "200"
               /\ pt[d].pc = "200" => pt'[d].pc = "200"
               /\ dl[d].pc = "200" => dl'[d].pc = "200"
    <2>1. CASE CreateStep(d)
      BY <1>1, <1>2, <2>1, HandlerIs
         DEF CreateStep, CreateMkdir, CreateInsert, CreateRmdir
    <2>2. CASE UpdateStep(d)
      BY <1>1, <1>2, <2>2, HandlerIs DEF UpdateStep, UpdateGet, UpdatePut
    <2>3. CASE DeleteStep(d)
      BY <1>1, <1>2, <2>3, HandlerIs
         DEF DeleteStep, DeleteGet, DeleteRows, DeleteRow, DeleteList, DeleteUnlink, DeleteRmdir,
             DeleteRemoveFails, DeleteAnswer, DeleteState
    <2> QED
      BY <1>2, <2>1, <2>2, <2>3, HandlerIs
  <1>3. CASE UNCHANGED adminVars
    BY <1>3 DEF adminVars
  <1>4. CASE ServerCrash
    BY <1>4, CommandsAssumption DEF ServerCrash, AdminCrash, AdminAnswered
  <1> QED
    BY <1>2, <1>3, <1>4, OwnStep, HandlerOthers DEF CommandNext, serverVars, adminVars, vars

LEMMA RemovedStays ==
  ASSUME CommandInv, [CommandNext]_vars, NEW n, Removed(n)
  PROVE  Removed(n)'
  <1>1. PICK d \in Command : dl[d].pc # "idle" /\ Asked(d, "rm") /\ cmd[d].name = n
    BY DEF Removed
  <1>2. Status(d) = dl[d].pc
    BY <1>1 DEF Asked, Status
  <1>3. Asked(d, "rm")' /\ cmd'[d].name = n
    BY <1>1, <1>2, AskedStays DEF Asked, CommandInv
  <1>4. dl'[d].pc # "idle"
    BY <1>1, BegunStays DEF CommandInv
  <1> QED
    BY <1>3, <1>4 DEF Removed

LEMMA NamedStays ==
  ASSUME CommandInv, [CommandNext]_vars, NEW n, Named(n)
  PROVE  Named(n)' \/ Removed(n)'
  <1>1. CASE UNCHANGED repos
    BY <1>1 DEF Named
  <1>2. ASSUME NEW c \in Command, Creates(c) PROVE Named(n)'
    BY <1>2 DEF Creates, RepoCreate, Named
  <1>3. ASSUME NEW c \in Command, Updates(c) PROVE Named(n)'
    BY <1>3, UpdatesKeep DEF Named
  <1>4. ASSUME NEW c \in Command, HandlerStep(c), Deletes(c) PROVE Named(n)' \/ Removed(n)'
    <2>1. CASE cmd[c].name = n
      <3>1. UNCHANGED cmd /\ dl'[c].pc # "idle" /\ Asked(c, "rm")
        BY <1>4, HandlerIs, DeletesShown DEF Deletes
      <3> QED
        BY <2>1, <3>1 DEF Removed, Asked
    <2>2. CASE cmd[c].name # n
      BY <1>4, <2>2, DeletesShown DEF Named
    <2> QED
      BY <2>1, <2>2
  <1> QED
    BY <1>1, <1>2, <1>3, <1>4, ReposChange

\* What a handler answers 200 for is done, and was asked for by its command.
LEMMA DoneNow ==
  ASSUME CommandInv, NEW c \in Command, HandlerStep(c)
  PROVE  /\ cr'[c].pc = "200" /\ cr[c].pc # "200" =>
              /\ ~ Named(cmd[c].name) /\ Named(cmd[c].name)'
              /\ cr'[c].name = cmd[c].name
         /\ pt'[c].pc = "200" /\ pt[c].pc # "200" => Named(cmd[c].name)'
  <1>1. cr \in [Command -> CreateState] /\ pt \in [Command -> UpdateState]
    BY CommandsAssumption DEF CommandInv, HandlersInv, AdminTypeOK
  <1>2. ASSUME cr'[c].pc = "200", cr[c].pc # "200"
        PROVE  ~ Named(cmd[c].name) /\ Named(cmd[c].name)' /\ cr'[c].name = cmd[c].name
    <2>1. CreateStep(c)
      BY <1>2, HandlerIs
    <2>2. /\ cr[c].pc = "insert" /\ cr'[c].name = cr[c].name
          /\ RepoCreate(cr[c].name, cr[c].policy)
      BY <1>1, <1>2, <2>1
         DEF CreateStep, CreateMkdir, CreateInsert, CreateRmdir, CreateAnswer, CreateState
    <2>3. cr[c].name = cmd[c].name
      BY <2>2 DEF CommandInv, RequestsAsked, CreateAsked
    <2>4. UNCHANGED cmd
      BY HandlerIs
    <2>5. ~ Named(cmd[c].name)
      BY <2>2, <2>3 DEF RepoCreate, RepoCreatable, ReposNamed, Named
    <2>6. \E r \in repos' : r.name = cmd[c].name
      <3> DEFINE row == [id |-> NextRepoId, name |-> cr[c].name,
                         keepCount |-> cr[c].policy.keepCount, keepDays |-> cr[c].policy.keepDays]
      <3>1. row \in repos' /\ row.name = cr[c].name
        BY <2>2 DEF RepoCreate
      <3> HIDE DEF row
      <3> QED
        BY <2>3, <3>1
    <2> QED
      BY <2>2, <2>3, <2>4, <2>5, <2>6 DEF Named
  <1>3. ASSUME pt'[c].pc = "200", pt[c].pc # "200" PROVE Named(cmd[c].name)'
    <2>1. UpdateStep(c)
      BY <1>3, HandlerIs
    <2>2. Updates(c)
      BY <1>1, <1>3, <2>1 DEF UpdateStep, UpdateGet, UpdatePut, UpdateAnswer, Updates, UpdateState
    <2>3. UNCHANGED cmd
      BY HandlerIs
    <2> QED
      BY <2>2, <2>3, UpdatesKeep DEF Named
  <1> QED
    BY <1>2, <1>3

\* Who asked for what he was answered keeps the name he asked for.
LEMMA AnsweredKeepsName ==
  ASSUME CommandInv, [CommandNext]_vars, NEW c \in Command, cr[c].pc = "200" \/ pt[c].pc = "200"
  PROVE  cmd'[c].name = cmd[c].name
  <1>1. (Asked(c, "new") /\ cr[c].pc = "200") \/ (Asked(c, "edit") /\ pt[c].pc = "200")
    BY DEF CommandInv, RequestsAsked, CreateAsked, UpdateAsked
  <1>2. Status(c) # "idle"
    BY <1>1 DEF Asked, Status
  <1> QED
    BY <1>1, <1>2, AskedStays DEF Asked, CommandInv

\* Only its handler answers a request, and only with what it has done.
LEMMA AnswersAreHandlers ==
  ASSUME CommandInv, [CommandNext]_vars, NEW c \in Command, ~ HandlerStep(c)
  PROVE  /\ cr'[c] = cr[c] \/ cr'[c].pc = "lost"
         /\ pt'[c] = pt[c] \/ pt'[c].pc = "lost"
         /\ dl'[c] = dl[c] \/ dl'[c].pc = "lost"
  <1>1. CASE UNCHANGED adminVars
    BY <1>1 DEF adminVars
  <1>2. CASE ServerCrash
    BY <1>2, CommandsAssumption DEF ServerCrash, AdminCrash
  <1> QED
    BY <1>1, <1>2, OwnStep, HandlerOthers
       DEF CommandInv, CommandNext, serverVars, adminVars, vars

LEMMA RepliedNext ==
  ASSUME CommandInv, Replied, [CommandNext]_vars
  PROVE  Replied'
  <1> SUFFICES ASSUME NEW c \in Command, cmd'[c].pc = "ok" PROVE Status(c)' = "200"
    BY DEF Replied
  <1>1. CASE cmd[c].pc = "ok"
    <2>1. Status(c) = "200" /\ cmd[c].op \in {"new", "edit", "rm"}
      BY <1>1 DEF Replied, CommandInv, CommandNames, CommandState, Op
    <2>2. cmd'[c].op = cmd[c].op
      BY <1>1, AskedStays DEF CommandInv, Out
    <2> QED
      BY <2>1, <2>2, BegunStays DEF Status, CommandInv
  <1>2. CASE cmd[c].pc # "ok"
    <2>1. Reply(c)
      <3>1. ASSUME NEW d \in Command, CommandStep(d) PROVE Reply(c)
        <4>1. cmd \in [Command -> CommandState]
          BY DEF CommandInv
        <4>2. CASE Reply(d)
          BY <1>2, <4>1, <4>2 DEF Reply
        <4>3. CASE ListRepos(d) \/ ChooseNone(d) \/ Timeout(d)
          <5>1. CASE GivesUp(d)
            <6>1. cmd'[d].pc = "ended" /\ (c # d => cmd'[c] = cmd[c])
              BY <4>1, <5>1 DEF GivesUp, Nothing
            <6> QED
              BY <1>2, <6>1
          <5>2. CASE cmd' = [cmd EXCEPT ![d].pc = "timeout"]
            <6>1. cmd'[d].pc = "timeout" /\ (c # d => cmd'[c] = cmd[c])
              BY <4>1, <5>2 DEF CommandState
            <6> QED
              BY <1>2, <6>1
          <5>3. ASSUME NEW op \in Op,
                       cmd' = [cmd EXCEPT ![d].pc = "choose", ![d].op = op,
                                          ![d].shown = ListedRepos]
                PROVE  Reply(c)
            <6> DEFINE asked == [cmd[d] EXCEPT !.pc = "choose", !.op = op, !.shown = ListedRepos]
            <6>1. cmd[d] \in CommandState
              BY <4>1
            <6>2. asked.pc = "choose"
              BY <6>1 DEF CommandState
            <6>3. cmd' = [cmd EXCEPT ![d] = asked]
              BY <5>3
            <6> HIDE DEF asked
            <6>4. cmd'[d] = asked /\ (c # d => cmd'[c] = cmd[c])
              BY <4>1, <6>3
            <6> QED
              BY <1>2, <6>2, <6>4
          <5> QED
            BY <4>3, <5>1, <5>2, <5>3 DEF ListRepos, ChooseNone, Timeout
        <4>4. CASE ChooseNew(d) \/ ChooseEdit(d) \/ ChooseRm(d)
          BY <1>2, <4>1, <4>4 DEF ChooseNew, ChooseEdit, ChooseRm, Sends
        <4> QED
          BY <3>1, <4>2, <4>3, <4>4 DEF CommandStep
      <3>2. CASE ServerCrash
        BY <1>2, <3>2 DEF ServerCrash, Nothing
      <3> QED
        BY <1>2, <3>1, <3>2, HandlerIs DEF CommandNext, vars
    <2>2. Status(c) = "200" /\ cmd'[c].op = cmd[c].op /\ UNCHANGED adminVars
      BY <1>2, <2>1 DEF Reply, serverVars, CommandInv, CommandState
    <2> QED
      BY <2>2 DEF Status, adminVars
  <1> QED
    BY <1>1, <1>2

LEMMA StaysDoneNext ==
  ASSUME CommandInv, StaysDone, [CommandNext]_vars
  PROVE  StaysDone'
  <1> SUFFICES ASSUME NEW c \in Command, cr'[c].pc = "200" \/ pt'[c].pc = "200"
               PROVE  Named(cmd[c].name)' \/ Removed(cmd[c].name)'
    BY DEF StaysDone
  <1>1. CASE cr[c].pc = "200" \/ pt[c].pc = "200"
    <2>1. PICK n : n = cmd[c].name /\ n = cmd'[c].name
      BY <1>1, AnsweredKeepsName
    <2>2. Named(n) \/ Removed(n)
      BY <1>1, <2>1 DEF StaysDone
    <2>3. Named(n)' \/ Removed(n)'
      BY <2>2, NamedStays, RemovedStays
    <2> QED
      BY <2>1, <2>3 DEF Named, Removed
  <1>2. CASE ~ (cr[c].pc = "200" \/ pt[c].pc = "200")
    <2>1. HandlerStep(c)
      BY <1>2, AnswersAreHandlers
    <2> QED
      BY <1>2, <2>1, DoneNow
  <1> QED
    BY <1>1, <1>2

LEMMA OneCreatesNext ==
  ASSUME CommandInv, StaysDone, OneCreates, [CommandNext]_vars
  PROVE  OneCreates'
  <1> SUFFICES ASSUME NEW c \in Command, NEW d \in Command, c # d,
                      cr'[c].pc = "200", cr'[d].pc = "200", cmd'[c].name = cmd'[d].name
               PROVE  Removed(cmd[c].name)'
    BY DEF OneCreates
  <1>1. CASE cr[c].pc = "200" /\ cr[d].pc = "200"
    <2>1. PICK n : n = cmd[c].name /\ n = cmd'[c].name /\ n = cmd[d].name
      BY <1>1, AnsweredKeepsName
    <2>2. Removed(n)
      BY <1>1, <2>1 DEF OneCreates
    <2>3. Removed(n)'
      BY <2>2, RemovedStays
    <2> QED
      BY <2>1, <2>3 DEF Removed
  \* The second of two insertions finds the name free.
  <1>2. ASSUME NEW e \in {c, d}, NEW f \in {c, d}, e # f, cr[e].pc # "200"
        PROVE  Removed(cmd[c].name)'
    <2>1. HandlerStep(e)
      BY <1>2, AnswersAreHandlers
    <2>2. UNCHANGED cmd /\ cr[f].pc = "200"
      BY <1>2, <2>1, HandlerOthers DEF CommandInv
    <2>3. ~ Named(cmd[f].name)
      BY <1>2, <2>1, <2>2, DoneNow
    <2>4. PICK n : n = cmd[f].name /\ n = cmd'[c].name
      BY <1>2, <2>2
    <2>5. Removed(n)
      BY <2>2, <2>3, <2>4 DEF StaysDone
    <2>6. Removed(n)'
      BY <2>5, RemovedStays
    <2> QED
      BY <2>4, <2>6 DEF Removed
  <1> QED
    BY <1>1, <1>2

LEMMA DoneInvariant == CommandSpec => []DoneInv
  <1>1. CommandInit => DoneInv
    <2> SUFFICES ASSUME CommandInit PROVE DoneInv
      OBVIOUS
    <2>1. \A c \in Command : cmd[c].pc = "idle" /\ cr[c].pc = "idle" /\ pt[c].pc = "idle"
      BY CommandsAssumption DEF CommandInit, AdminInit, Nothing
    <2> QED
      BY <2>1 DEF DoneInv, Replied, StaysDone, OneCreates
  <1>2. CommandInv /\ DoneInv /\ [CommandNext]_vars => DoneInv'
    BY RepliedNext, StaysDoneNext, OneCreatesNext DEF DoneInv
  <1> QED
    BY <1>1, <1>2, CommandInvariant, PTL DEF CommandSpec

\* What a command reports as done is done: a deleted repository is gone with
\* its artifacts and for good, one that was created or updated is there until
\* a deletion that somebody asked for (client.go:206-213).
THEOREM SuccessesAreDone == CommandSpec => []SuccessMeansDone
  <1>1. CommandInv /\ DoneInv => SuccessMeansDone
    <2> SUFFICES ASSUME CommandInv, DoneInv, NEW c \in Command, cmd[c].pc = "ok"
                 PROVE  CASE cmd[c].op = "rm" -> RowsOf(c) = {} /\ ArtifactsOf(cmd[c].repo.id) = {}
                          [] cmd[c].op \in {"new", "edit"} ->
                                 \/ ReposNamed(cmd[c].name) # {}
                                 \/ \E d \in Command : Asked(d, "rm") /\ cmd[d].name = cmd[c].name
                          [] OTHER -> TRUE
      BY DEF SuccessMeansDone
    <2>1. Status(c) = "200"
      BY DEF DoneInv, Replied
    <2>2. CASE cmd[c].op = "rm"
      <3>1. dl[c].pc = "200" /\ dl[c].id = cmd[c].repo.id
        BY <2>1, <2>2 DEF Status, CommandInv, RequestsAsked, DeleteAsked
      <3>2. \A r \in repos : r.id # cmd[c].repo.id
        BY <3>1, CommandsAssumption DEF CommandInv, RowsGone
      <3>3. RowsOf(c) = {} /\ ArtifactsOf(cmd[c].repo.id) = {}
        BY <3>2 DEF RowsOf, ArtifactsOf, CommandInv, HandlersInv, StoreIntegrity, ForeignKeys
      <3> QED
        BY <2>2, <3>3
    <2>3. CASE cmd[c].op \in {"new", "edit"}
      <3>1. cr[c].pc = "200" \/ pt[c].pc = "200"
        BY <2>1, <2>3 DEF Status
      <3>2. Named(cmd[c].name) \/ Removed(cmd[c].name)
        BY <3>1 DEF DoneInv, StaysDone
      <3>3. \/ ReposNamed(cmd[c].name) # {}
            \/ \E d \in Command : Asked(d, "rm") /\ cmd[d].name = cmd[c].name
        BY <3>2 DEF Named, Removed, ReposNamed
      <3> QED
        BY <2>3, <3>3
    <2>4. CASE cmd[c].op \notin {"rm", "new", "edit"}
      BY <2>4
    <2> QED
      BY <2>2, <2>3, <2>4
  <1> QED
    BY <1>1, CommandInvariant, DoneInvariant, PTL

\* Of the commands that create a repository of one name one succeeds, however
\* old their lists are, unless somebody asks for its deletion (repo_new.go:56).
THEOREM RepositoriesAreCreatedOnce == CommandSpec => []CreatedOnce
  <1>1. DoneInv => CreatedOnce
    BY DEF DoneInv, Replied, OneCreates, Removed, CreatedOnce, Status
  <1> QED
    BY <1>1, DoneInvariant, PTL
=============================================================================
