# artf in TLA+

artf is an artifact server in Go: named repositories, files uploaded once and
downloaded by name, a retention policy per repository, API keys for clients and
an administrator's interface on a Unix socket. It keeps its records in SQLite
(`artf1.db`), its files below `<data>/repos/`, and migrates the bbolt database
(`artf0.db`) of earlier releases at its first start.

This directory holds TLA+ modules translated from `src/`, the configurations
that check them with TLC, and proofs that TLAPS checks. `PROJECT.json` names for
each definition the lines it models.

    tlc -workers 2 -config files.cfg MCArtfServer     # a run
    tlapm ArtfServerProofs.tla                        # a proof module

## 1. The system

### Components

| part | code | state | operations that change it |
| --- | --- | --- | --- |
| store | `store/sqlite/{repos,artifacts,errors,migrations}.go` | tables `repos`, `artifacts`: unique indexes, a foreign key, AUTOINCREMENT | Create, Update, Delete, DeleteByRepo: one SQL statement each |
| upload | `server/handler/artifact.go` `UploadArtifact` | the request's locals, a temporary file | look up, check, CreateTemp, copy, rename, insert, undo |
| download, list | same file | the request's locals | none on shared state |
| repositories | `admin/repo_handler.go` | the requests' locals, a directory per repository | create, update, delete |
| cleaner | `cleanup/cleanup.go` | the lists and the day of the current pass | remove a file, delete its record |
| data directory | the kernel, as the code uses it | directories, final and temporary files | the system calls |
| API keys | `store/sqlite/apikeys.go`, `admin/key_handler.go`, `server/middleware_auth.go`, `internal/auth` | table `api_keys`, each request's copy of its key | create, delete, write `last_used_at` |
| bbolt store | `store/bblt/` | four buckets and their sequences | the same interface, a transaction per method |
| open, migrate | `store/sqlite/{migrate,store,migrations}.go` | which database files exist, the migration's transaction | create, apply schema, copy, commit, remove |
| lifecycle | `cmd/serve.go`, `server/server.go`, `admin/server.go` | the socket file, the port, the deferred calls, the cleaner's context | start, signal, close, drain, exit |
| commands | `cmd/repo_{new,edit,rm,info}.go`, `cmd/key_{new,rm}.go`, `admin/client.go` | the list a command was shown, its choice, its request | list, choose, send, wait |
| inputs | `cmd/serve_config.go`, `internal/validate` | none | - |
| the rest | commands that only show, logging, recovery, request ids | none that outlives a request | - |

### Interaction

`cmd/serve.go` opens the store and starts two HTTP servers and the cleaner. They
share the `store.Store` and the data directory and **no lock**: each statement is
a transaction of its own, each file operation a system call, and a request is a
sequence of both. Whatever spans two of them is not atomic. The middleware
starts one more goroutine per request, which outlives the answer. The
administrator's commands are processes of their own: they talk to the admin
server through a socket file, take a list, and act on it minutes later.

### What is hard, and the properties it calls for

- *A record and its file are two writes.* Uploads write file, then record; the
  cleaner removes file, then record; a deletion removes records, row, directory.
  Each can fail or die half-way. Files are whole, owned, and stay as long as their
  records do, and so do the folders they are put in: `WholeFiles`, `NoTempLeft`,
  `FilesOwned`, `RecordKeepsFile`, `FolderStays`.
- *Check, then act.* The upload checks for a record before it reads the body and
  inserts after. The download opens a file after it has read the record. The
  deletion deletes rows and then the repository. `ChecksumOfBody`,
  `DeletionComplete`, `StoreIntegrity`, `OverwriteIsUndone`, and
  `ConflictWithoutOverwrite`, which does not hold.
- *Names are reused, ids are not.* A repository may be deleted and created anew
  while somebody works from its old record; ids keep that from doing harm, paths
  do not. `IdsNeverReused`, `DeletedOnce`, `StampsOwnKey`; `KeepAllIsKept` does
  not hold.
- *Stale lists.* A pass of the cleaner works from the lists and the day it took at its
  start, however long it takes. `RetentionSafe`, `CleanerTakesListed`, `ExpiredRemoved`.
- *A late writer.* `last_used_at` is written after the answer, after other
  writers, after the deletion of the key. `RevokedStaysOut`, `UseIsRecorded`.
- *A one-time migration in several steps*, with a kill or a failure between any
  two: `AllOrNothing`, `RetriesUntilMigrated`, `StartFailsForAReason`,
  `MigratedIntegrity`; `MigrationIsComplete` does not hold.

- *One process after another.* A stop has to answer what is in flight, to end
  although a client never does, and to leave nothing that keeps the next process
  from coming up; so has a kill. `StopLosesNoRequest`, `StopEnds`,
  `StartsAfterAnyEnd`, `AdminReachable`, `ExpiredGo`.
- *Stale choices.* A command deletes, edits or creates on the strength of a list,
  and gives up on an answer that is late. `RemovesWhatWasShown`,
  `RemovesKeyShown`, `AddsWhatWasAsked`, `CreatedOnce`, `SuccessMeansDone`,
  `PrintedKeyOpens`.
- *Boundaries of inputs.* A product that wraps, a name that means something to
  the file system: `LimitAsWritten`, `RepoDirIsItsOwn`, `ArtifactFileIsItsOwn`.

`PROJECT.json`, "hazards", lists them line by line.

## 2. The modules

What each module extends, from the bottom up (`Clock` and `Environment` are below all
that have a time or a fault):

    Clock
      Environment
        Lifecycle                                       MCLifecycle, LifecycleProofs
      ArtfData
        SqliteStore
        DataDir
        LegacyStore
      ApiKeyStore
    UploadHandler, RepoHandlers, Cleaner, DownloadHandler    = Environment + SqliteStore + DataDir
                                                        HandlerProofs (the first two)
    ArtfServer      = the four of them                  ArtfServerProofs, ArtfFilesProofs
                      INSTANCE ArtifactPublishing       DocumentedClaims, MCArtfServer
    RepoCommands    = UploadHandler + RepoHandlers      MCRepoCommands, RepoCommandsProofs
    Authentication  = Environment + ApiKeyStore
    KeyCommands     = Authentication                    MCKeyCommands, KeyProofs
    Migration       = Environment + SqliteStore + ApiKeyStore + LegacyStore
                                                        MCMigration, MigrationProofs
    ByteSize, Names                                     MCInputs, InputProofs

`RepoCommands` runs over `UploadHandler` and `RepoHandlers`, `KeyCommands` over
`Authentication`: a request that a command sends is handled by the same actions as
everywhere else, only that it now asks for what the command was shown.

| module | models |
| --- | --- |
| `Clock`, `Environment` | `time.Now()`, and what the environment does to the program: a `Fault` is a system call or statement that fails though it need not, or a kill |
| `ArtfData` | names, paths, contents. The content of a file and its SHA-256 are the upload that sent it |
| `SqliteStore` | both tables; the guard of a statement says when SQLite accepts it. `StoreSpec` is the store under any sequence of calls |
| `DataDir` | directories, files and temporary files, one operation per system call; `os.RemoveAll` is a listing, an unlink per entry and an rmdir, as in the kernel |
| `UploadHandler` | `up[u].pc` is the place in `UploadArtifact` where request `u` is; one action per query, system call and statement |
| `DownloadHandler`, `RepoHandlers` | the other handlers, in the same way |
| `Cleaner` | `Run`, `RunOnce`, `cleanRepo`. `cl` holds the lists of the current pass; `kept` and `todo` split one of them |
| `ArtfServer` | all of these in one process, `Crash`, and the properties of the whole |
| `ArtifactPublishing` | the abstract specification: a path is published once, does not change, is withdrawn |
| `ApiKeyStore`, `Authentication` | table of keys, key requests, middleware and its goroutine |
| `LegacyStore` | the bbolt database with its hand-kept index; `LegacyNext` is any sequence of its methods |
| `Migration` | the start of the process up to serving; `mg.pc` is the place in `OpenAndMigrate`, `mg.tx` what the transaction holds |
| `Lifecycle` | any number of `artf serve` processes: `proc[p].pc` is the place in `RunE`, from `db` to the deferred calls; socket file, port, signal channel, requests in flight, and of the cleaner what its context and the closing of the database touch |
| `RepoCommands`, `KeyCommands` | the administrator's commands: `cmd[c]` is the list, the choice and the request of one |
| `ByteSize`, `Names` | `parseByteSize` in int64; which names are valid, and what `filepath.Join` makes of them |
| `DocumentedClaims` | statements of the docs and tests that the code does not meet |
| `MC...` | constants of the instances |
| `...Proofs` | theorems. `HandlerProofs` proves of the tables, and of the handlers that server and commands share, what `ArtfServerProofs` and `RepoCommandsProofs` use; `ArtfFilesProofs` builds on the former; `KeyProofs` is about `Authentication` and `KeyCommands` |

An action holds everything between two points at which others can observe or
interfere: one statement or system call and the local computation after it. An
answered request keeps only its answer, so that finished requests do not multiply
states. A formula named `...Mutant` is a plausible bug in the definition of the
same name; no specification uses it.

The refinement: `Published` in `ArtfServer` maps a path to its file if there is a
record with that path, and to nothing otherwise. That is what a download gets, so
`PublishesOnce` says that the many steps of uploads, deletions and cleaner appear
to clients as the single steps `Publish` and `Withdraw`.

## 3. The runs

| run | instance | shows | distinct states |
| --- | --- | --- | --- |
| `files` | 2 uploads with serial clients, 1 name, 1 download, a repository deleted and created anew, cleaner, 1 fault | files, records, folders and answers fit; refinement of `ArtifactPublishing` | 501,382 |
| `concurrent` | 3 uploads, also to one path, an update, a deletion, 1 fault | what still holds when uploads race, of the cleaner too | 916,316 |
| `retention` | 2 uploads on 3 days, a changing policy, 1 fault, fairness | the cleaner keeps what the policy keeps, and what has expired goes | 274,167 |
| `keys` | 2 keys; 2 creating and 2 deleting commands, 1 request, 1 fault; or 1 deleting one, 2 requests over 4 minutes | deletion is final; marks are right, although each request decides by its old copy of the key; commands act on what they were shown | 1,396,506 |
| `migration` | 2 records per bucket, 1 fault, 1 accident | all or nothing; retries; a start fails for a reason | 182,167 |
| `lifecycle` | 2 processes, a request to either server, an expired artifact, 1 fault, fairness | a stop ends and loses nothing; the next process comes up; expired artifacts go | 284,580 |
| `commands` | 3 commands of any kind, 2 names, 1 upload, 1 fault | commands act on what they were shown, and report what was done | 1,392,339 |
| `inputs` | 8 bits for 64; all pairs of names of up to 4 pieces | limits are exact; names lead to paths of their own | 5,069,054 |
| `claim_...` | the smallest instance of each claim | the counterexamples below | - |

`RecordKeepsFile` and `PublishesOnce` are not in `concurrent`, where finding 1 below
breaks them. `RecordKeepsFile` ends for a path when a deletion has come to remove
the rows of a repository of that name (`RowsRemoved`): the cleaner and an upload
that began before go by the path and hit what was uploaded since, which is
finding 3. A re-creation of the name is not needed for that. An upload that has
looked the repository up may insert a record between the two statements of the
deletion (`repo_handler.go:262-272`), under the path that the cleaner has on its
list; it takes three uploads to see, and is the case that kept a narrower
excuse from being inductive. `DeletionComplete` allows for the directory that
a creation has just made. `TypeOK` is checked once, in `files`, and proved for
every instance; so are the types of `Authentication`, `KeyCommands`, `RepoCommands`,
`Lifecycle` and `Migration`, proved only. `WholeFiles` and `NoTempLeft`, which are about
uploads alone, are in `concurrent`, where there are most of them.

### Bounds, and why they suffice

- *Requests.* The races found and excluded are between two uploads, or one
  upload and one other actor; `concurrent` has three uploads, so that a rollback
  can hit a file that is neither the first nor its own.
- *Repositories.* One name for the server. Handlers and cleaner touch files of
  one repository only and rows by id; a second id under the same name, which
  matters, comes from re-creation in `files`. `commands` has two names, so that an
  id can come to mean another repository, were ids reused.
- *Commands.* A command that goes wrong does so by one other that acts between
  its list and its request, and on an id given out twice by two: one that
  deletes, one that creates. `commands` has three in all, of any kind, `keys` two
  of each kind. One policy: that an edit writes it back is in `RepoHandlers`.
- *Keys.* `keys` is two instances in one, by the constraint `MCInstances`. In the
  first, the goroutine of one request races creations, deletions and a crash: an id
  given out twice shows with one. In the second, with one deletion and without faults,
  which `UseIsRecorded` excuses, two requests act on each other's marks: a request finds
  no mark, a fresh one or an old one, and a goroutine overtakes the other. All that
  the constraint counts only grows, so that the run is exactly that of the two
  instances. `UsesAreRecorded` proves it for any number of requests.
- *Processes.* Two: the second one finds what the first one left, or meets it.
  They are told to listen on one port, the default. No property needs three, and
  safety is proved for any number and any choice of ports.
- *Inputs.* Eight bits hold every boundary of `n > MaxInt / m` for four
  multipliers, and `LimitsAreExact` covers the rest. Four pieces hold "..", "/",
  ".." followed by "/", a trailing space and a name one too long.
- *Faults.* `MaxFaults` = 1: a failure or a kill at every step, and all that
  follows it. Two failures in one request would leave it at the first.
- *Accidents* (`Migration`): a kill, an Open that fails after it has created the
  file, a failed removal. They are counted apart from faults because some
  properties assume there are none.
- *Clock.* A tick is a day for the cleaner, a minute for the middleware: the
  units of their comparisons. `MaxClock` = 2 puts artifacts before, at and after
  the cutoff; 3 in the second instance of `keys` lets a mark be fresh, exactly a
  minute old, and out of date (`> 1` in `TouchDue`), also one made after the first
  tick. In the first, 1 lets the instants of goroutines differ. Events between ticks
  have equal timestamps, which exercises the unstable sort.
- *Ids.* `MaxRowId`, `MaxKeyId`, `MaxLegacyId` bound rows ever created. With
  `MaxLegacyId` = 2 there can be two repositories of one name, an orphan, and an
  id whose record is gone.
- `SerialUploads` = TRUE says that clients do not send two uploads of one path at
  a time. The runs that need it are those that finding 1 breaks otherwise;
  `concurrent` does without.

`keys`, `commands`, `lifecycle` and `inputs` set `CHECK_DEADLOCK FALSE`: once the
finite commands have ended, the processes are gone, or the input is answered,
nothing is left to do. In the others the cleaner, or the start and stop of the
process, goes on for ever.

### Fairness

`retention` assumes weak fairness of the cleaner. Its goroutine runs as long as
the process, `Run` calls `RunOnce` at once and then at each tick of a 24-hour
ticker, nothing in it waits for anybody else, and an error ends a step and not
the loop (`cleanup.go:38-56, 72-84, 128-142`). Since faults are bounded, a failing
database is not assumed to fail for ever. Requests have no fairness: a client
may stall in the middle of a body. `ExpiredRemoved` therefore holds whatever
uploads hang.

`lifecycle` assumes weak fairness of a process's own steps once it has been
signalled, and of its cleaner: the Go runtime schedules goroutines that can run,
and the timer of the shutdown context fires (`serve.go:88-117`). Neither clients
nor handlers are fair, nobody need start a process or send a signal: `StopEnds`
holds because of the timeout alone, with a client that never reads its answer.

## 4. What the code does not do

The first four have a run whose trace shows them.

1. `claim_conflict`: two uploads of one path both pass the check at
   `artifact.go:124`. The second replaces the file of the first (163), fails to
   insert its record, and removes the file (181). It is answered 409 - and the
   published artifact has no file any more. The test at `artifact_test.go:372`
   promises "conflict without overwrite". `OverwriteIsUndone` says what does hold:
   foreign bytes do not stay at the path of a record, unless a kill or a deletion
   comes between.
2. `claim_folder`: creating a repository that exists fails at
   `repo_handler.go:95`, and line 97 removes the directory, which the existing
   repository loses if it is empty; uploads to it then answer 500. `FolderStays`
   says what does hold: nothing but this and a deletion takes a folder away.
3. `claim_keep_all`: the cleaner removes files by path (`cleanup.go:128`). If
   their repository was deleted and created anew since it listed them, it removes
   files of the new one, although its policy may be to keep all
   (`README.md:108`). `CleanerTakesListed` says what does hold: until a deletion
   comes to the rows of the name, the cleaner takes only recorded files that it
   decided on, by a policy of their own repository.
4. `claim_migration`: a kill between `ensureFile` and the commit of the migration
   leaves an `artf1.db` without data, which the next start takes for a complete
   one and serves (`migrate.go:48`). An `Open` that fails after `ensureFile`
   (`migrate.go:62`) has the same effect, since only a failing
   `runBboltMigration` removes the file.

Observed while modelling, and without a run of their own:

- *Policies.* A PATCH writes back the row it has read and so undoes a concurrent one
  (`repo_handler.go:185-219`), and `artf repo edit` always sends both settings, the
  one left as pre-filled too (`repo_edit.go:101-155`; `README.md:37` calls it
  "omitted"). A negative keep-count takes the branch for age
  (`cleanup.go:106`, whose comment at 112 says "KeepCount == 0"), removes all but
  the newest, and is shown as "all" (`cmd/repo.go:52`); nothing refuses one.
- *Order.* "latest" goes by id, the cleaner by `CreatedAt`, which is read before
  the id is given, so the cleaner may remove what "latest" serves.
- *Keys.* A goroutine that is late may set `last_used_at` back; `UseIsRecorded` says by
  which requests only. Two commands at a
  time create two keys of one name, which `key_new.go:60` says "must be unique":
  the list is the only place that is asked.
- *Downloads.* One whose artifact is removed and uploaded again between look-up
  and open sends the new body under the old checksum (`ChecksumOfBody` states what
  does hold). `http.ServeFile` redirects a path that ends in `/index.html`, so an
  artifact of that name cannot be fetched by name (`artifact.go:96`). The routes
  `/ping` and `/version` hide the lists of repositories so called
  (`server.go:44-50`).
- *Processes.* One that is started by mistake next to another removes the
  socket file of the other before it fails to listen on the port
  (`admin/server.go:31`, `serve.go:53`): the first one serves on and cannot be
  administered.
- *Arguments.* `repo rm`, `repo info` and `key rm` take an id and refuse a name
  (`repo_rm.go:53`), which `README.md:77-82` promises. `repo edit` takes a name that
  reads as a number for an id first (`repo_edit.go:58`).
- *Migration.* Afterwards ids go on above the largest one migrated, while bbolt
  would have gone on above the largest ever used.

## 5. What is proved

All theorems hold for every value of the constants that satisfies the named
assumptions: any number of requests, names, rows, days and faults. The
assumptions say that model values differ, bounds are naturals and policies
integers; none restricts the system.

| theorem | property |
| --- | --- |
| `HandlerProofs`: `StoreTypeCorrect`, `StoreKeepsIntegrity`, `StoreNeverReusesIds` | `StoreTypeOK`, `StoreIntegrity`, `IdsNeverReused` under any sequence of calls |
| `ArtfServerProofs`: `ServerTypeCorrect`, `ServerUsesStore`, `ServerKeepsIntegrity`, `ServerNeverReusesIds` | `TypeOK`; each step is a step of the store; the same for the server |
| `ArtfServerProofs`: `CleanerRetains` | `RetentionSafe` |
| `ArtfFilesProofs`: `FilesAreWhole`, `NoTempIsLeft`, `FilesHaveOwners`, `DeletionsAreComplete` | `WholeFiles`, `NoTempLeft`, `FilesOwned`, `DeletionComplete` |
| `ArtfFilesProofs`: `CleanerTakesOnlyListed`, `FoldersStay`, `OverwritesAreUndone` | `CleanerTakesListed`, `FolderStays`, `OverwriteIsUndone` |
| `ArtfFilesProofs`, for `SerialUploads`: `ChecksumsFitBodies`, `RecordsKeepFiles`, `ServerImplementsPublishing` | `ChecksumOfBody`, `RecordKeepsFile`, `PublishesOnce` (the refinement) |
| `RepoCommandsProofs`: `CommandTypesCorrect`, `RemovalsAreOfShown`, `AdditionsAreAsked`, `SuccessesAreDone`, `RepositoriesAreCreatedOnce` | `CommandTypeOK`, `RemovesWhatWasShown`, `AddsWhatWasAsked`, `SuccessMeansDone`, `CreatedOnce` |
| `RepoCommandsProofs`: `CommandsUseStore`, `ShownIdsNeverReused` | each step is a step of the store; `IdsNeverReused` |
| `KeyProofs`: `AuthTypeCorrect`, `RevokedKeysStayOut`, `KeysAreDeletedOnce`, `StampsAreOwn`, `UsesAreRecorded` | `AuthTypeOK`, `RevokedStaysOut`, `DeletedOnce`, `StampsOwnKey`, `UseIsRecorded` |
| `KeyProofs`: `CommandsImplementAuth`, `RemovalsWereShown`, `PrintedKeysOpen`, `CommandsTypeCorrect` | `KeyCommandSpec => AuthSpec`; `RemovesKeyShown`, `PrintedKeyOpens`, `KeyCommandTypeOK` |
| `LifecycleProofs`: `LifecycleTypeCorrect`, `StopsLoseNoRequest`, `ProcessesFollow`, `AdminIsReachable` | `LifecycleTypeOK`, `StopLosesNoRequest`, `StartsAfterAnyEnd`, `AdminReachable` |
| `InputProofs`: `LimitsAreExact` | `LimitAsWritten` |
| `InputProofs`: `RepoDirs`, `ArtifactFiles`, `NamesAreFiles` | `RepoDirIsItsOwn`, `ArtifactFileIsItsOwn`; two paths are one exactly if their names are |
| `MigrationProofs`: `MigratesAllOrNothing`, `MigratesInTheEnd`, `LegacyLookupsAreSound`, `StartsFailForAReason` | `AllOrNothing`, `RetriesUntilMigrated`, `LegacyIndexSound`, `StartFailsForAReason` |
| `MigrationProofs`: `MigrationTypeCorrect`, `MigratedTablesAreSound` | `MigrationTypeOK`, `MigratedIntegrity` |

`SerialUploads` is the one hypothesis that is more than a convention about model
values. It is the premise without which the three properties are false: finding 1 is
the counterexample, and `claim_conflict` shows it. What needs no such premise is
proved without it.

The arguments:

- *Store.* `StoreIntegrity` is inductive with the types: a new id is above the
  sequence, and the sequence is above all ids.
- *Handlers.* `HandlersInv` is what the server and `RepoCommands` have in common: the
  types of tables, directories and requests. For each handler there is one lemma on
  the statement of the store it makes (`...StoreStep`) and one on the types, which
  both compositions cite.
- *Server.* `TypeInv`, which is `TypeOK` with `StoreIntegrity`. Each step of the
  server is a step of `StoreNext` or leaves the tables alone
  (`ServerStoreStep`), so the lemmas about the store carry over.
- *Retention.* `RetentionSafe` is not inductive, for it depends on lists made
  earlier. `RetentionInv` says what stays true of them while others change the
  tables: they are rows that were there under ids of their own; what was kept is
  newer than what goes and fills the quota; and while one of the rows to go is
  still there so are all that were kept, since rows go by the cleaner or with all
  of their repository. This is where `IdsNeverReused` is needed.
- *Files.* A final path holds the whole body of an upload to that path:
  `FileInv` adds that an upload about to rename has its own whole body in its
  temporary file. Others only remove. `NoTempLeft` is inductive as it stands,
  given the types.
- *Names.* Handlers hold an id and a name, and use the one for the tables and the
  other for the disk. `NamedSo(i, n)` says that the id `i` has been given out and no
  row of another name has it; `RepoNamesStay`, that a step keeps this, because an
  update writes the name it read and ids are not reused. `NamesInv` says so of every
  record, upload and request: a deletion hits the directory of the repository whose
  rows it removes.
- *Owners.* `FilesOwned` is not inductive: the record that owns a file may be the one
  that the cleaner is about to delete, having removed the file - and an upload that
  was looked up before may have put a file there again. `OwnedInv` does not count
  such a record, and asks for the upload or the deletion instead.
- *Deletion.* `RowsGone`: the id of a row that a deletion removed stays away from both
  tables (ids are not reused, and the foreign key refuses an artifact without its
  repository). `DirectoryGone`: only a creation brings a directory back.
- *Listed.* Only the cleaner removes a single row, so what it has listed is a row of
  the tables until rows of a repository of that name are removed (`ListedStay` in
  `ListInv`). A path that it removes is therefore the path of that row, and the
  only record with that path (`RecordOfPath`), although it never looks again. No
  serial clients are needed.
- *Folders.* `FolderInv` adds the creations that have made their folder and are about to
  insert the row. The reasons for which a folder may be gone stay
  (`FolderReasonsStay`): a failed creation keeps its answer, and a deletion that
  removed rows does not take that back, a crash included.
- *Racing uploads.* `OverwriteIsUndone` is inductive next to `OwnedInv`, which does the
  work: an upload that inserts a record finds no other at its path
  (`InsertsAtFreePath`), so what lies there, if it is not its own, belongs to an upload
  that is still to insert or to undo, or to a deletion.
- *Serial uploads.* `SerialInv`: one upload per path is in flight, and once it is
  past its check no record has the path (`PathIsFree`); hence a recorded file is the
  record's own body or none (`RecordedFile`), and what an upload is about to insert
  is in place unless rows of the name were removed (`InsertedFile`).
  `FoundRow` says what the record of a download still means.
- *Refinement.* With `SerialInv`, a step changes `Published` at one path at most: an
  upload that inserts publishes its own body at a path that had none; every other
  step leaves each path alone or empties it (`RemovesOnly`), and steps that empty
  several at once - the rows of a repository go in one statement - are one `Withdraw`.
- *Keys.* `AuthInv` says, for each holder of an id - the answer to a creation, a
  deletion, a request's copy of the row - what the id still means now. `DueInv` adds
  what the decision to write left behind: a goroutine under way took its time more
  than a minute after the mark that its request had read. A mark that a goroutine
  puts in place of the one its request read is therefore a later one, and
  `UseIsRecorded` holds for any number of requests; `MarkedBy` is what a write leaves.
- *Commands on repositories.* `CommandNames`: a repository that a command was shown is,
  under its id, the one of that name or none. `RequestsAsked`: a handler works on
  what its command asked for. Both action properties follow from who changes the
  table (`ReposChange`). For `SuccessMeansDone` and `CreatedOnce`, `DoneInv` speaks of
  the answers and not of the commands that have read them: of a name that a
  creation or an update was answered 200 for, there is a row, or a deletion has begun.
  "Has begun" (`Removed`) is stronger than "was asked for", which a crash can undo
  for a request that has not reached its handler.
- *Commands on keys.* A step of a command leaves the keys alone, and a request that
  it sends is a step of `AuthNext`: `KeyCommandSpec` implements `AuthSpec`, and
  `AuthInv` comes for free. `RowsKept` says what any step does to the rows: one keeps
  id and hash, a new one has an id above all, and one goes only by a request
  that holds its id. `ShownInv` follows, that an id on a list means the key it was
  shown with or none; and `PrintedInv`, that a key that was created is there unless
  a command was given it.
- *Lifecycle.* `LifeInv`: who listens on a port serves, closes, or lost its listener
  (`PortInv`); who has a request runs, and an API request is active only in a
  process that serves, closes or drains, or that left it behind for one of the
  causes that excuse it (`RequestInv`, `CauseInv`); and a process that never met
  another one has had the socket file for itself from the moment at which it
  looked for one (`AloneInv`).
- *Limits.* The only arithmetic is `n <= MaxInt \div m <=> n * m <= MaxInt`, for
  which the lemma `Quotient` gives the division by its remainder, since the prover
  does not multiply variables.
- *Paths.* A name is a sequence of pieces, of any length. Validation refuses separators
  and the two special names, so what `filepath.Clean` splits is one component: the
  ends of components are 0 and one behind the last piece, and there is no third
  (`OneComponent`). `Join` is a recursive function that is used for one step
  only (`JoinOne`), which its definition gives without induction. A raw name is trimmed before it
  is checked, and once is enough (`TrimmedOnce`): the first and the last piece that
  are no space, which exist by the well-foundedness of the naturals, stay first and
  last. Appending is injective, hence `NamesAreFiles`, by which the other modules
  may take a repository's name for its directory and a pair of names for a file.
- *Migration.* `MigInv` ties together the bbolt file, the transaction and the
  tables: the transaction holds what has been copied so far, the tables are empty
  until it commits, and a file that is there without an accident, while nothing
  is being copied, is complete. `LegacyInv` adds that ids are keys of their
  buckets, without which the index is not inductive; `ReasonInv` the uniqueness
  that bbolt's checks do give. `ServedInv` adds the constraints that rows met on
  their way in (`AcceptedInv`), from which `MigratedIntegrity` follows at the commit.
  That a sequence set to the largest id is above all of them needs a largest id to
  exist: `LargestIdBounds` takes the gaps between the ids and `MaxLegacyId`, and
  a smallest one from the well-foundedness of the naturals.

Model-checked only, and for good: `ExpiredRemoved`, `StopEnds` and `ExpiredGo`, since
liveness is beyond the prover. What the runs and the proofs say of one property
overlaps on purpose: the runs show that its cases occur and that a plausible bug
breaks it, `inputs` with every name of up to four pieces.

## 6. What is not modelled

- *The failure of `os.Remove` in an upload*: of its temporary file
  (`artifact.go:146`, `157`, `164`), which then stays as after a kill, and in the rollback
  (`artifact.go:181`), which then leaves a file without a record. *The ambiguous cause
  of a rollback*, a client that goes away while `INSERT` commits (`artifact.go:180`):
  whether the driver then reports an error is outside the repository.
- *Writes to the database that `Migration` serves*, which the other modules cover:
  in `Migration`, serving changes nothing, so that `Current = Legacy` can be
  compared.
- *Columns nobody decides by*: types, descriptions, sizes, `updated_at`. A
  repository's path is its name. The name of a key is in `KeyCommands`, where the
  commands look at it.
- *Names that read as numbers* as arguments of `repo edit`, the counts in lists, the
  table a command prints. `repo info` changes nothing after its list and ends there.
- *Commands that only show* (`status`, `version`, `key ls`, `repo ls`): one request,
  and nothing depends on its answer. *Logging, recovery, request ids*: no state that
  a request's outcome depends on. *The mock* of the store serves the tests.
- *Configuration* but for the limit on uploads: flags and environment variables
  bound to viper. systemd's listener behaves like the port.
- *Several processes over one set of tables*: `Lifecycle` has them side by side, but
  their handlers are in modules with one process.

## 7. Plan

Done: the store, the server and its properties, the refinement, keys, legacy store
and migration, because files and records are what artf is for; then the life of
processes, the commands over the modelled handlers, limits and names; and the
theorems above, which by now state every safety property of the runs.

What would come next, in this order:

1. `RepoCommands` and `ArtfServer` as implementations of one specification of the
   tables with their names, so that `NamesInv` and `CommandNames` share one proof.
2. Handlers over several processes, as in `Lifecycle`, on one set of tables.
