# vrhub-server in TLA+

TLA+ models, model-checking runs and machine-checked proofs for vrhub-server, the Go
server that indexes a folder of Meta Quest games (APK files and their OBB data), serves a
catalog and packed game archives to clients, and offers an admin web interface. Paths such
as `game/importer.go` are under `src/internal/` unless they begin with `src/`.

Contents: [inventory](#inventory) · [modules](#modules) · [runs](#runs) ·
[fairness](#fairness) · [proofs](#proofs) · [disagreements](#where-the-code-and-its-documentation-disagree) ·
[what is left out](#what-is-not-modelled) · [plan](#plan)

## Inventory

What the server consists of, the state each part keeps, and what makes it correct.
"Hard" names the behaviours unit tests hardly reach.

| Part | State | Operations | Correct when |
|---|---|---|---|
| **Game library** (`game/importer.go`, `game/watcher.go`, `game/integrity.go`, `db/db.go`) | SQLite table `games`; a mutex per package inside each `GameManager` | `ImportAPK`, `RevalidateGame`, `ScanAndImportMultiple`, revalidate/toggle/delete requests | rows follow the disk, a game whose APK is there is not lost, one writer per row. Hard: interleaved read–check–write sequences, snapshots used late, unreadable folders, crashes |
| **Catalog** (`api/public.go`, `archive/generator.go`) | none; reads the table twice per request | `GET /meta.7z` with ETag / If-Modified-Since | a 304 is only given for a copy that is current; every polling client catches up. Hard: two reads of a changing table, second granularity, stamps that go back |
| **Game archives** (`archive/gamearchive.go`, `game/archiver.go`) | a directory per game: numbered parts and a marker | `EnsureArchive`, `GenerateGameArchive`, `RemoveGameArchiveAll` | an archive that counts as up to date is one whole archive under the right password. Hard: overlapping generators, 7z failing, crashes between files |
| **Settings** (`api/admin_settings.go`, `api/admin_api.go`, `api/restore.go`, `config/config.go`, `auth/apikey.go`) | `config.toml`, `AdminHandler.Config` under `configMu`, the public handler's pointer | settings form, scripts API, key rotation and reveal, password change, backup, restore | a save is atomic and loses nothing; a key is revealed once; listener and watcher follow. Hard: copies taken outside the lock, failing writes, restarts |
| **Listener** (`src/cmd/server/main.go`, `liveRebinder`) | current server, address and certificate | `Rebind`, `RebindWithTLS`, `Shutdown` | one server serves where the rebinder believes; a move leaves no gap. Hard: the old server is retired, and a changed certificate brought up, by goroutines |
| **Self-update** (`update/checker.go`, `update/apply.go`, `api/update_handler.go`) | a four-state machine, the checker's result and ETag, files beside the binary | check, apply, reset, restart, `CheckPendingUpdate` at startup | one apply at a time; a crash or failure anywhere leaves a whole executable; what the page offers is true. Hard: reset against a running apply, checks that apply by themselves, renames interrupted |
| **Admin sessions** (`auth/session.go`, `auth/basic.go`, `api/middleware.go`) | sessions with sliding expiry, a cap | create, get, touch, delete, janitor, stop | a session that is gone or expired lets nobody in; an active one stays; the cap holds. Hard: three locks per request, janitor, touch and eviction racing |
| **File watchers** (`game/watcher.go`, `game/watcher_manager.go`) | debounce times, the polling snapshot, the running watcher | events, polls, start/stop/restart | the library hears of a change or the code has a reason; no handler runs after a stop. Hard: bursts, restart against events in flight and against the shutdown |
| **Monitoring** (`monitor/eventbus.go`, `api/monitoring.go`) | subscribers with bounded buffers | publish, subscribe, unsubscribe | publishing never blocks nor sends on a closed channel; losses are counted. Hard: the number is drawn before the lock, streams end during a fan-out |
| **Setup wizard** (`api/setup.go`, `api/router.go`) | `config.toml`, the games table, the mode | credentials, archive password, scan, launch | normal mode is only entered with a saved configuration; no step undoes another. Hard: saves that fail between the steps of a launch, launches that take no mutex, restarts |
| **Files and listings** (`api/public.go`) | none | listing of parts, range requests | what is listed can be fetched as listed. Hard: archives regenerated under a download |
| CSRF check and login throttle, metadata fetcher, network status, trailers, statistics, 7-Zip binary, firewall, pages, tools | caches, counters, files | | see [what is not modelled](#what-is-not-modelled) |

How they interact:

- The **watcher** calls `ImportAPK` and then starts a goroutine for `EnsureArchive`
  (`watchHandler`, `src/cmd/server/main.go:344`). The **admin** handlers run rescans and revalidations on the
  same table. `main.go:188` and `api/router.go:644` build *two* `GameManager`s, so the
  per-package mutexes of the watcher and of a rescan are different mutexes.
- A rescan that deletes a game removes its archive directory; startup sweeps all games
  through `EnsureArchive`. The archive password is captured when the process starts
  (`main.go:256`), clients are given the saved one.
- The catalog reads the table the library writes, without a transaction over its two reads.
- A saved setting reaches the public handler through `OnConfigUpdated`, the listener through
  `Reloader`, the watcher through `OnGameFoldersChanged`; the last two run after the
  lock is released. `Settings` says when they are called, `Listener` and `Watcher` what such a
  call does.
- The wizard hands its configuration to the handlers through `ConfigPropagator`; what a restart
  makes of the file is `Boot` in both `Setup` and `Settings`.
- Every admin request passes the session middleware; every request ends in the event bus. An
  update that is restarted ends the process, which all other models know as `Crash`.

## Modules

| Module | Models | Extends / uses |
|---|---|---|
| `Library` | the table against the disk: watchers, rescans, admin requests, crashes | |
| `LibraryHistory` | `Library` with history variables about each rescan in progress, for properties about a whole rescan | `Library` |
| `LibraryProofs` | theorems about `Library`, `LibraryHistory` and `Catalog` | those three |
| `Catalog` | `GET /meta.7z` and caching clients composed with `Library` | `Library` |
| `GameArchive` | one game's archive directory, its generators and its removal | |
| `GameArchiveProofs` | theorems about `GameArchive` | `GameArchive` |
| `AtomicConfig` | abstract: what `UpdateConfig` promises | |
| `Settings` | the configuration in the file, in the handlers and in effect; refines `AtomicConfig` | instance of `AtomicConfig` |
| `SettingsProofs` | theorems about `Settings`, the refinement included | `Settings` |
| `Update` | the checker, the admin's apply, reset and restart, and the files of the executable | |
| `UpdateProofs` | theorems about `Update` | `Update` |
| `SessionLife` | abstract: what the session store and the middleware promise together | |
| `Sessions` | the session store and the middleware; refines `SessionLife` | instance of `SessionLife` |
| `SessionsProofs` | theorems about `Sessions`, the refinement included | `Sessions` |
| `Watcher` | both watchers and their manager | |
| `WatcherProofs` | theorems about `Watcher` | `Watcher` |
| `Listener` | rebinding while the server runs | |
| `EventBus` | the monitoring feed | |
| `ServerProofs` | theorems about `EventBus` and `Listener` | those two |
| `Setup` | the wizard up to normal mode | |
| `SetupProofs` | theorems about `Setup` | `Setup` |
| `MC...` | finite instances for TLC | the module named |

A step is one database statement or transaction, one look at or change of a file, or one
critical section. Acquiring a mutex is merged with the read that follows it and releasing it
with the write before it, where nobody outside the mutex can see the difference.
Operators that begin with the comment "Mutant:" are deliberate errors of the kind
somebody could make in the code; no specification uses them. Substituted for the operator they are
named after they must break a property, which is how the properties are tested.

### Library

| Model | Code |
|---|---|
| `disk`, `Kinds` | what `os.Stat`, `ValidateAPK`, `ExtractAPKMetadata` and `ValidateOBB` can find at a path |
| `rows` | table `games`, keyed by package name: exposed, corrupted, version, path, `last_updated` |
| `locks` | `GameManager.mu`: one mutex per package *per manager* (`ManagerOf`) |
| `job[w]` | program counter and locals of the call worker `w` is in |
| `scan[s]` | locals of `ScanAndImportMultiple`: files listed, packages known before the loop, packages found |
| `pending` | events the watcher has not handled yet |
| `Import*`, `Corrupt*`, `ValidLock` | `ImportAPK`, with its path for damaged files that keys the row by the file name |
| `Revalidate*` | `RevalidateGame`: the mtime shortcut, the checks, the unified transaction |
| `Scan*`, `Prune*` | `ScanAndImportMultiple`: listing, the loop over APKs, the pruning loop with its `seenPaths` guard |
| `Manual*`, `Toggle`, `DeleteRequest` | the admin requests; none of them takes the mutex |
| `Crash` | the process dies; only rows and files survive |

`MaxClock` bounds the clock (whole seconds, like `last_updated`), `MaxOps` the events from
outside: file changes, requests, crashes. What the server does in answer is not bounded.

`LibraryHistory` conjoins `Record` to `Next`. `steady` holds the files that have not changed
since a rescan began and whose folder it could read, `alone` whether anything interfered
with it, `skipped` the games whose mtime already matched. The history never constrains a step.

### Catalog

`list[c]` is what the handler has read for a request in progress, `copy[c]` what the client
holds with the headers it came with. `CatalogRead` is the query for the games; the query
for `MAX(last_updated)` happens with the decision (`Matches`), so the library can change in
between. `dated` records the games whose stamp is the mtime of a file: a
revalidation writes that instead of the current time, so a stamp can go back.

### GameArchive

`parts[i]` remembers what was packed, under which password, by whom, and whether 7z
finished it; `marker` is `.archive.json`. A generator lists the parts, reads the marker, and
if they disagree removes what it finds, stages the APK, packs, counts and writes the marker,
one file at a time. `Prune`, `PurgeEntry` and `PurgeDirectory` are the removal by a rescan.
`secret` is the password captured at startup, `password` the saved one. `overlapped` and
`broken` (a crash, or an entry that could not be removed, since the last generator entered) are history. Every `os.Remove` may
fail: the removal stops there (`RemoveFail`), and so does the generation, or it goes on if the error is discarded
(`GiveUp`, `PurgeKeeps`). Assumptions about the external packer: it dies with the server, it
writes parts under their final names, a part is whole when it has ended. `os.RemoveAll` works on
the entries it has listed; a marker that is torn is not readable and so is none; a staged APK is a
snapshot of the file.

### Settings and AtomicConfig

| Model | Code |
|---|---|
| `disk` | `config.toml`; `Json` is one that does not parse |
| `live`, `served` | `AdminHandler.Config`, `publicHandler.Config` |
| `mutex` | `configMu`, held between rename and swap |
| `Starts` | `resolveConfig` and the copy each handler makes of the configuration |
| `Write`, `WriteFails`, `Swap` | `UpdateConfig`: `WriteConfig`, then the pointers |
| `Rebind`, `Watch` | what only `HandleSettingsPUT` does afterwards, which may fail |
| `Fallback` | the save of `rescanCore`, for want of folders; it moves no watcher |
| `Show` | the places a key is shown: banner, answer to a regeneration, reveal |
| `Reveal`, `Clear` | `HandleAPIKeyRevealGET`: read under the read lock, clear under the write lock |
| `Backup`, `Restore` | JSON under the name of the TOML file; a rename without the mutex |
| `Boot`, `Stop` | loading the file, `EnsureAPIKey` (which may fail to save), a crash or restart |

Fields are told apart only as far as a property needs it (`addr`, `folders`, `login`, `key`,
`plain`). `AtomicConfig` has a file, what a handler is given (`view`), and a `Save` that changes both at
once. The refinement mapping is `View`: while a save holds the mutex, whoever
asks will be given what is being saved; `served`, which is read without the mutex, is not
part of it.

### Update

| Model | Code |
|---|---|
| `host` | platform, whether the new binary is copied or renamed into place, `auto_apply`, `auto_restart` |
| `state`, `cancel`, `reset` | `UpdateHandler.state`, `applyCancel`, and the reset request between its three steps |
| `etag`, `result` | the checker's headers and `lastResult`, with its restart-pending flag |
| `work[a]` | a goroutine inside `DownloadAndApply`, started by a request or by a check |
| `name`, `tmp`, `staged` | the executable under each of its names, and the files in `updates/` |
| `image` | what `os.Executable` says while the binary is renamed under the process |
| `Check*`, `Claim`, `Choose`, `Launch`, `Report`, `Close` | `check`; `HandleUpdateApplyPOST` and its goroutine |
| `Unpack`, `Stage`, `MoveAside`, `Install`, `Fill`, `PutBack`, `Fail*` | the files: extraction, `replaceBinary`, the way back |
| `Reset*`, `RestartRequest`, `Reexec`, `Restart`, `Boot` | the other requests; `TriggerRestart` and `CheckPendingUpdate` |

Every `DownloadAndApply` has an `Applicator` of its own, so its mutex excludes nobody and is not
modelled. The step after `replaceBinary` that writes the flag file is merged with it.

### Sessions and SessionLife

One step per critical section of the store. `req[r]` walks through the middleware: `Arrive`,
`Get` (and `GetDrop`, its slow path), `Touch`, `GetFresh`, `serving`; or through a login, which draws
identifier and time before the lock. `janitor` holds the list and the time of `evictExpired` between
its two passes; `stop` is how far `Stop` has come. `gone`, `touched`, and the marks `late` and `cut` on
a request are history.

`SessionLife` knows no clock, locks or janitor: a session is opened, is `live`, and is `over` for good, and a request is
let through (`Admit`) in one step that finds its session live. A stored session is `Live` until it expires and `Over`
from then on, swept or not; so a sweep is a stutter, time passing may end sessions, and a login that waited for the lock
longer than a lifetime opens one that is over.

### Watcher

`kind` is the platform's watcher. The native one watches the folders that could be added (`Watched`, none of them at
worst), reads a `queue` that the kernel ends with a mark when it is full (`Enqueue`, `ReadError`), and drops a path's
events for `Debounce` after the last one (`quiet`); the polling one fills `scan.cur` path by path and calls the
handler from inside the scan, which is why a scan is many steps. `Handle` is `watchHandler` as far as it decides what the
library has (`seen`). `mutex`, `stopped` and `call` are the manager: `Lock` closes the old watcher's
channel, `Join` is its `WaitGroup`, `StartWatcher` the next one. `lost` is history: it says of each path that the code has
dropped a change of it, and every place that sets it is one of the reasons named at `SeenOrOnItsWay`.

### Listener

A server object (`server`), the listener opened for it (`socket`) and the goroutine that brings it up
(`job`) are three things, because each may outlive another: a server that was shut down closes
the listener it is handed later, and a listener nobody serves is held until it is
collected (`leaked`). `Move` binds first and leaves the old server to `CloseOld`; `RebindTls` leaves
everything to its goroutine (`JobCloses`, `JobListens`, `JobServes`, `JobFails`, `JobRestores`). `JobFails` is a server that
finds no key pair in the files that were checked before the old one was shut down. `spoilt` is history.

### EventBus

`Number`, `ReadLock`, `Send`, `ReadUnlock` are `Publish`; the read–write lock is `writer` (who has or waits for the
write lock) and the publishers that are sending. A stream subscribes, is greeted, receives when its client reads, and leaves. `sent` is what it took from its channel: the
last of it is not written if the client is gone by then. `due` is history: the
events published while a stream was subscribed.

### Setup

| Model | Code |
|---|---|
| `disk`, `live`, `bound` | `config.toml`; the configuration and the database the handlers were given |
| `mode`, `mutex` | `modeVal`, `SetupHandler.mu` |
| `Credentials`, `ArchivePassword`, `Scan`, then `Read`, `Write` or `Refuse` | the three steps, under the mutex from the check of the mode to the end |
| `Launch`, `PortOverride`, `CountGames`, `UpgradeHost`, `Reload`, `LaunchKey`, `Propagate`, `TransitionToNormal` | `HandleLaunchPOST`, which takes the mutex only in the last one |
| `SaveSecret`, `Boot`, `Crash` | `run`: the mode forced by an incomplete configuration, the CSRF secret and the key of a configuration without one |

## Runs

Every passing run explores its instance completely (`CHECK_DEADLOCK FALSE`, because outside events
are bounded and a server that has answered everything, or is down, may do nothing).

| Run | Instance | Checks | Shows |
|---|---|---|---|
| `library_locks` | one package, two paths, the watcher and two rescans with the two managers as deployed, 3 outside events; 0.4 M states | `OneWriterPerPackage`, `OnlyManagersCollide`, `RescanEnds` | mutexes cover every read–write pair of one manager, an `INSERT` meets a row only if the other manager has just put it there, no return path leaves a mutex locked: every rescan ends |
| `library_rescan` | two packages, one with three files in two folders (one may be unreadable), a misnamed file, watcher, rescan and admin, 3 events; 1.7 M | `SteadyGamesAreKept`, `RecordedFilesAreSpared`, `QuietRescanReconciles` | a rescan against everything else never deletes a game whose readable APK stayed in place, nor one whose recorded file it listed; an undisturbed one brings table and disk back into agreement from whatever state the others left, except for rows it skips because the mtime is the recorded one |
| `catalog` | two games, watcher, revalidate requests, one client with an ETag, 3 events; 0.4 M | `TagMissesOnlyDatedChanges`, `TagClientsCatchUp` | exactly which changes an ETag can miss; the client always ends up with the visible games |
| `game_archive` | two generators, two versions (two parts and one), two passwords, 4 events; 2.0 M | `UpToDateMeansPassword`, `UpToDateMeansWhole`, `NothingHalfIsLeft` | an up-to-date archive is under the right password always, and whole unless two actors overlapped in the directory; a failed packing leaves nothing half unless an entry could not be removed |
| `settings` | two requests of any kind, two addresses and passwords, a folder or none, 4 events; 2.7 M | `MemoryIsDurable`, `KeyIsRevealedOnce`, `EffectsFollowSettings`, `SavesAreAtomic` | memory and file agree whenever no save is under way; a key is shown again only after a crossing; every way listener and watcher are left behind; a save is one step to readers and to restarts |
| `update` | a Linux host that applies by itself, with the data directory on the same file system and on another one, a Windows host that restarts by itself and one that waits for the operator; two goroutines, two releases, one reset of a running apply; 0.7 M | `OneApplyUnlessReset`, `SurvivingBinary`, `RestartRuns`, `ApplyEnds` | the state machine counts goroutines correctly until a running apply is reset; whatever fails, a whole executable is left; a restart is granted only beside a newer one, runs it on Windows and the old one on Linux; no apply leaves the machine running for ever |
| `sessions` | three sessions, a store of two, two requests, lifetime 1, clock to 2; 0.5 M | `StaleIsRefused`, `StoreIsBounded`, `ActiveIsKept`, `SessionsLiveOnce`, `StopReturns` | nobody is let in on a session that is gone; nobody loses an active one to expiry; cap and shutdown hold against logins in flight; three locked lookups are one admission |
| `watcher` | one file, one folder, both watchers, one restart and the shutdown, 3 changes, an event queue of two; 0.2 M | `SeenOrOnItsWay`, `NobodyHandlesAfterStop`, `ChangesArrive`, `CallsReturn` | the complete list of reasons why the library may not hear of a change; restart and stop against each other and against a scan |
| `listener` | three server objects, two addresses, HTTP and one certificate, another process that takes one address, certificate files that change; 0.4 M | `QuietServesOnce`, `NoDowntime`, `RebindsServe` | rebinds that do not overlap leave one server where the rebinder believes, after a failed bind too, or nobody serves if the address was taken or the files were no key pair any more; moves leave no gap |
| `listener_move` | the same | `MovesServe` | violated, see below |
| `eventbus` | two publishers, two streams, buffers of one, 2 events; 18 k | `NeverSendsOnClosed`, `DropsAreCounted`, `CallsReturn` | streams that leave during a fan-out; every event accounted for; nobody waits for a client |
| `setup` | two requests, two passwords, two ports, an empty directory or an old installation, with or without a CSRF secret, 5 events; 0.7 M | `NormalIsConfigured`, `LaunchedAsSaved`, `LoginIsSetOnce`, `StepsAreKept`, `LaunchEnds` | what normal mode starts from, whatever saves fail and whoever crosses whom; what the wizard saved stays |

Why the bounds are enough to be interesting:

- *Library.* Three files of one package in two folders give moves, duplicates, a replaced file and a
  folder that fails. The shortest bad histories the properties are about need a file, a
  rescan and one interfering event, so three events reach them; in `library_locks` a file and two
  rescans make three imports of one package at a time (with the watcher's), and two files and a rescan one that locks the same
  package twice. Two clock values
  suffice for "same second" and "later", and a copied file may carry an older mtime.
- *Catalog.* Two games separate "the newest stamp" from "some stamp"; two versions tell
  a stale copy from a fresh one.
- *GameArchive.* A version with two parts and one with a single part make a leftover
  part possible; two generators and a removal are all that can overlap for one game at a time in practice
  (the sweep, one import, one rescan).
- *Settings.* Two requests are the least that can interleave; four events allow a key
  rotation, two reveals and a restart, or a backup, a restore and a restart.
- *Update.* Two goroutines are enough to overlap; two releases for an old and a new binary; two
  renamed names for a restart that starts the renamed one and applies again. The hosts differ in
  rename or copy, in who applies and in who restarts; a restart that finds no whole executable needs the last one,
  and a new binary whose mode cannot be set needs the Linux host that copies.
- *Sessions.* With lifetime 1 and a clock of 3 values a session can be created, renewed and
  expire; three identifiers overflow a store of two while both its sessions are in use.
- *Watcher.* Files with times 1 and 3 have one size and 2 another, so a replacement can be newer, older, or
  older with the same size; three changes make a burst and one more, and overflow a queue of two; a folder that cannot be added leaves a
  native watcher without a loop; the poll interval exceeds
  debounce and suppression as in the code.
- *Listener.* One object in use, one coming up and one for the restore; the model never starts a
  rebind without one to spare, and garbage is reused.
- *EventBus.* A buffer of one and two events overflow; the same instance with three events
  passes too (3 minutes). *Setup.* Five requests or restarts are a complete wizard with one thing in between.

Symmetry is declared only where a run checks no liveness: generators, requests and
passwords are interchangeable there.

## Fairness

- `Library` (`FairSpec`): weak fairness of each watcher, rescan and request step. A
  goroutine that can take its next step is eventually scheduled; a goroutine waiting for a
  mutex is enabled as long as the mutex is free, and Go's `sync.Mutex` passes it on. Outside
  events, cancellations and crashes have no fairness. `RescanEnds` uses only this, and the
  outside bound: a rescan waits for at most the calls in progress.
- `Catalog` (`CFairSpec`): clients keep polling (weak fairness of the read and of the
  304 answer); serving has *strong* fairness, because 7z may fail any number of times but not
  every time. Nothing is assumed of the library's steps: `TagClientsCatchUp` is a
  statement about the rows once they stop changing.
- `Update`: weak fairness of each goroutine that applies: it goes on or it fails. Nothing is assumed of
  requests, checks, releases or restarts. A download that hangs is a failure in the model because
  the client has a time limit.
- `Sessions`: weak fairness of the janitor and of the end of `Stop`; none of requests or the clock.
- `Watcher`: weak fairness of the loop and of time; strong fairness of the exit, because Go's `select`
  chooses among ready channels at random and a loop whose `done` channel is closed takes that branch
  sooner or later even if events keep coming; strong fairness of the calls, because `sync.Mutex` hands
  itself to a waiter that starves.
- `Listener`: weak fairness of the goroutines a rebind starts; `Shutdown` has a deadline.
- `EventBus`: strong fairness of taking the read and the write lock (`sync.RWMutex` lets neither
  side starve), weak fairness of the fan-out. Nothing is assumed of clients: a stream may never read.
- `Setup`: strong fairness of a handler that has begun; nobody has to send a request or restart
  the process.

## Proofs

Checked by TLAPS for all values of the constants. None of the theorems needs the bounds.

**LibraryProofs.** Any numbers of packages, paths, folders, workers, managers.

- `TypeCorrect`, `MutexProtectsRow`. `OneWriterPerPackage` is not inductive: that a worker
  holds the mutex of `job[w].game` says nothing unless the game is a package, the mutex is one of
  the worker's own manager, and only watchers and rescans are ever holders. `IInv` adds
  `Fits` (which stages a kind of worker can be in and which locals are set there) and `HoldersFit` (a
  mutex is held by a worker of its manager). The proof has one lemma per action, most of them
  instances of a few lemmas about steps that only move one worker, or take or release its mutex.
- `CollisionsAreForeign`: a row appears only through the `INSERT` of an import (`RowsAppear`), which holds the mutex of
  its manager, as the worker that waits at its own `insert` does: so the two have different managers. With the two managers
  deployed TLC reaches this collision.
- `SteadyKept`, `RecordedSpared` (of `LibraryHistory`, for any number of rescans, watchers and requests). The
  deletion of a game is the end of a chain, and `Kept` has a link for each stage of a rescan: a file that stayed in
  place is in a folder still to be read or in the listing; then in the listing and still to be looked at, or what was
  found there is in `found`; and what the pruning loop turns to is not in `found`. None of it depends on the rows, which
  is why nothing the others write to them can break it. `ScannerSteps` says once and for all that a
  step of anybody else leaves a rescan's job and lists alone, and the lemmas named `...Is` say what each of its own does.
- `QuietReconciles` (the same module). `Named`: a row, and a job at work, name the package by the manifest or the name of
  the file they are about. `Quiet`, for a rescan nobody disturbs: `Listing` relates its lists to the disk, `AtFile` the
  job to the file at hand (what was stat'ed is still there, the row it read is still the row), and `Reconciling` the
  rows to what was done so far: a game with a sound file has its old row until the rescan has come to one of its
  files (`Untouched`) and one that describes such a file from then on (`Described`); a game without a file has a row exactly
  if the rescan knows of it (`Without`), until the pruning loop has dealt with it (`Gone`).
- `TagMissesOnlyDated` (of `Catalog`). `Dates`: no file, job or row carries a date later than the clock, so
  whatever is written now is at least as new as any list read before. `Catalogs`: for each list a client or the
  handler holds (`Follows`), a row that has another version by now is dated or stamped no earlier than the newest
  stamp of that list, and so are the entries of a list read later against a copy read before (`Caught`). That the
  newest stamp exists is an induction over the naturals, done by least elements (`Least`, from the library's
  theorem that `<` is well-founded on them).

**GameArchiveProofs.** Any number of generators, versions, parts and passwords.

- `ArchiveTyped`, `UpToDatePassword`. "An archive that counts as up to date is wholly under
  the current password" needs to know what every unfinished generator can leave: `MarkerNamesPassword`
  (all parts beside a marker are of its password), `CleanSlate` (after a
  generator has cleaned up, only parts of this process are left) and `CleanList` (a generator still
  cleaning has every older part on its list). It holds whatever overlaps, because every
  generator of one process packs with the same captured password.
- `UpToDateWhole`, `NothingHalf`, from a second invariant (`FInv`) on top of the first, about a directory
  nobody else works in: every stage has the parts it believes there are, up to the finished archive it is about to
  mark, and the parts beside a marker are what is left of the finished archive it was written for. A marker
  that counts every part it finds then means that none is missing.

**SettingsProofs.** Any requests, setting values and archives.

- `SettingsTyped`, `MemoryFollowsFile`, `RevealedOnce`, `EffectsFollow`, `SavesRefine`.
  All kinds of request are first reduced to one form (`Opens`): copy the configuration, change
  the fields of that kind. Four invariants build on each other. `Keyed`: no copy holds a key that
  was not issued. `Saving`: only the holder of `configMu` is between rename and swap, and the file is
  its own. `Secret`: no copy that may still be saved or shown holds a revealed plaintext (`Unseen`), but for those
  that crossed the reveal; and no two requests draw one key. `Following`: the listener is where the current settings say,
  was left behind, or a request that has swapped those settings in will move it; the watcher likewise. None of it
  assumes that requests do not overlap.
- `SavesRefine` maps each step to a step of `AtomicConfig` or a stutter: the rename is the abstract
  `Save`, the swap a stutter because readers of `configMu` could not see the old
  value any more.

**UpdateProofs.** Any hosts, goroutines, releases, names and resets.

- `UpdateTyped`, `OneApply`. `OneApplyUnlessReset` needs, besides types, which fields a goroutine has set at each stage
  (`Sized`) and that no more running applies are reset than the bound says, and is proved as a conjunct of the whole: a claim finds no busy goroutine because the
  state would say running, and every way out of running is taken by the busy goroutine itself,
  except for a reset. A reset that has seen the state running may be overtaken by the end of the
  apply, and then its swap fails.
- `ExecutableSurvives`, `RestartsRun`, from a second invariant (`FilesInv`), on top of the first. `Newer`: nothing is
  fetched, installed or offered that is not newer than the process. `Exclusive`: unless two goroutines have overlapped, the one
  that works has the file it is copying, or the whole staged one, for itself, and the name it has moved aside is empty. `Safe`: unless a way back failed,
  a whole binary is under name 0, or under name 1 from `MoveAside` of name 0 until `Install`; on Linux the running image keeps its
  release under the name it was renamed to, one above the name being replaced; whatever is offered has its newer binary
  under name 0, or, on Windows, under name 1 while a further apply replaces name 0. `SurvivingBinary` alone is not inductive: that `Install` may copy over name 0 needs the
  whole binary under name 1, and that a later replacement starts from name 1 on Linux needs the whole new one under
  name 0. `Awake` says that nothing works while the server is down. Each step that leaves whole files alone
  goes by one lemma (`SafeKept`), and each of the others has its own.

**SessionsProofs.** Any number of sessions and requests, any cap, lifetime and clock.

- `GoneForGood`, `StaleNeverServed`, `CapHolds`, `ActiveSurvives`. `Sane` says of each request in flight what it may hold: a
  login an identifier that was never stored, a lookup on its slow path a session that had lapsed by the time it
  carries, and a request whose session was cut one that is gone, so that its next lookup ends it. `Distinct`: two logins
  in flight hold different identifiers. `Dated`: a stored session expires a lifetime after it was
  created or renewed. `Bounded`: the cap, and the empty store after `Stop`. `ActiveSurvives`
  is the action property from the same invariant: the times the janitor and the
  lookups carry are in the past.
- `SessionsRefine` maps each step to one of `SessionLife` or a stutter. The second lookup is the abstract `Admit`; its slow
  path never lets a request through, because what it saw expired stays so (`Sane`). What expiry removes was over already
  (`ExpiryTakesNone`); an eviction ends at most one live session, and none only when fewer than the cap
  are live (`AddLives`).

**WatcherProofs.** Any paths, folders and intervals.

- `WatcherTyped`, `StoppedForGood`. `Managed`: only the holder of the manager's mutex is between its steps, a restart
  gets there only before the stop, no loop is left when a caller has joined it, and none once the manager is
  stopped and its mutex free.
- `NoChangeVanishes`. `SeenOrOnItsWay` is inductive as it stands, given the types, and for each path on its own: a step
  that takes a change off the queue or past the snapshot imports it, hands it to the handler or sets `lost`.

**ServerProofs.** Any publishers, streams and buffer size; any server objects, addresses and certificates.

- `BusInvariant`, `NoSendPanics`. `Locks`: the streams a fan-out has still to serve are
  subscribed, and none that is subscribed has its channel closed, which together give the theorem. `Buffers`: no
  channel is filled past its buffer.
- `NothingIsLostUncounted`. `Told`: events under way have different numbers, none above `nextID`, and one
  that a publisher has still to send to a stream is due there and has not reached it. Each step then leaves the set `Lost` alone,
  but for a `Send` to a full channel, which adds one element and counts one. That this set is finite is part of the
  invariant (`Counted`).
- `ListenerInvariant`, `ServesOnce`, `NoGap`. Unless rebinds overlapped, one was a move over HTTPS or the process halts,
  the listener is `Ordinary`: only the current server can have a goroutine that brings it up; `Bringing` says how far it is (the
  old server serves or is closed, the address is the rebinder's, a restore is under way only if somebody had
  it); every other server is closed, or is the one this goroutine or the one after a move is about to close. A
  goroutine that fails to bind finds no listener of a server on the address, so another process has it, or the listener that a
  server without a key pair left behind.

**SetupProofs.** Any requests, passwords, ports and old installations.

- `NormalMeansConfigured`, `LaunchKeepsSaved`, `LoginStays`, `StepsStay`. `Shape`: what a request holds at each
  stage. `Logins`: whatever a request is about to write or hand on, and whatever the handlers have, carries the admin password that
  is on disk. `Alone`: without a crossing one request is under way at a time. `Additions`: what it holds is the file
  with additions. `Modes`: only a start can force setup mode into the file, with the secret or with the key. `Saved`: if every write succeeded, what a launch holds is the file. The two action properties
  follow from one lemma about how each step changes the file (`DiskSteps`).

Assumptions of the proofs are the named `ASSUME`s: kinds of workers are disjoint and distinct
from the null values, folders and manifests are total functions, each version has at least one
part, `Json` is not a configuration, a hand-made archive carries no key hash, intervals and caps are not zero where the
code's are not, an old installation has an admin password.

Only model-checked is liveness, which TLAPS cannot do with fairness: `RescanEnds`, `TagClientsCatchUp`, `ApplyEnds`,
`StopReturns`, `ChangesArrive`, `CallsReturn` (twice), `RebindsServe`, `LaunchEnds`. Every invariant and
action property of a passing run is proved.

## Where the code and its documentation disagree

One run ends in a violation, with the words of the repository it states:

- **Moves over HTTPS** (`MovesServe`, `src/cmd/server/main.go:934`). "Start the new server first. If it binds
  successfully, shut down the old one": the address is bound by `net.Listen` and then once more by
  `ListenAndServeTLS`, which fails; the old server is shut down all the same.

Observations met while modelling, which the properties above take into account (a condition in a property usually is
one of these):

*Library and catalog*

- The watcher and the admin rescan use two `GameManager`s (`src/cmd/server/main.go:188`, `api/router.go:644`), so "Acquire per-package
  lock to prevent race conditions with ImportAPK" (`game/importer.go:401`) holds within one of them.
- Re-exposing is meant for a game whose corruption was cleared (`game/importer.go:541`), but the transaction
  exposes every sound game, and hiding one changes the stamp that makes the next rescan look.
- `Last-Modified` is the maximum over the remaining rows (`db/db.go:725`) and does not move, or goes back, when a
  game is deleted. The comment at `api/public.go:167-170` says the ETag changes on any mutation;
  `TagMissesOnlyDatedChanges` is the exact statement.
- A folder that cannot be listed is skipped with a warning (`game/watcher.go:573`), so its games
  count as gone and are pruned; `RecordedFilesAreSpared` speaks of
  folders the rescan could read. `CHANGELOG.md:185` promises it without that condition.
- Importing an APK over an existing row refreshes path and stamp but not `version_code`
  (`game/importer.go:202`), so its archive counts as up to date under the old code.
- The delete request leaves the archive directory behind; only the rescan's prune removes it.
- Nothing excludes two generators, or a generator and a removal, from one archive directory
  (`archive/gamearchive.go:179`): what they leave can count as up to date without being whole.

*Settings and setup*

- The lock "held for the entire read-modify-write-swap sequence" (`api/admin.go:146-149`) is not held for the
  read: of two overlapping saves one loses its change.
- "R13-P14: the plaintext is zeroed out from the in-memory config after the first successful reveal — the spec's "one-time"
  guarantee" (`api/admin_settings.go:552-554`): two reveals that overlap both answer with the key, and a save of a copy made before
  the reveal brings the plaintext back. A key announced with "will NOT be shown again" (`auth/apikey.go:89`,
  `api/admin_settings.go:546`) can be revealed once more. `KeyIsRevealedOnce` counts the places apart and excepts exactly the
  crossings.
- What is saved without moving anything: an address by the scripts API, folders by a rescan that found none configured
  (`api/admin.go:658`): the file says one thing and the listener or watcher follows another until a restart.
- The entry `config.toml` of a backup holds JSON without secrets (`api/admin_api.go:262`); a server restored from it does not start.
- The scripts API's key check holds the configuration of startup (`api/router.go:761`), so a
  rotated key is accepted there only after a restart.
- A restart of the wizard between credentials and archive password forces setup mode, and the save of a CSRF secret
  (`cmd/server/main.go:460`) or of a key (`EnsureAPIKey`) writes it into `config.toml`; a launch does not take it out again. A restart after the archive password and before the launch skips the wizard. Two launches that cross
  can print two keys. Launch requires no archive password, and the next start then goes back to setup mode
  (`cmd/server/main.go:104`). A CSRF secret that cannot be saved ends the start. A scan before there is a `config.toml`
  does not record its folder.

*Update*

- On Linux `os.Executable` follows the renames of the running binary, so `TriggerRestart` (`update/apply.go:243`) starts the
  *old* binary again under its new name; an update takes effect when the service is started from outside.
- A 304 clears the result (`update/checker.go:219-227`), so an update seen once is not offered after the next check;
  headers of an answer whose body could not be read are kept. A later check also takes back what a check that
  applied by itself has reported as pending.
- On macOS no update is installed: the check of the magic bytes expects an ELF file (`update/apply.go:698`).
- A crash between the two steps of `replaceBinary` leaves the installed name without a whole file; `CheckPendingUpdate`
  is part of the program that is then missing.
- `docs/API.md:241` says a reset clears the staging directory; it does not. On Windows the automatic restart never closes the listener first.
- The backups an update makes contain no `manifest.json`, which a restore requires.

*The rest*

- The comment on falling back from TLS (`src/cmd/server/main.go:744-746`) describes something the rebinder does not do; a pair that does not load is an error. On the
  same address it is read a second time after the old server is gone (`cmd/server/main.go:874`); if it fails then, nobody serves.
- The debounce handles the *first* event of a burst and drops the rest (`game/watcher.go:297`), so a file still being
  copied is imported half and not again. Removals are only logged, and so is an overflow of the kernel's queue
  (`game/watcher.go:330`): no scan makes up for what did not fit. Subfolders created later are not watched. A
  replacement with an older mtime and the same size is invisible to the polling watcher.
- `WatcherManager.Start` does not stop a running watcher, as its comment says (`game/watcher_manager.go:36-38`).
- Event numbers can reach a stream out of order (`monitor/eventbus.go:62`). An event whose write fails is neither shown nor
  counted as dropped (`api/monitoring.go:99`).
- The branch of `SessionStore.Get` for a session that was renewed before it got the write lock cannot be reached:
  an expired session is never renewed.
- `RateLimiter` (`auth/ratelimit.go`) is constructed by no code outside the tests.

## What is not modelled

- Inside the modelled parts: names, sizes, icons and trailer columns of a row; the contents
  of meta.7z beyond the list of games; validation of forms; the update settings pushed to the
  checker; the password the dashboard shows; `vrhub.db` in a backup; the pre-update backup and the
  changelog cache; the copy of a session a request is given; the wizard's review of the games. A rescan's effect on the archive directory is in
  `GameArchive` (`Prune`), not in `Library`; what an import does is in `Library`, not in `Watcher`.
- *Files and listings*: they read what other components write and keep nothing. A listing taken while an archive is
  being packed offers the parts there are; that follows from `GameArchive` and has no promise in the code to check it against. The
  parsing of a range header is a pure function with a unit test per form.
- *CSRF check*: a comparison with the session's token. *Login throttle*: no code outside the tests constructs it.
- *Metadata fetcher, network status, statistics, trailers, firewall, 7-Zip binary, pages, command line tools,
  logging*: downloads under one mutex, single statements, pure lookups, wiring or input and output; no sequence of steps
  that could go wrong against another.

## Plan

What is left, by how much a mistake would cost:

1. **Restore**: `Settings` and `Library` composed over a restore that replaces `config.toml` and `vrhub.db` one after the
   other under open connections.
2. **Composition** of `Settings` with `Listener` and `Watcher`, in place of the effects `Settings` abstracts to values.
3. **Abstract specification** of a server that answers at one address for `Listener` to implement, as `SessionLife` is for
   `Sessions`.
