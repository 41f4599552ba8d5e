------------------------------ MODULE Library ------------------------------
(***************************************************************************)
(* The game library of vrhub-server: the rows of the SQLite table "games"  *)
(* against the APK files the operator keeps in the game folders.           *)
(*                                                                         *)
(* Workers that change rows, each a sequence of steps that interleave:     *)
(*   - Watchers: the file watcher's goroutine (watchHandler of main.go),   *)
(*     which runs GameManager.ImportAPK on an added or modified APK;       *)
(*   - Scanners: rescans (ScanAndImportMultiple), which call ImportAPK or  *)
(*     RevalidateGame for every APK found and then prune the games whose   *)
(*     APK was not found;                                                  *)
(*   - Admins: POST .../revalidate requests (HandleRevalidatePOST).        *)
(* The exposure toggle and the delete request are one statement each.      *)
(*                                                                         *)
(* A step is one database statement or transaction, or one look at a file. *)
(* Taking the per-package mutex is merged with the row read that follows   *)
(* it, and releasing it with the write before it: the mutex is private to  *)
(* the manager, so nothing can tell the merged step from the two.          *)
(*                                                                         *)
(* Abstracted: names, sizes, icons, trailer URLs, and the OBB columns (an  *)
(* APK whose paired OBB is damaged is the file kind "badobb").             *)
(***************************************************************************)
EXTENDS Naturals

CONSTANTS
    Packages,       \* package names: the key of a row
    Paths,          \* paths an APK may have in the game folders
    Folders,        \* cfg.GameFolders
    FolderOf,       \* the folder each path lies in
    FlakyFolders,   \* folders that may be unreadable when they are listed
    DataDir,        \* the data directory, which may be one of the folders
    Manifest,       \* the package named in the manifest of the APK at a path
    FileName,       \* the package the file name spells (the name without .apk)
    Versions,       \* version codes
    Watchers, Scanners, Admins,
    Managers,       \* GameManager instances: each has mutexes of its own
    ManagerOf,      \* the instance a watcher or scanner works through
    Legacy,         \* packages with a row that predates the apk_path column
    MaxClock,       \* bound on the clock, in seconds
    MaxOps,         \* bound on what comes from outside: edits, requests, crashes
    NoRow, NoPath, NoGame, NoWorker

Workers == Watchers \cup Scanners \cup Admins

ASSUME WorkersAssumption ==
    /\ Watchers \cap Scanners = {} /\ Watchers \cap Admins = {} /\ Scanners \cap Admins = {}
    /\ NoWorker \notin Workers

ASSUME DataAssumption ==
    /\ FolderOf \in [Paths -> Folders]
    /\ FlakyFolders \subseteq Folders
    /\ Manifest \in [Paths -> Packages]
    /\ FileName \in [Paths -> Packages]
    /\ ManagerOf \in [Watchers \cup Scanners -> Managers]
    /\ Versions \subseteq Nat \ {0}
    /\ Versions # {}
    /\ Legacy \subseteq Packages
    /\ MaxClock \in Nat /\ MaxOps \in Nat

ASSUME NullAssumption == NoPath \notin Paths /\ NoGame \notin Packages

----------------------------------------------------------------------------

(***************************************************************************)
(* What a file is to the code that looks at it: "corrupt" fails            *)
(* ValidateAPK, "unparsed" passes it but ExtractAPKMetadata finds no       *)
(* package, "badobb" is a good APK with a damaged paired OBB.              *)
(***************************************************************************)
Kinds  == {"absent", "valid", "badobb", "unparsed", "corrupt"}
Broken == {"absent", "corrupt"}
Parsed == {"valid", "badobb"}

File == [kind : Kinds, ver : Nat, mtime : Nat]
Nothing == [kind |-> "absent", ver |-> 0, mtime |-> 0]

Row == [exposed : BOOLEAN, corrupted : BOOLEAN, ver : Nat,
        path : Paths \cup {NoPath}, stamp : Nat]

ASSUME NoRowAssumption == NoRow \notin Row

VARIABLES
    disk,      \* the file at each path
    clock,     \* time.Now() in whole seconds, the granularity of last_updated
    rows,      \* the row of each package, or NoRow
    locks,     \* who holds the mutex of a package in a manager
    pending,   \* file events the watcher has not handled yet
    job,       \* what each worker is doing
    scan,      \* the local variables of each rescan
    ops        \* how many outside events there have been

vars == <<disk, clock, rows, locks, pending, job, scan, ops>>

ImportStages == {"stat", "inspect", "lockCorrupt", "flag", "unexpose", "store",
                 "lockValid", "refresh", "insert"}
RevalidateStages == {"rlock", "rstat", "rcheck", "rwrite"}
ManualStages == {"mstat", "mcheck", "mwrite", "mhide"}
ScanStages == {"list", "next", "prune", "hide", "drop"}
Stages == {"idle"} \cup ImportStages \cup RevalidateStages \cup ManualStages \cup ScanStages

\* The stages during which the worker holds the mutex of job[w].game.
Critical == {"flag", "unexpose", "store", "refresh", "insert", "rstat", "rcheck", "rwrite"}

Job == [at : Stages, file : Paths \cup {NoPath}, game : Packages \cup {NoGame},
        seen : File, row : Row \cup {NoRow}]
Idle == [at |-> "idle", file |-> NoPath, game |-> NoGame, seen |-> Nothing, row |-> NoRow]

Scan == [unlisted : SUBSET Folders, listed : SUBSET Paths, todo : SUBSET Paths,
         known : SUBSET Packages, found : SUBSET Packages, doomed : SUBSET Packages]
NoScan == [unlisted |-> {}, listed |-> {}, todo |-> {}, known |-> {}, found |-> {}, doomed |-> {}]

\* Rows, mutexes, events and the locals of every worker keep their types; in
\* particular a mutex, once made, stays in its manager (acquirePackageLock).
TypeOK ==
    /\ disk \in [Paths -> File]
    /\ clock \in Nat
    /\ rows \in [Packages -> Row \cup {NoRow}]
    /\ locks \in [Managers \X Packages -> Workers \cup {NoWorker}]
    /\ pending \in [Paths -> {"none", "added", "modified"}]
    /\ job \in [Workers -> Job]
    /\ scan \in [Scanners -> Scan]
    /\ ops \in Nat

LegacyRow == [exposed |-> TRUE, corrupted |-> FALSE, ver |-> 0, path |-> NoPath, stamp |-> 0]

Init ==
    /\ disk = [p \in Paths |-> Nothing]
    /\ clock = 0
    /\ rows = [g \in Packages |-> IF g \in Legacy THEN LegacyRow ELSE NoRow]
    /\ locks = [l \in Managers \X Packages |-> NoWorker]
    /\ pending = [p \in Paths |-> "none"]
    /\ job = [w \in Workers |-> Idle]
    /\ scan = [s \in Scanners |-> NoScan]
    /\ ops = 0

----------------------------------------------------------------------------
(* The file system. *)

Exists(p) == disk[p].kind # "absent"

\* One more event from outside the server.
Outside == ops < MaxOps /\ ops' = ops + 1

\* A file copied into a folder, or replaced; a copy may keep an old mtime.
WriteFile(p, k, v, t) ==
    /\ Outside
    /\ disk' = [disk EXCEPT ![p] = [kind |-> k, ver |-> v, mtime |-> t]]
    /\ pending' = [pending EXCEPT ![p] = IF @ # "none" THEN @
                                         ELSE IF Exists(p) THEN "modified" ELSE "added"]
    /\ UNCHANGED <<clock, rows, locks, job, scan>>

RemoveFile(p) ==
    /\ Exists(p)
    /\ Outside
    /\ disk' = [disk EXCEPT ![p] = Nothing]
    /\ UNCHANGED <<clock, rows, locks, pending, job, scan>>

MoveFile(p, q) ==
    /\ Exists(p) /\ ~Exists(q) /\ Manifest[p] = Manifest[q]
    /\ Outside
    /\ disk' = [disk EXCEPT ![p] = Nothing, ![q] = disk[p]]
    /\ pending' = [pending EXCEPT ![q] = IF @ = "none" THEN "added" ELSE @]
    /\ UNCHANGED <<clock, rows, locks, job, scan>>

Tick ==
    /\ clock < MaxClock
    /\ clock' = clock + 1
    /\ UNCHANGED <<disk, rows, locks, pending, job, scan, ops>>

Environment ==
    \/ \E p \in Paths, k \in Kinds \ {"absent"}, v \in Versions, t \in 0..clock : WriteFile(p, k, v, t)
    \/ \E p \in Paths : RemoveFile(p)
    \/ \E p, q \in Paths : MoveFile(p, q)
    \/ Tick

----------------------------------------------------------------------------
(* Steps all workers share. *)

Becomes(w, j) == job' = [job EXCEPT ![w] = j]
Goto(w, stage) == Becomes(w, [job[w] EXCEPT !.at = stage])

\* Where ImportAPK and RevalidateGame return to: a rescan goes on with its
\* next file, the watcher waits for its next event.
Back(w) == IF w \in Scanners THEN [Idle EXCEPT !.at = "next"] ELSE Idle

LockOf(w, g) == <<ManagerOf[w], g>>
\* Mutant: the mutex is taken without waiting for its holder.
FreeOrNot(w, g) == TRUE

Free(w, g) == locks[LockOf(w, g)] = NoWorker
Acquire(w, g) == locks' = [locks EXCEPT ![LockOf(w, g)] = w]

Release(w) == locks' = [locks EXCEPT ![LockOf(w, job[w].game)] = NoWorker]

\* UPDATE ... WHERE package_name = g: without such a row nothing changes.
Update(g, row) == rows' = IF rows[g] = NoRow THEN rows ELSE [rows EXCEPT ![g] = row]

\* INSERT INTO games: fails on the UNIQUE constraint when the row exists.
Insert(g, row) == rows' = IF rows[g] = NoRow THEN [rows EXCEPT ![g] = row] ELSE rows

\* UpdateGameExposed
SetExposed(g, e) == Update(g, [rows[g] EXCEPT !.exposed = e, !.stamp = clock])

----------------------------------------------------------------------------
(* GameManager.ImportAPK *)

ImportStat(w) ==
    /\ job[w].at = "stat"
    /\ Becomes(w, IF Exists(job[w].file) THEN [job[w] EXCEPT !.at = "inspect"] ELSE Back(w))
    /\ UNCHANGED <<disk, clock, rows, locks, pending, scan, ops>>

\* ValidateAPK and ExtractAPKMetadata.
ImportInspect(w) ==
    LET p == job[w].file IN
    /\ job[w].at = "inspect"
    /\ \/ /\ disk[p].kind \in Broken
          /\ Becomes(w, [job[w] EXCEPT !.at = "lockCorrupt", !.game = FileName[p]])
       \/ /\ disk[p].kind = "unparsed"
          /\ Becomes(w, Back(w))
       \/ /\ disk[p].kind \in Parsed
          /\ Becomes(w, [job[w] EXCEPT !.at = "lockValid", !.game = Manifest[p], !.seen = disk[p]])
    /\ UNCHANGED <<disk, clock, rows, locks, pending, scan, ops>>

\* A damaged file: the row is keyed by the name of the file.
CorruptLock(w) ==
    LET g == job[w].game IN
    /\ job[w].at = "lockCorrupt"
    /\ Free(w, g)
    /\ Acquire(w, g)
    /\ Goto(w, IF rows[g] # NoRow /\ ~rows[g].corrupted THEN "flag" ELSE "store")
    /\ UNCHANGED <<disk, clock, rows, pending, scan, ops>>

CorruptFlag(w) ==
    LET g == job[w].game IN
    /\ job[w].at = "flag"
    /\ Update(g, [rows[g] EXCEPT !.corrupted = TRUE, !.stamp = clock])
    /\ Goto(w, "unexpose")
    /\ UNCHANGED <<disk, clock, locks, pending, scan, ops>>

CorruptUnexpose(w) ==
    /\ job[w].at = "unexpose"
    /\ SetExposed(job[w].game, FALSE)
    /\ Release(w)
    /\ Becomes(w, Back(w))
    /\ UNCHANGED <<disk, clock, pending, scan, ops>>

CorruptStore(w) ==
    /\ job[w].at = "store"
    /\ Insert(job[w].game, [exposed |-> FALSE, corrupted |-> TRUE, ver |-> 0,
                            path |-> job[w].file, stamp |-> clock])
    /\ Release(w)
    /\ Becomes(w, Back(w))
    /\ UNCHANGED <<disk, clock, pending, scan, ops>>

ValidLock(w) ==
    LET g == job[w].game IN
    /\ job[w].at = "lockValid"
    /\ Free(w, g)
    /\ Acquire(w, g)
    /\ Goto(w, IF rows[g] = NoRow THEN "insert" ELSE "refresh")
    /\ UNCHANGED <<disk, clock, rows, pending, scan, ops>>

\* The duplicate refresh leaves the corrupted flag and the version alone.
ImportRefresh(w) ==
    LET g == job[w].game IN
    /\ job[w].at = "refresh"
    /\ Update(g, [rows[g] EXCEPT !.exposed = TRUE, !.stamp = clock, !.path = job[w].file])
    /\ Release(w)
    /\ Becomes(w, Back(w))
    /\ UNCHANGED <<disk, clock, pending, scan, ops>>

ImportInsert(w) ==
    LET bad == disk[job[w].file].kind = "badobb" IN
    /\ job[w].at = "insert"
    /\ Insert(job[w].game, [exposed |-> ~bad, corrupted |-> bad, ver |-> job[w].seen.ver,
                            path |-> job[w].file, stamp |-> clock])
    /\ Release(w)
    /\ Becomes(w, Back(w))
    /\ UNCHANGED <<disk, clock, pending, scan, ops>>

Import(w) ==
    \/ ImportStat(w) \/ ImportInspect(w)
    \/ CorruptLock(w) \/ CorruptFlag(w) \/ CorruptUnexpose(w) \/ CorruptStore(w)
    \/ ValidLock(w) \/ ImportRefresh(w) \/ ImportInsert(w)

----------------------------------------------------------------------------
(* GameManager.RevalidateGame *)

RevalidateLock(s) ==
    LET g == job[s].game IN
    /\ job[s].at = "rlock"
    /\ Free(s, g)
    /\ \/ /\ rows[g] = NoRow
          /\ Becomes(s, Back(s))
          /\ UNCHANGED locks
       \/ /\ rows[g] # NoRow
          /\ Acquire(s, g)
          /\ Becomes(s, [job[s] EXCEPT !.at = "rstat", !.row = rows[g]])
    /\ UNCHANGED <<disk, clock, rows, pending, scan, ops>>

\* The test on the mtime of the file and the last_updated of the row.
Unchanged(s) == disk[job[s].file].mtime = job[s].row.stamp

\* Mutant: the return for an unchanged file forgets to unlock.
RevalidateUnchangedLocked(s) ==
    /\ job[s].at = "rstat"
    /\ Exists(job[s].file) /\ Unchanged(s)
    /\ Becomes(s, Back(s))
    /\ UNCHANGED <<disk, clock, rows, locks, pending, scan, ops>>

\* Unchanged mtime: at most the path of a legacy row is filled in.
RevalidateUnchanged(s) ==
    LET g == job[s].game  p == job[s].file IN
    /\ job[s].at = "rstat"
    /\ Exists(p) /\ Unchanged(s)
    /\ IF job[s].row.path = NoPath
       THEN Update(g, [rows[g] EXCEPT !.path = p, !.stamp = clock])
       ELSE UNCHANGED rows
    /\ Release(s)
    /\ Becomes(s, Back(s))
    /\ UNCHANGED <<disk, clock, pending, scan, ops>>

RevalidateGone(s) ==
    /\ job[s].at = "rstat"
    /\ ~Exists(job[s].file)
    /\ Release(s)
    /\ Becomes(s, Back(s))
    /\ UNCHANGED <<disk, clock, rows, pending, scan, ops>>

RevalidateChanged(s) ==
    LET p == job[s].file IN
    /\ job[s].at = "rstat"
    /\ Exists(p) /\ ~Unchanged(s)
    /\ Becomes(s, [job[s] EXCEPT !.at = "rcheck", !.seen = [Nothing EXCEPT !.mtime = disk[p].mtime]])
    /\ UNCHANGED <<disk, clock, rows, locks, pending, scan, ops>>

\* What ValidateAPK, ExtractAPKMetadata and ValidateOBB find out about a file
\* whose mtime was read before.
Verdict(w) == [disk[job[w].file] EXCEPT !.mtime = job[w].seen.mtime]
IsBad(file) == file.kind \in Broken \cup {"badobb"}

RevalidateCheck(s) ==
    /\ job[s].at = "rcheck"
    /\ Becomes(s, [job[s] EXCEPT !.at = "rwrite", !.seen = Verdict(s)])
    /\ UNCHANGED <<disk, clock, rows, locks, pending, scan, ops>>

\* Mutant: the version code is never refreshed.
VersionKept(s) == rows[job[s].game].ver

\* The version is written only when it differs from the one read under the mutex.
VersionAfter(s) ==
    LET f == job[s].seen IN
    IF f.kind = "valid" /\ f.ver # job[s].row.ver THEN f.ver ELSE rows[job[s].game].ver

\* The unified transaction.
RevalidateWrite(s) ==
    LET g == job[s].game  f == job[s].seen IN
    /\ job[s].at = "rwrite"
    /\ Update(g, [exposed |-> ~IsBad(f), corrupted |-> IsBad(f),
                  ver |-> VersionAfter(s),
                  path |-> job[s].file, stamp |-> f.mtime])
    /\ Release(s)
    /\ Becomes(s, Back(s))
    /\ UNCHANGED <<disk, clock, pending, scan, ops>>

Revalidate(s) ==
    \/ RevalidateLock(s) \/ RevalidateUnchanged(s) \/ RevalidateGone(s)
    \/ RevalidateChanged(s) \/ RevalidateCheck(s) \/ RevalidateWrite(s)

----------------------------------------------------------------------------
(* ScanAndImportMultiple *)

SetScan(s, c) == scan' = [scan EXCEPT ![s] = c]

ScanStart(s) ==
    /\ job[s].at = "idle"
    /\ Outside
    /\ Goto(s, "list")
    /\ SetScan(s, [NoScan EXCEPT !.unlisted = Folders])
    /\ UNCHANGED <<disk, clock, rows, locks, pending>>

\* ScanDirectory of one folder; a folder that cannot be read is skipped.
ScanFolder(s, f) ==
    /\ job[s].at = "list"
    /\ f \in scan[s].unlisted
    /\ \/ SetScan(s, [scan[s] EXCEPT !.unlisted = @ \ {f},
                                     !.listed = @ \cup {p \in Paths : FolderOf[p] = f /\ Exists(p)}])
       \/ /\ f \in FlakyFolders
          /\ SetScan(s, [scan[s] EXCEPT !.unlisted = @ \ {f}])
    /\ UNCHANGED <<disk, clock, rows, locks, pending, job, ops>>

\* The set of known packages is read once, before the first file is looked at.
ScanKnown(s) ==
    /\ job[s].at = "list"
    /\ scan[s].unlisted = {}
    /\ Goto(s, "next")
    /\ SetScan(s, [scan[s] EXCEPT !.todo = scan[s].listed,
                                  !.known = {g \in Packages : rows[g] # NoRow}])
    /\ UNCHANGED <<disk, clock, rows, locks, pending, ops>>

\* Mutant: no APK counts as found before it has been imported.
NothingFound(p) == {}

\* The package a rescan counts as found when it looks at the file at p.
FoundAt(p) ==
    IF disk[p].kind \in Broken THEN {FileName[p]}
    ELSE IF disk[p].kind \in Parsed THEN {Manifest[p]} ELSE {}

\* One turn of the loop over the APKs, up to the call it makes. The walk is in
\* the lexical order of paths, which for arbitrary names is any order.
ScanFile(s, p) ==
    LET k == disk[p].kind IN
    /\ job[s].at = "next"
    /\ p \in scan[s].todo
    /\ SetScan(s, [scan[s] EXCEPT !.todo = @ \ {p}, !.found = @ \cup FoundAt(p)])
    /\ \/ /\ k = "unparsed"
          /\ UNCHANGED job
       \/ /\ k \in Parsed /\ Manifest[p] \in scan[s].known
          /\ Becomes(s, [Idle EXCEPT !.at = "rlock", !.file = p, !.game = Manifest[p]])
       \/ /\ k # "unparsed" /\ (k \in Parsed => Manifest[p] \notin scan[s].known)
          /\ Becomes(s, [Idle EXCEPT !.at = "stat", !.file = p])
    /\ UNCHANGED <<disk, clock, rows, locks, pending, ops>>

\* RevalidateGame begins a transaction on the context of the request.
Transacts(s) ==
    \/ job[s].at = "rwrite"
    \/ job[s].at = "rstat" /\ Exists(job[s].file) /\ Unchanged(s) /\ job[s].row.path = NoPath

\* The request is cancelled: noticed before the next file, while waiting for a
\* mutex, or by a transaction, which then writes nothing; after a revalidation
\* only before the next file if there is one.
ScanCancel(s) ==
    /\ \/ job[s].at = "next" /\ scan[s].todo # {} /\ UNCHANGED locks
       \/ job[s].at = "rlock" /\ UNCHANGED locks
       \/ Transacts(s) /\ Release(s)
    /\ Outside
    /\ IF scan[s].todo # {}
       THEN Becomes(s, Idle) /\ SetScan(s, NoScan)
       ELSE Becomes(s, Back(s)) /\ UNCHANGED scan
    /\ UNCHANGED <<disk, clock, rows, pending>>

ScanPrune(s) ==
    /\ job[s].at = "next"
    /\ scan[s].todo = {}
    /\ Goto(s, "prune")
    /\ SetScan(s, [scan[s] EXCEPT !.doomed = scan[s].known \ scan[s].found])
    /\ UNCHANGED <<disk, clock, rows, locks, pending, ops>>

\* Mutant: the guard on the recorded path is dropped.
NeverSeen(s, g) == FALSE

\* seenPaths: the APK the row records was listed.
Seen(s, g) == rows[g].path \in scan[s].listed

\* One turn of the loop over the packages not found: a corrupted game is to be
\* hidden, one whose recorded APK was listed is kept, any other is to be deleted.
PruneRead(s, g) ==
    /\ job[s].at = "prune"
    /\ g \in scan[s].doomed
    /\ SetScan(s, [scan[s] EXCEPT !.doomed = @ \ {g}])
    /\ \/ /\ rows[g] # NoRow /\ rows[g].corrupted
          /\ Becomes(s, [Idle EXCEPT !.at = "hide", !.game = g])
       \/ /\ rows[g] # NoRow /\ ~rows[g].corrupted /\ Seen(s, g)
          /\ UNCHANGED job
       \/ /\ rows[g] # NoRow => ~rows[g].corrupted /\ ~Seen(s, g)
          /\ Becomes(s, [Idle EXCEPT !.at = "drop", !.game = g])
    /\ UNCHANGED <<disk, clock, rows, locks, pending, ops>>

PruneHide(s) ==
    /\ job[s].at = "hide"
    /\ SetExposed(job[s].game, FALSE)
    /\ Becomes(s, [Idle EXCEPT !.at = "prune"])
    /\ UNCHANGED <<disk, clock, locks, pending, scan, ops>>

\* DeleteGameByPackage; its removal of the archive directory is in GameArchive.
PruneDrop(s) ==
    /\ job[s].at = "drop"
    /\ rows' = [rows EXCEPT ![job[s].game] = NoRow]
    /\ Becomes(s, [Idle EXCEPT !.at = "prune"])
    /\ UNCHANGED <<disk, clock, locks, pending, scan, ops>>

ScanEnd(s) ==
    /\ job[s].at = "prune"
    /\ scan[s].doomed = {}
    /\ Becomes(s, Idle)
    /\ SetScan(s, NoScan)
    /\ UNCHANGED <<disk, clock, rows, locks, pending, ops>>

Rescan(s) ==
    \/ \E f \in Folders : ScanFolder(s, f)
    \/ ScanKnown(s)
    \/ \E p \in Paths : ScanFile(s, p)
    \/ ScanPrune(s)
    \/ \E g \in Packages : PruneRead(s, g)
    \/ PruneHide(s) \/ PruneDrop(s) \/ ScanEnd(s)

----------------------------------------------------------------------------
(* watchHandler of main.go *)

\* A removal is only logged, and so is a change that leaves no readable APK.
WatchEvent(w, p) ==
    /\ job[w].at = "idle"
    /\ pending[p] # "none"
    /\ pending' = [pending EXCEPT ![p] = "none"]
    /\ IF pending[p] = "added" \/ disk[p].kind \in Parsed
       THEN Becomes(w, [Idle EXCEPT !.at = "stat", !.file = p])
       ELSE UNCHANGED job
    /\ UNCHANGED <<disk, clock, rows, locks, scan, ops>>

----------------------------------------------------------------------------
(* AdminHandler: none of these takes the per-package mutex. *)

\* HandleRevalidatePOST reads the row and looks for its file: the recorded
\* path, else an APK in the data directory whose name is the package's.
ManualStart(a, g) ==
    LET recorded == {p \in Paths : p = rows[g].path /\ Exists(p)}
        named == {p \in Paths : FileName[p] = g /\ FolderOf[p] = DataDir /\ Exists(p)}
    IN
    /\ job[a].at = "idle"
    /\ rows[g] # NoRow
    /\ Outside
    /\ \/ /\ recorded \cup named = {}
          /\ Becomes(a, [Idle EXCEPT !.at = "mhide", !.game = g])
       \/ \E p \in IF recorded # {} THEN recorded ELSE named :
             Becomes(a, [Idle EXCEPT !.at = "mstat", !.game = g, !.file = p, !.row = rows[g]])
    /\ UNCHANGED <<disk, clock, rows, locks, pending, scan>>

ManualHide(a) ==
    /\ job[a].at = "mhide"
    /\ SetExposed(job[a].game, FALSE)
    /\ Becomes(a, Idle)
    /\ UNCHANGED <<disk, clock, locks, pending, scan, ops>>

ManualStat(a) ==
    LET p == job[a].file IN
    /\ job[a].at = "mstat"
    /\ Becomes(a, IF Exists(p)
                  THEN [job[a] EXCEPT !.at = "mcheck", !.seen = [Nothing EXCEPT !.mtime = disk[p].mtime]]
                  ELSE Idle)
    /\ UNCHANGED <<disk, clock, rows, locks, pending, scan, ops>>

ManualCheck(a) ==
    /\ job[a].at = "mcheck"
    /\ Becomes(a, [job[a] EXCEPT !.at = "mwrite", !.seen = Verdict(a)])
    /\ UNCHANGED <<disk, clock, rows, locks, pending, scan, ops>>

\* Unless the APK was parsed, the version read at the start is written back.
ManualWrite(a) ==
    LET g == job[a].game  f == job[a].seen IN
    /\ job[a].at = "mwrite"
    /\ Update(g, [rows[g] EXCEPT !.exposed = ~IsBad(f), !.corrupted = IsBad(f),
                                 !.ver = IF f.kind = "valid" THEN f.ver ELSE job[a].row.ver,
                                 !.stamp = f.mtime])
    /\ Becomes(a, Idle)
    /\ UNCHANGED <<disk, clock, locks, pending, scan, ops>>

Manual(a) ==
    \/ ManualHide(a) \/ ManualStat(a) \/ ManualCheck(a) \/ ManualWrite(a)

\* exposedToggleCore: both of its reads change nothing.
Toggle(g, e) ==
    /\ rows[g] # NoRow
    /\ Outside
    /\ SetExposed(g, e)
    /\ UNCHANGED <<disk, clock, locks, pending, job, scan>>

\* HandleGameDeleteDELETE
DeleteRequest(g) ==
    /\ rows[g] # NoRow
    /\ Outside
    /\ rows' = [rows EXCEPT ![g] = NoRow]
    /\ UNCHANGED <<disk, clock, locks, pending, job, scan>>

\* The process dies and starts again: the rows survive, nothing else does.
Crash ==
    /\ Outside
    /\ locks' = [l \in DOMAIN locks |-> NoWorker]
    /\ pending' = [p \in Paths |-> "none"]
    /\ job' = [w \in Workers |-> Idle]
    /\ scan' = [s \in Scanners |-> NoScan]
    /\ UNCHANGED <<disk, clock, rows>>

----------------------------------------------------------------------------

WatchStep(w) == Import(w) \/ \E p \in Paths : WatchEvent(w, p)
ScanStep(s) == Import(s) \/ Revalidate(s) \/ Rescan(s)

Requests ==
    \/ \E s \in Scanners : ScanStart(s) \/ ScanCancel(s)
    \/ \E a \in Admins, g \in Packages : ManualStart(a, g)
    \/ \E g \in Packages, e \in BOOLEAN : Toggle(g, e)
    \/ \E g \in Packages : DeleteRequest(g)

Next ==
    \/ Environment
    \/ \E w \in Watchers : WatchStep(w)
    \/ \E s \in Scanners : ScanStep(s)
    \/ \E a \in Admins : Manual(a)
    \/ Requests
    \/ Crash

Spec == Init /\ [][Next]_vars

\* Every goroutine that can take its next step takes it.
Fairness ==
    /\ \A w \in Watchers : WF_vars(WatchStep(w))
    /\ \A s \in Scanners : WF_vars(ScanStep(s))
    /\ \A a \in Admins : WF_vars(Manual(a))

FairSpec == Spec /\ Fairness

----------------------------------------------------------------------------
(* Properties *)

Holding(w) == job[w].at \in Critical

\* Between its read of a row and its write, a watcher or rescan holds the
\* mutex of that package, so no other worker of the same GameManager is
\* between the two (acquirePackageLock and the deferred unlocks).
OneWriterPerPackage ==
    /\ \A w \in Watchers \cup Scanners : Holding(w) => locks[LockOf(w, job[w].game)] = w
    /\ \A m \in Managers, g \in Packages : locks[<<m, g>>] # NoWorker =>
          Holding(locks[<<m, g>>]) /\ job[locks[<<m, g>>]].game = g

Inserts(x) == CorruptStore(x) \/ ImportInsert(x)

\* Whoever is about to insert has found no row, and nothing but an import of
\* the same package through another GameManager makes one appear before it
\* does: the INSERT of a sound APK dies on the UNIQUE constraint only when the
\* watcher and a rescan import it at the same time, whatever requests, other
\* rescans and crashes come in between (ImportAPK looks up and inserts in
\* separate statements).
OnlyManagersCollide ==
    [][\A w \in Watchers \cup Scanners : job'[w].at = "insert" =>
          LET g == job[w].game IN
          \/ rows'[job'[w].game] = NoRow
          \/ job'[w] = job[w] /\ rows[g] # NoRow
          \/ job'[w] = job[w] /\ \E x \in Watchers \cup Scanners :
                ManagerOf[x] # ManagerOf[w] /\ job[x].game = g /\ Inserts(x)]_vars

\* A rescan that was started is over at some time: no path through ImportAPK
\* or RevalidateGame leaves a mutex locked for the next caller to wait on.
RescanEnds == \A s \in Scanners : job[s].at # "idle" ~> job[s].at = "idle"
=============================================================================
