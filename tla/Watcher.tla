-------------------------------- MODULE Watcher -------------------------------
(***************************************************************************)
(* The file watcher of the game folders and its manager: the native loop   *)
(* with its debounce, the polling loop with its snapshots, the handler     *)
(* that imports what an event names, and Start, Restart and Stop, which    *)
(* the settings form and the shutdown call.                                *)
(*                                                                         *)
(* A file is known by its modification time, 0 when it does not exist, and *)
(* files of one time have one size; seen is what the library has of it,    *)
(* the import itself is the business of Library. Removed events are only   *)
(* logged by the handler. Left out: files other than .apk, and the         *)
(* subfolders of a folder, which are watched like a folder each.           *)
(***************************************************************************)
EXTENDS Naturals, Sequences, FiniteSets

CONSTANTS
    Paths, Folders,
    FolderOf,       \* the folder of each path
    Small,          \* modification times of the files of one size; the others
                    \* have another
    Restarts,       \* requests that change the folders
    Stopper,        \* the shutdown
    Debounce,       \* debounceInterval of the native watcher
    Suppress,       \* the polling watcher's two seconds
    Interval,       \* the polling watcher's thirty seconds
    MaxTime,        \* bound on modification times
    QueueLength,    \* events the kernel keeps for a reader
    MaxOps,         \* bound on changes of files and folders
    NoOne, NoEvent, Overflow

ASSUME WatcherAssumption ==
    /\ FolderOf \in [Paths -> Folders]
    /\ Stopper \notin Restarts /\ NoOne \notin Restarts \cup {Stopper}
    /\ Debounce \in Nat /\ Suppress \in Nat /\ Interval \in Nat \ {0}
    /\ MaxTime \in Nat \ {0} /\ MaxOps \in Nat /\ Small \subseteq 1 .. MaxTime
    /\ QueueLength \in Nat

Callers == Restarts \cup {Stopper}
Absent == 0
Times == 0 .. MaxTime

VARIABLES
    kind,       \* native or polling, by platform
    ops,
    file,       \* what is on disk
    mounted,    \* folders that can be read
    mutex,      \* holder of WatcherManager.mu
    stopped,    \* WatcherManager.stopped
    call,       \* what each caller of the manager is doing
    loop,       \* the goroutine of the current watcher
    folders,    \* folders it was started on; native: those it has a watch for
    done,       \* its done channel is closed
    queue,      \* native: events not read yet, and the mark of an overflow
    quiet,      \* how long events of a path are still dropped (debounce,
                \* lastEventTime); entries at 0 may as well be cleaned up
    scan,       \* polling: lastScan, and the scan in progress
    seen,       \* library: what was last imported of each path
    lost        \* history: why the library may not hear of the path again

disk == <<file, mounted>>
manager == <<mutex, stopped, call>>
native == <<queue, quiet>>
vars == <<kind, ops, disk, manager, loop, folders, done, queue, quiet, scan, seen, lost>>

\* due: when the ticker fires; tick: it has fired and nobody has looked.
Scan == [last : [Paths -> Times], cur : [Paths -> Times], left : SUBSET Paths,
         due : 1 .. Interval, tick : BOOLEAN]
NoFiles == [p \in Paths |-> Absent]
NoScan == [last |-> NoFiles, cur |-> NoFiles, left |-> {}, due |-> Interval, tick |-> FALSE]
Event == [path : Paths, removed : BOOLEAN]
Queueable == Event \cup {Overflow}
ASSUME OverflowAssumption == Overflow \notin Event
Loop == [at : {"none", "waits", "scans", "handles"}, event : Event \cup {NoEvent}]
NoLoop == [at |-> "none", event |-> NoEvent]
Waits == [at |-> "waits", event |-> NoEvent]
Handles(e) == [at |-> "handles", event |-> e]

TypeOK ==
    /\ kind \in {"native", "polling"}
    /\ ops \in 0 .. MaxOps
    /\ file \in [Paths -> Times] /\ mounted \subseteq Folders
    /\ mutex \in Callers \cup {NoOne} /\ stopped \in BOOLEAN
    /\ call \in [Callers -> [at : {"idle", "lock", "join", "start"}, folders : SUBSET Folders]]
    /\ loop \in Loop /\ folders \subseteq Folders /\ done \in BOOLEAN
    /\ queue \in Seq(Queueable)
    /\ quiet \in [Paths -> 0 .. Debounce + Suppress]
    /\ scan \in Scan
    /\ seen \in [Paths -> Times]
    /\ lost \in [Paths -> BOOLEAN]

Present == [p \in Paths |-> IF FolderOf[p] \in mounted THEN file[p] ELSE Absent]

\* What Watch has a watch for. The native watcher does without a folder that
\* cannot be added, and has no loop when none could.
Watched(fs) ==
    /\ folders' \in IF kind = "native" THEN SUBSET fs ELSE {fs}
    /\ loop' = IF folders' = {} THEN NoLoop ELSE Waits

\* The startup scan has imported what there was.
Init ==
    /\ kind \in {"native", "polling"}
    /\ ops = 0
    /\ file \in [Paths -> {Absent, 1}] /\ mounted = Folders
    /\ mutex = NoOne /\ stopped = FALSE
    /\ call = [c \in Callers |-> [at |-> "idle", folders |-> {}]]
    /\ folders \in IF kind = "native" THEN SUBSET Folders ELSE {Folders}
    /\ loop = (IF folders = {} THEN NoLoop ELSE Waits) /\ done = FALSE
    /\ queue = <<>> /\ quiet = [p \in Paths |-> 0]
    /\ scan = [NoScan EXCEPT !.last = file]
    /\ seen = file
    /\ lost = [p \in Paths |-> FALSE]

----------------------------------------------------------------------------
(* The world: a change on a watched folder is queued by the kernel, or lost *)
(* when the queue is full, which one mark says (IN_Q_OVERFLOW).            *)

\* The time the polling watcher compares the file with next.
Recorded(p) == IF loop.at = "waits" \/ p \in scan.left THEN scan.last[p] ELSE scan.cur[p]
\* Whether the polling watcher tells the file new from what it recorded.
Differs(old, new) ==
    new # Absent /\ (old < new \/ (old # Absent /\ (old \in Small) # (new \in Small)))
Watches(p) == loop.at # "none" /\ ~done /\ FolderOf[p] \in folders

Tick ==
    /\ quiet' = [p \in Paths |-> IF quiet[p] = 0 THEN 0 ELSE quiet[p] - 1]
    /\ scan' = IF kind = "native" THEN scan
               ELSE IF scan.due = 1 THEN [scan EXCEPT !.due = Interval, !.tick = TRUE]
               ELSE [scan EXCEPT !.due = @ - 1]
    /\ UNCHANGED <<kind, ops, disk, manager, loop, folders, done, queue, seen, lost>>

Fits == Len(queue) < QueueLength
Enqueue(e) ==
    queue' = IF Fits THEN Append(queue, e)
             ELSE IF \E i \in DOMAIN queue : queue[i] = Overflow THEN queue
             ELSE Append(queue, Overflow)

\* A file is created, written, removed or replaced, by an older one too.
Change ==
    /\ ops < MaxOps
    /\ ops' = ops + 1
    /\ \E p \in Paths, t \in Times :
         /\ FolderOf[p] \in mounted
         /\ t # file[p]
         /\ file' = [file EXCEPT ![p] = t]
         /\ IF kind = "native" /\ Watches(p)
            THEN Enqueue([path |-> p, removed |-> t = Absent]) ELSE queue' = queue
         /\ lost' = [lost EXCEPT ![p] = @ \/ ~Watches(p) \/ (kind = "native" /\ ~Fits)
                        \/ (kind = "polling" /\ t # Absent /\ ~Differs(Recorded(p), t) /\ t # seen[p])]
    /\ UNCHANGED <<kind, mounted, manager, loop, folders, done, quiet, scan, seen>>

\* A folder that disappears takes its watch with it, also when it returns.
Unmount(f) ==
    /\ ops < MaxOps /\ f \in mounted
    /\ ops' = ops + 1
    /\ mounted' = mounted \ {f}
    /\ folders' = IF kind = "native" THEN folders \ {f} ELSE folders
    /\ UNCHANGED <<kind, file, manager, loop, done, native, scan, seen, lost>>

Mount(f) ==
    /\ ops < MaxOps /\ f \notin mounted
    /\ ops' = ops + 1
    /\ mounted' = mounted \cup {f}
    /\ UNCHANGED <<kind, file, manager, loop, folders, done, native, scan, seen, lost>>

----------------------------------------------------------------------------
(* The handler. It reads the file when it runs; a file that is gone, cannot *)
(* be read or cannot be stored is logged, and so is a removal.             *)

Handle ==
    LET p == loop.event.path IN
    /\ loop.at = "handles"
    /\ \/ loop.event.removed /\ UNCHANGED <<seen, lost>>
       \/ /\ ~loop.event.removed /\ Present[p] # Absent
          /\ seen' = [seen EXCEPT ![p] = file[p]]
          /\ lost' = [lost EXCEPT ![p] = FALSE]
       \/ /\ ~loop.event.removed
          /\ seen' = seen
          /\ lost' = [lost EXCEPT ![p] = TRUE]
    /\ loop' = [Waits EXCEPT !.at = IF kind = "native" THEN "waits" ELSE "scans"]
    /\ quiet' = IF kind = "native" THEN quiet ELSE [quiet EXCEPT ![p] = Suppress]
    /\ UNCHANGED <<kind, ops, disk, manager, folders, done, queue, scan>>

----------------------------------------------------------------------------
(* NativeWatcher.watchEvents. *)

\* The time of the last event moves on even when the event is dropped.
Dequeue ==
    LET p == Head(queue).path IN
    /\ kind = "native" /\ loop.at = "waits" /\ queue # <<>>
    /\ Head(queue) # Overflow
    /\ queue' = Tail(queue)
    /\ quiet' = [quiet EXCEPT ![p] = Debounce]
    /\ \/ /\ quiet[p] > 0
          /\ lost' = [lost EXCEPT ![p] = TRUE]
          /\ loop' = loop
       \/ /\ quiet[p] = 0
          /\ loop' = Handles(Head(queue))
          /\ lost' = lost
    /\ UNCHANGED <<kind, ops, disk, manager, folders, done, scan, seen>>

\* fsnotify hands the mark on as an error, which is logged: nothing is scanned.
ReadError ==
    /\ kind = "native" /\ loop.at = "waits" /\ queue # <<>>
    /\ Head(queue) = Overflow
    /\ queue' = Tail(queue)
    /\ UNCHANGED <<kind, ops, disk, manager, loop, folders, done, quiet, scan, seen, lost>>

----------------------------------------------------------------------------
(* PollingWatcher.scanFolders. A tick that is due waits for the scan. *)

Poll ==
    /\ kind = "polling" /\ loop.at = "waits"
    /\ scan.tick
    /\ scan' = [scan EXCEPT !.cur = NoFiles, !.tick = FALSE,
                            !.left = {p \in Paths : FolderOf[p] \in folders}]
    /\ loop' = [Waits EXCEPT !.at = "scans"]
    /\ UNCHANGED <<kind, ops, disk, manager, folders, done, native, seen, lost>>

\* Mutant: only files of the last snapshot fire.
FiresKnown(p) == scan.last[p] # Absent /\ Differs(scan.last[p], Present[p])

\* A file is new, or newer or of another size than in the last snapshot: its
\* event is handled, unless the path had one a moment ago.
Fires(p) == Differs(scan.last[p], Present[p])

Visit(p) ==
    /\ loop.at = "scans" /\ p \in scan.left
    /\ scan' = [scan EXCEPT !.cur[p] = Present[p], !.left = @ \ {p}]
    /\ loop' = IF Fires(p) /\ quiet[p] = 0
               THEN Handles([path |-> p, removed |-> FALSE]) ELSE loop
    /\ lost' = [lost EXCEPT ![p] = @ \/ (Fires(p) /\ quiet[p] > 0)]
    /\ UNCHANGED <<kind, ops, disk, manager, folders, done, native, seen>>

\* Mutant: the next snapshot is read when the scan is over.
ScanEndsFresh ==
    /\ loop.at = "scans" /\ scan.left = {}
    /\ scan' = [scan EXCEPT !.last = [p \in Paths |-> Present[p]], !.cur = NoFiles]
    /\ loop' = Waits
    /\ UNCHANGED <<kind, ops, disk, manager, folders, done, native, seen, lost>>

ScanEnds ==
    /\ loop.at = "scans" /\ scan.left = {}
    /\ scan' = [scan EXCEPT !.last = scan.cur, !.cur = NoFiles]
    /\ loop' = Waits
    /\ UNCHANGED <<kind, ops, disk, manager, folders, done, native, seen, lost>>

----------------------------------------------------------------------------
(* The manager. *)

\* What has not been imported by then is no event for the next watcher either.
Exits ==
    /\ loop.at = "waits" /\ done
    /\ loop' = NoLoop
    /\ lost' = [p \in Paths |-> lost[p] \/ seen[p] # file[p]]
    /\ UNCHANGED <<kind, ops, disk, manager, folders, done, native, scan, seen>>

Calls(c, fs) ==
    /\ call[c].at = "idle"
    /\ c = Stopper => ~stopped
    /\ call' = [call EXCEPT ![c] = [at |-> "lock", folders |-> fs]]
    /\ UNCHANGED <<kind, ops, disk, mutex, stopped, loop, folders, done, native, scan,
                   seen, lost>>

Return(c) == call' = [call EXCEPT ![c] = [at |-> "idle", folders |-> {}]]

\* Mutant: the early return leaves the mutex locked.
RefusedLocked(c) ==
    /\ call[c].at = "lock" /\ mutex = NoOne
    /\ c # Stopper /\ stopped
    /\ Return(c)
    /\ mutex' = c
    /\ UNCHANGED <<kind, ops, disk, stopped, loop, folders, done, native, scan, seen, lost>>

\* Restart does nothing once the manager was stopped.
Refused(c) ==
    /\ call[c].at = "lock" /\ mutex = NoOne
    /\ c # Stopper /\ stopped
    /\ Return(c)
    /\ UNCHANGED <<kind, ops, disk, mutex, stopped, loop, folders, done, native, scan,
                   seen, lost>>

\* The watcher's Stop closes its channel and, if it is native, its watches:
\* the events not read yet are gone.
Lock(c) ==
    /\ call[c].at = "lock" /\ mutex = NoOne
    /\ c = Stopper \/ ~stopped
    /\ mutex' = c
    /\ stopped' = (stopped \/ c = Stopper)
    /\ call' = [call EXCEPT ![c].at = "join"]
    /\ done' = TRUE
    /\ queue' = <<>>
    /\ lost' = [p \in Paths |-> lost[p] \/ \E i \in DOMAIN queue : queue[i] # Overflow /\ queue[i].path = p]
    /\ UNCHANGED <<kind, ops, disk, loop, folders, quiet, scan, seen>>

\* Mutant: the loop is not waited for.
JoinAtOnce(c) ==
    /\ call[c].at = "join"
    /\ IF c = Stopper
       THEN Return(c) /\ mutex' = NoOne
       ELSE call' = [call EXCEPT ![c].at = "start"] /\ mutex' = mutex
    /\ UNCHANGED <<kind, ops, disk, stopped, loop, folders, done, native, scan, seen, lost>>

\* Stop waits for the loop, and for the handler it may be in.
Join(c) ==
    /\ call[c].at = "join" /\ loop.at = "none"
    /\ IF c = Stopper
       THEN Return(c) /\ mutex' = NoOne
       ELSE call' = [call EXCEPT ![c].at = "start"] /\ mutex' = mutex
    /\ UNCHANGED <<kind, ops, disk, stopped, loop, folders, done, native, scan, seen, lost>>

\* The polling watcher's first scan only takes a snapshot. What the library
\* does not have of the files by then is not an event for either.
StartWatcher(c) ==
    LET fs == call[c].folders \cap mounted IN
    /\ call[c].at = "start"
    /\ Watched(fs)
    /\ done' = FALSE
    /\ quiet' = [p \in Paths |-> 0]
    /\ scan' = IF kind = "polling"
               THEN [NoScan EXCEPT !.last = [p \in Paths |-> IF FolderOf[p] \in fs THEN file[p] ELSE Absent]]
               ELSE NoScan
    /\ lost' = [p \in Paths |-> lost[p] \/ seen[p] # file[p]]
    /\ Return(c)
    /\ mutex' = NoOne
    /\ UNCHANGED <<kind, ops, disk, stopped, queue, seen>>

\* No watcher could be created (fsnotify.NewWatcher).
StartFails(c) ==
    /\ call[c].at = "start" /\ kind = "native"
    /\ folders' = {} /\ scan' = NoScan
    /\ Return(c)
    /\ mutex' = NoOne
    /\ UNCHANGED <<kind, ops, disk, stopped, loop, done, native, seen, lost>>

----------------------------------------------------------------------------

Watching == Dequeue \/ ReadError \/ Handle \/ Poll \/ (\E p \in Paths : Visit(p)) \/ ScanEnds \/ Exits

Calling(c) == Refused(c) \/ Lock(c) \/ Join(c) \/ StartWatcher(c) \/ StartFails(c)

Next ==
    \/ Tick \/ Change
    \/ \E f \in Folders : Unmount(f) \/ Mount(f)
    \/ Watching
    \/ \E c \in Restarts, fs \in SUBSET Folders : Calls(c, fs)
    \/ Calls(Stopper, {})
    \/ \E c \in Callers : Calling(c)

Spec == Init /\ [][Next]_vars

\* The loop runs, time passes, the mutex is handed to whoever waits for it, and
\* a loop that finds its channel closed again and again takes notice.
FairSpec ==
    /\ Spec
    /\ WF_vars(Watching) /\ SF_vars(Exits) /\ WF_vars(Tick)
    /\ \A c \in Callers : SF_vars(Calling(c))

----------------------------------------------------------------------------
(* Properties *)

Import(p) == [path |-> p, removed |-> FALSE]

\* A path whose file the handler is about to read, or the loop will still find.
OnItsWay(p) ==
    \/ loop = Handles(Import(p))
    \/ kind = "native" /\ \E i \in DOMAIN queue : queue[i] = Import(p)
    \/ kind = "polling" /\ loop.at # "none" /\ FolderOf[p] \in folders /\ Differs(Recorded(p), file[p])

\* What the library has of a file that exists is what is on disk, or the change
\* is on its way to the handler, or it was lost for a reason the code has: a
\* dropped event, a full queue, a failed import, an older file of the same size,
\* what a stopped watcher had not handled yet, or a change nobody watched: no
\* watcher, a folder that could not be added or that disappeared since.
SeenOrOnItsWay ==
    \A p \in Paths : file[p] # Absent /\ seen[p] # file[p] => OnItsWay(p) \/ lost[p]

\* "a settings-driven restart cannot race the server-shutdown path": nothing
\* is watched or imported any more when Stop has returned or a restart is
\* about to start the next watcher, whichever order they came in.
NobodyHandlesAfterStop ==
    (stopped /\ mutex = NoOne) \/ (\E c \in Restarts : call[c].at = "start") => loop = NoLoop

\* A change that is on its way arrives, fails, or is given up with its watcher,
\* if its folder can be read.
ChangesArrive ==
    \A p \in Paths :
        OnItsWay(p) ~> seen[p] = file[p] \/ lost[p] \/ file[p] = Absent \/ FolderOf[p] \notin mounted

\* Restart and Stop return, even if they are called during a scan or an import.
CallsReturn == \A c \in Callers : call[c].at # "idle" ~> call[c].at = "idle"
===============================================================================
