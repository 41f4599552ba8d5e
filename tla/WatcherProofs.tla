---------------------------- MODULE WatcherProofs ----------------------------
(***************************************************************************)
(* Proofs about Watcher, for any files, folders, restarts and intervals.   *)
(*                                                                         *)
(* Managed says who holds the manager's mutex: a caller that has stopped   *)
(* the watcher and not started another yet. Whoever is about to start one  *)
(* has seen the old loop return, and nobody starts one once the manager    *)
(* was stopped.                                                            *)
(*                                                                         *)
(* SeenOrOnItsWay needs no more than the types: it is kept by every step   *)
(* for each path on its own (Due).                                         *)
(***************************************************************************)
EXTENDS Watcher, SequenceTheorems, TLAPS

Managed ==
    /\ \A c \in Callers : call[c].at \in {"join", "start"} => mutex = c
    /\ \A c \in Restarts : call[c].at \in {"join", "start"} => ~stopped
    /\ call[Stopper].at # "start"
    /\ \A c \in Callers : call[c].at = "start" => loop = NoLoop
    /\ stopped /\ mutex = NoOne => loop = NoLoop
    /\ loop.at = "none" => loop = NoLoop

Inv == TypeOK /\ Managed

----------------------------------------------------------------------------
(* What the definitions are. *)

LEMMA Constants ==
    /\ Debounce \in Nat /\ Suppress \in Nat /\ Interval \in Nat \ {0} /\ MaxTime \in Nat
    /\ FolderOf \in [Paths -> Folders] /\ Absent \in Times
    /\ Stopper \in Callers /\ NoOne \notin Callers /\ Stopper \notin Restarts
BY WatcherAssumption DEF Absent, Times, Callers

LEMMA LoopsAre ==
    /\ NoLoop \in Loop /\ Waits \in Loop /\ NoLoop.at = "none" /\ Waits.at = "waits"
    /\ Waits.event = NoEvent
    /\ \A e \in Event : Handles(e) \in Loop /\ Handles(e).at = "handles"
BY DEF NoLoop, Waits, Handles, Loop

LEMMA ScansIs == [Waits EXCEPT !.at = "scans"] \in Loop /\ [Waits EXCEPT !.at = "scans"].at = "scans"
BY DEF Waits, Loop

LEMMA NoScanIs == NoScan \in Scan /\ NoFiles \in [Paths -> Times]
<1>1. NoFiles \in [Paths -> Times] /\ Interval \in 1 .. Interval
  BY Constants DEF NoFiles
<1> QED
  BY <1>1 DEF NoScan, Scan

LEMMA QuietIs == {0, Debounce, Suppress} \subseteq 0 .. Debounce + Suppress
BY Constants

LEMMA PresentTyped == TypeOK => Present \in [Paths -> Times]
BY Constants DEF TypeOK, Present

LEMMA ScanKeeps ==
    ASSUME NEW s \in Scan, NEW last \in [Paths -> Times]
    PROVE  [s EXCEPT !.last = last] \in Scan
BY DEF Scan

LEMMA InitHolds == Init => Inv
<1> SUFFICES ASSUME Init PROVE Inv
  OBVIOUS
<1>1. {Absent, 1} \subseteq Times
  BY WatcherAssumption DEF Times, Absent
<1>2. file \in [Paths -> Times]
  BY <1>1 DEF Init
<1>3. scan \in Scan
  BY <1>2, NoScanIs, ScanKeeps DEF Init
<1>4. <<>> \in Seq(Queueable) /\ quiet \in [Paths -> 0 .. Debounce + Suppress]
  BY QuietIs DEF Init
<1>5. lost \in [Paths -> BOOLEAN] /\ done \in BOOLEAN /\ stopped \in BOOLEAN
  BY DEF Init
<1>6. ops \in 0 .. MaxOps
  BY WatcherAssumption DEF Init
<1>7. TypeOK
  BY <1>2, <1>3, <1>4, <1>5, <1>6, LoopsAre DEF Init, TypeOK
<1>8. \A c \in Callers : call[c].at = "idle"
  BY DEF Init
<1>9. Managed
  BY <1>8, LoopsAre, Constants DEF Init, Managed, Callers
<1> QED
  BY <1>7, <1>9 DEF Inv

LEMMA StutterKeeps == Inv /\ UNCHANGED vars => Inv'
BY DEF Inv, TypeOK, Managed, vars, disk, manager, native

----------------------------------------------------------------------------
(* The world and the loop. *)

\* What does not touch the manager keeps Managed if the loop stays where it
\* is, or moves while it was running.
LEMMA LoopKeeps ==
    ASSUME Inv, UNCHANGED manager,
           loop' = loop \/ (loop.at # "none" /\ (loop'.at # "none" \/ loop' = NoLoop))
    PROVE  Managed'
<1>1. CASE loop' = loop
  BY <1>1 DEF manager, Inv, Managed
<1>2. CASE loop.at # "none" /\ (loop'.at # "none" \/ loop' = NoLoop)
  <2>1. loop # NoLoop
    BY <1>2, LoopsAre
  <2> QED
    BY <1>2, <2>1 DEF manager, Inv, Managed
<1> QED
  BY <1>1, <1>2

LEMMA TickKeeps == ASSUME Inv, Tick PROVE Inv'
<1>1. quiet' \in [Paths -> 0 .. Debounce + Suppress]
  <2>1. ASSUME NEW p \in Paths
        PROVE  (IF quiet[p] = 0 THEN 0 ELSE quiet[p] - 1) \in 0 .. Debounce + Suppress
    <3>1. quiet[p] \in 0 .. Debounce + Suppress
      BY DEF Inv, TypeOK
    <3> QED
      BY <3>1, Constants
  <2> QED
    BY <2>1 DEF Tick
<1>2. scan' \in Scan
  <2>1. scan \in Scan /\ scan.due \in 1 .. Interval /\ Interval \in 1 .. Interval
    BY Constants DEF Inv, TypeOK, Scan
  <2>2. scan.due # 1 => scan.due - 1 \in 1 .. Interval
    BY <2>1, Constants
  <2>3. \A d \in 1 .. Interval : [scan EXCEPT !.due = d] \in Scan
    BY <2>1 DEF Scan
  <2>4. [scan EXCEPT !.due = Interval, !.tick = TRUE] \in Scan
    BY <2>1 DEF Scan
  <2> QED
    BY <2>1, <2>2, <2>3, <2>4 DEF Tick
<1>3. UNCHANGED <<kind, ops, disk, manager, loop, folders, done, queue, seen, lost>>
  BY DEF Tick
<1>4. TypeOK'
  BY <1>1, <1>2, <1>3 DEF Inv, TypeOK, disk, manager
<1> QED
  BY <1>3, <1>4, LoopKeeps DEF Inv

LEMMA ChangeKeeps == ASSUME Inv, Change PROVE Inv'
<1> PICK p \in Paths, t \in Times :
      /\ file' = [file EXCEPT ![p] = t]
      /\ IF kind = "native" /\ Watches(p)
         THEN Enqueue([path |-> p, removed |-> t = Absent]) ELSE queue' = queue
      /\ lost' = [lost EXCEPT ![p] = @ \/ ~Watches(p) \/ (kind = "native" /\ ~Fits)
                    \/ (kind = "polling" /\ t # Absent /\ ~Differs(Recorded(p), t) /\ t # seen[p])]
  BY DEF Change
<1>1. ops' \in 0 .. MaxOps
  BY WatcherAssumption DEF Change, Inv, TypeOK
<1>2. queue' \in Seq(Queueable)
  <2> DEFINE e == [path |-> p, removed |-> t = Absent]
  <2>1. (t = Absent) \in BOOLEAN
    OBVIOUS
  <2>2. e \in Queueable /\ Overflow \in Queueable
    BY <2>1 DEF Event, Queueable
  <2>3. Enqueue(e) \/ queue' = queue
    OBVIOUS
  <2> HIDE DEF e
  <2>4. queue' = queue \/ queue' = Append(queue, e) \/ queue' = Append(queue, Overflow)
    BY <2>3 DEF Enqueue
  <2>5. queue \in Seq(Queueable)
    BY DEF Inv, TypeOK
  <2>6. \A x \in Queueable : Append(queue, x) \in Seq(Queueable)
    BY <2>5, AppendProperties
  <2> QED
    BY <2>2, <2>4, <2>5, <2>6
<1>3. lost' \in [Paths -> BOOLEAN]
  <2> DEFINE l == lost[p] \/ ~Watches(p) \/ (kind = "native" /\ ~Fits)
                \/ (kind = "polling" /\ t # Absent /\ ~Differs(Recorded(p), t) /\ t # seen[p])
  <2>1. l \in BOOLEAN /\ lost' = [lost EXCEPT ![p] = l]
    OBVIOUS
  <2> HIDE DEF l
  <2> QED
    BY <2>1 DEF Inv, TypeOK
<1>4. UNCHANGED <<kind, mounted, manager, loop, folders, done, quiet, scan, seen>>
  BY DEF Change
<1>5. TypeOK'
  BY <1>1, <1>2, <1>3, <1>4 DEF Inv, TypeOK, manager
<1> QED
  BY <1>4, <1>5, LoopKeeps DEF Inv

LEMMA MountKeeps == ASSUME Inv, NEW f \in Folders, Unmount(f) \/ Mount(f) PROVE Inv'
<1>1. ops' \in 0 .. MaxOps
  BY WatcherAssumption DEF Unmount, Mount, Inv, TypeOK
<1>2. UNCHANGED <<kind, file, manager, loop, done, native, scan, seen, lost>>
  BY DEF Unmount, Mount
<1>3. mounted' \subseteq Folders /\ folders' \subseteq Folders
  BY DEF Unmount, Mount, Inv, TypeOK
<1>4. TypeOK'
  BY <1>1, <1>2, <1>3 DEF Inv, TypeOK, manager, native
<1> QED
  BY <1>2, <1>4, LoopKeeps DEF Inv

LEMMA HandleKeeps == ASSUME Inv, Handle PROVE Inv'
<1> DEFINE p == loop.event.path
           l == [Waits EXCEPT !.at = IF kind = "native" THEN "waits" ELSE "scans"]
<1>1. l \in Loop /\ l.at # "none" /\ loop' = l /\ loop.at = "handles"
  BY DEF Handle, Waits, Loop
<1>2. seen' \in [Paths -> Times] /\ lost' \in [Paths -> BOOLEAN]
  <2>1. CASE p \in Paths
    BY <2>1 DEF Handle, Inv, TypeOK
  <2>2. CASE p \notin Paths
    BY <2>2 DEF Handle, Inv, TypeOK
  <2> QED
    BY <2>1, <2>2
<1>3. quiet' \in [Paths -> 0 .. Debounce + Suppress]
  BY QuietIs DEF Handle, Inv, TypeOK
<1>4. UNCHANGED <<kind, ops, disk, manager, folders, done, queue, scan>>
  BY DEF Handle
<1> HIDE DEF l
<1>5. TypeOK'
  BY <1>1, <1>2, <1>3, <1>4 DEF Inv, TypeOK, disk, manager
<1> QED
  BY <1>1, <1>4, <1>5, LoopKeeps DEF Inv

LEMMA DequeueKeeps == ASSUME Inv, Dequeue PROVE Inv'
<1>1. Head(queue) \in Event /\ Tail(queue) \in Seq(Queueable)
  <2>1. Head(queue) \in Queueable /\ Tail(queue) \in Seq(Queueable) /\ Head(queue) # Overflow
    BY HeadTailProperties DEF Dequeue, Inv, TypeOK
  <2> QED
    BY <2>1 DEF Queueable
<1>2. Head(queue).path \in Paths
  BY <1>1 DEF Event
<1>3. loop.at = "waits" /\ (loop' = loop \/ loop' = Handles(Head(queue)))
  BY DEF Dequeue
<1>4. loop' \in Loop /\ loop'.at # "none"
  BY <1>1, <1>3, LoopsAre DEF Inv, TypeOK
<1>5. quiet' \in [Paths -> 0 .. Debounce + Suppress] /\ lost' \in [Paths -> BOOLEAN]
  BY <1>2, QuietIs DEF Dequeue, Inv, TypeOK
<1>6. queue' = Tail(queue) /\ UNCHANGED <<kind, ops, disk, manager, folders, done, scan, seen>>
  BY DEF Dequeue
<1>7. TypeOK'
  BY <1>1, <1>4, <1>5, <1>6 DEF Inv, TypeOK, disk, manager
<1> QED
  BY <1>3, <1>4, <1>6, <1>7, LoopKeeps DEF Inv

LEMMA ReadErrorKeeps == ASSUME Inv, ReadError PROVE Inv'
<1>1. Tail(queue) \in Seq(Queueable)
  BY HeadTailProperties DEF ReadError, Inv, TypeOK
<1>2. /\ queue' = Tail(queue)
      /\ UNCHANGED <<kind, ops, disk, manager, loop, folders, done, quiet, scan, seen, lost>>
  BY DEF ReadError
<1>3. TypeOK'
  BY <1>1, <1>2 DEF Inv, TypeOK, disk, manager
<1> QED
  BY <1>2, <1>3, LoopKeeps DEF Inv

LEMMA PollKeeps == ASSUME Inv, Poll \/ ScanEnds PROVE Inv'
<1>1. UNCHANGED <<kind, ops, disk, manager, folders, done, native, seen, lost>>
  BY DEF Poll, ScanEnds
<1>2. scan' \in Scan
  <2>1. scan \in Scan
    BY DEF Inv, TypeOK
  <2>2. CASE Poll
    <3>1. {p \in Paths : FolderOf[p] \in folders} \in SUBSET Paths
      OBVIOUS
    <3> QED
      BY <2>1, <2>2, <3>1, NoScanIs DEF Poll, Scan
  <2>3. CASE ScanEnds
    <3>1. scan.cur \in [Paths -> Times]
      BY <2>1 DEF Scan
    <3> QED
      BY <2>1, <2>3, <3>1, NoScanIs DEF ScanEnds, Scan
  <2> QED
    BY <2>2, <2>3
<1>3. loop' \in Loop /\ loop.at # "none" /\ loop'.at # "none"
  BY LoopsAre, ScansIs DEF Poll, ScanEnds
<1>4. TypeOK'
  BY <1>1, <1>2, <1>3 DEF Inv, TypeOK, disk, manager, native
<1> QED
  BY <1>1, <1>3, <1>4, LoopKeeps DEF Inv

LEMMA VisitKeeps == ASSUME Inv, NEW p \in Paths, Visit(p) PROVE Inv'
<1>1. UNCHANGED <<kind, ops, disk, manager, folders, done, native, seen>>
  BY DEF Visit
<1>2. scan' \in Scan
  <2>1. Present[p] \in Times /\ scan \in Scan
    BY PresentTyped DEF Inv, TypeOK
  <2> QED
    BY <2>1 DEF Visit, Scan
<1>3. lost' \in [Paths -> BOOLEAN]
  <2> DEFINE l == lost[p] \/ (Fires(p) /\ quiet[p] > 0)
  <2>1. l \in BOOLEAN /\ lost' = [lost EXCEPT ![p] = l]
    BY DEF Visit
  <2> HIDE DEF l
  <2> QED
    BY <2>1 DEF Inv, TypeOK
<1>4. [path |-> p, removed |-> FALSE] \in Event
  BY DEF Event
<1>5. loop.at # "none" /\ loop' \in Loop /\ loop'.at # "none"
  BY <1>4, LoopsAre DEF Visit, Inv, TypeOK
<1>6. TypeOK'
  BY <1>1, <1>2, <1>3, <1>5 DEF Inv, TypeOK, disk, manager, native
<1> QED
  BY <1>1, <1>5, <1>6, LoopKeeps DEF Inv

LEMMA ExitsKeeps == ASSUME Inv, Exits PROVE Inv'
<1>1. /\ loop.at = "waits" /\ loop' = NoLoop
      /\ UNCHANGED <<kind, ops, disk, manager, folders, done, native, scan, seen>>
  BY DEF Exits
<1>2. lost' \in [Paths -> BOOLEAN]
  BY DEF Exits
<1>3. TypeOK'
  BY <1>1, <1>2, LoopsAre DEF Inv, TypeOK, disk, manager, native
<1> QED
  BY <1>1, <1>3, LoopKeeps DEF Inv

----------------------------------------------------------------------------
(* The manager. *)

Call == [at : {"idle", "lock", "join", "start"}, folders : SUBSET Folders]

LEMMA CallsKeeps ==
    ASSUME Inv, NEW c \in Callers, NEW fs \in SUBSET Folders, Calls(c, fs)
    PROVE  Inv'
<1>1. /\ call[c].at = "idle" /\ call' = [call EXCEPT ![c] = [at |-> "lock", folders |-> fs]]
      /\ UNCHANGED <<kind, ops, disk, mutex, stopped, loop, folders, done, native, scan,
                     seen, lost>>
  BY DEF Calls
<1>2. [at |-> "lock", folders |-> fs] \in Call
  BY DEF Call
<1>3. TypeOK'
  BY <1>1, <1>2 DEF Inv, TypeOK, disk, native, Call
<1>4. Managed'
  BY <1>1 DEF Inv, TypeOK, Managed, Callers
<1> QED
  BY <1>3, <1>4 DEF Inv

\* A caller returns to where nothing is asked of it.
LEMMA ReturnIs ==
    ASSUME Inv, NEW c \in Callers, Return(c)
    PROVE  /\ call' \in [Callers -> Call] /\ call'[c].at = "idle"
           /\ \A d \in Callers \ {c} : call'[d] = call[d]
<1>1. [at |-> "idle", folders |-> {}] \in Call
  BY DEF Call
<1> QED
  BY <1>1 DEF Return, Inv, TypeOK, Call

LEMMA RefusedKeeps == ASSUME Inv, NEW c \in Callers, Refused(c) PROVE Inv'
<1>1. UNCHANGED <<kind, ops, disk, mutex, stopped, loop, folders, done, native, scan, seen, lost>>
  BY DEF Refused
<1>2. /\ call' \in [Callers -> Call] /\ call'[c].at = "idle"
      /\ \A d \in Callers \ {c} : call'[d] = call[d]
  BY ReturnIs DEF Refused
<1>3. TypeOK'
  BY <1>1, <1>2 DEF Inv, TypeOK, disk, native, Call
<1>4. Managed'
  BY <1>1, <1>2, Constants DEF Inv, Managed, Callers
<1> QED
  BY <1>3, <1>4 DEF Inv

LEMMA LockKeeps == ASSUME Inv, NEW c \in Callers, Lock(c) PROVE Inv'
<1>1. /\ call[c].at = "lock" /\ mutex = NoOne /\ mutex' = c /\ done' = TRUE /\ queue' = <<>>
      /\ c = Stopper \/ ~stopped
      /\ call' = [call EXCEPT ![c].at = "join"]
      /\ stopped' = (stopped \/ c = Stopper)
      /\ UNCHANGED <<kind, ops, disk, loop, folders, quiet, scan, seen>>
  BY DEF Lock
<1>2. lost' \in [Paths -> BOOLEAN] /\ stopped' \in BOOLEAN
  BY DEF Lock, Inv, TypeOK
<1>3. /\ call' \in [Callers -> Call] /\ call'[c].at = "join"
      /\ \A d \in Callers \ {c} : call'[d] = call[d]
  BY <1>1 DEF Inv, TypeOK, Call
<1>4. <<>> \in Seq(Queueable)
  OBVIOUS
<1>5. TypeOK'
  BY <1>1, <1>2, <1>3, <1>4 DEF Inv, TypeOK, disk, Call
<1>6. \A d \in Callers : call[d].at \notin {"join", "start"}
  BY <1>1, Constants DEF Inv, Managed
<1>7. \A d \in Callers : call'[d].at \in {"join", "start"} => d = c /\ call'[d].at = "join"
  BY <1>3, <1>6
<1>8. c \in Restarts => ~stopped'
  BY <1>1, Constants
<1>9. mutex' # NoOne
  BY <1>1, Constants
<1>10. Managed'
  <2>1. \A d \in Callers : call'[d].at \in {"join", "start"} => mutex' = d
    BY <1>1, <1>7
  <2>2. \A d \in Restarts : call'[d].at \in {"join", "start"} => ~stopped'
    BY <1>7, <1>8 DEF Callers
  <2>3. \A d \in Callers : call'[d].at # "start"
    BY <1>7
  <2>4. loop'.at = "none" => loop' = NoLoop
    BY <1>1 DEF Inv, Managed
  <2> QED
    BY <1>9, <2>1, <2>2, <2>3, <2>4, Constants DEF Managed
<1> QED
  BY <1>5, <1>10 DEF Inv

LEMMA JoinKeeps == ASSUME Inv, NEW c \in Callers, Join(c) PROVE Inv'
<1>1. /\ call[c].at = "join" /\ loop.at = "none" /\ mutex = c
      /\ UNCHANGED <<kind, ops, disk, stopped, loop, folders, done, native, scan, seen, lost>>
  BY DEF Join, Inv, Managed
<1>2. loop = NoLoop
  BY <1>1 DEF Inv, Managed
<1>3. CASE c = Stopper
  <2>1. /\ call' \in [Callers -> Call] /\ call'[c].at = "idle" /\ mutex' = NoOne
        /\ \A d \in Callers \ {c} : call'[d] = call[d]
    BY <1>3, ReturnIs DEF Join
  <2>2. TypeOK'
    BY <1>1, <2>1 DEF Inv, TypeOK, disk, native, Call
  <2>3. Managed'
    BY <1>1, <1>2, <1>3, <2>1, Constants DEF Inv, Managed, Callers
  <2> QED
    BY <2>2, <2>3 DEF Inv
<1>4. CASE c # Stopper
  <2>1. call' = [call EXCEPT ![c].at = "start"] /\ mutex' = mutex
    BY <1>4 DEF Join
  <2>2. /\ call' \in [Callers -> Call] /\ call'[c].at = "start"
        /\ \A d \in Callers \ {c} : call'[d] = call[d]
    BY <2>1 DEF Inv, TypeOK, Call
  <2>3. TypeOK'
    BY <1>1, <2>1, <2>2 DEF Inv, TypeOK, disk, native, Call
  <2>4. c \in Restarts /\ ~stopped
    BY <1>1, <1>4 DEF Inv, Managed, Callers
  <2>5. Managed'
    BY <1>1, <1>2, <1>4, <2>1, <2>2, <2>4, Constants DEF Inv, Managed, Callers
  <2> QED
    BY <2>3, <2>5 DEF Inv
<1> QED
  BY <1>3, <1>4

LEMMA StartKeeps == ASSUME Inv, NEW c \in Callers, StartWatcher(c) \/ StartFails(c) PROVE Inv'
<1>1. /\ call[c].at = "start" /\ mutex' = NoOne
      /\ UNCHANGED <<kind, ops, disk, stopped, queue, seen>>
  BY DEF StartWatcher, StartFails, native
<1>2. mutex = c /\ c \in Restarts /\ ~stopped /\ loop = NoLoop
  BY <1>1 DEF Inv, Managed, Callers
<1>3. /\ call' \in [Callers -> Call] /\ call'[c].at = "idle"
      /\ \A d \in Callers \ {c} : call'[d] = call[d]
  BY ReturnIs DEF StartWatcher, StartFails
<1>4. loop' \in Loop /\ (loop'.at = "none" => loop' = NoLoop)
  BY <1>2, LoopsAre DEF StartWatcher, Watched, StartFails
<1>5. scan' \in Scan
  <2>1. \A fs : [p \in Paths |-> IF FolderOf[p] \in fs THEN file[p] ELSE Absent] \in [Paths -> Times]
    BY Constants DEF Inv, TypeOK
  <2>2. CASE scan' = NoScan
    BY <2>2, NoScanIs
  <2>3. CASE \E fs : scan' = [NoScan EXCEPT !.last =
                 [p \in Paths |-> IF FolderOf[p] \in fs THEN file[p] ELSE Absent]]
    BY <2>1, <2>3, NoScanIs, ScanKeeps
  <2> QED
    BY <2>2, <2>3 DEF StartWatcher, StartFails
<1>6. folders' \subseteq Folders /\ done' \in BOOLEAN
  BY DEF StartWatcher, Watched, StartFails, Inv, TypeOK
<1>7. quiet' \in [Paths -> 0 .. Debounce + Suppress] /\ lost' \in [Paths -> BOOLEAN]
  BY QuietIs DEF StartWatcher, StartFails, native, Inv, TypeOK
<1>8. TypeOK'
  BY <1>1, <1>3, <1>4, <1>5, <1>6, <1>7 DEF Inv, TypeOK, disk, Call
<1>9. Managed'
  BY <1>1, <1>2, <1>3, <1>4, Constants DEF Inv, Managed, Callers
<1> QED
  BY <1>8, <1>9 DEF Inv

----------------------------------------------------------------------------
(* The theorems. *)

LEMMA NextKeeps == Inv /\ [Next]_vars => Inv'
<1> SUFFICES ASSUME Inv, [Next]_vars PROVE Inv'
  OBVIOUS
<1>1. CASE Tick \/ Change \/ \E f \in Folders : Unmount(f) \/ Mount(f)
  BY <1>1, TickKeeps, ChangeKeeps, MountKeeps
<1>2. CASE Watching
  BY <1>2, DequeueKeeps, ReadErrorKeeps, HandleKeeps, PollKeeps, VisitKeeps, ExitsKeeps DEF Watching
<1>3. CASE \/ \E c \in Restarts, fs \in SUBSET Folders : Calls(c, fs)
           \/ Calls(Stopper, {})
  BY <1>3, CallsKeeps, Constants DEF Callers
<1>4. CASE \E c \in Callers : Calling(c)
  BY <1>4, RefusedKeeps, LockKeeps, JoinKeeps, StartKeeps DEF Calling
<1> QED
  BY <1>1, <1>2, <1>3, <1>4, StutterKeeps DEF Next

LEMMA Invariant == Spec => []Inv
BY InitHolds, NextKeeps, PTL DEF Spec

\* The state of the watcher and its manager is well typed: the times left of a
\* debounce never go below zero or above the longest interval.
THEOREM WatcherTyped == Spec => []TypeOK
<1>1. Inv => TypeOK
  BY DEF Inv
<1> QED
  BY <1>1, Invariant, PTL

\* Whatever restarts race the shutdown, no watcher runs once Stop has returned,
\* and none while a restart is about to start the next one.
THEOREM StoppedForGood == Spec => []NobodyHandlesAfterStop
<1>1. Inv => NobodyHandlesAfterStop
  BY DEF Inv, Managed, NobodyHandlesAfterStop, Callers
<1> QED
  BY <1>1, Invariant, PTL

----------------------------------------------------------------------------
(* What the library has not seen. The property holds step by step: whatever *)
(* takes a change off its way hands it on, imports it, or loses it for a    *)
(* reason.                                                                  *)

Due(p) == file[p] # Absent /\ seen[p] # file[p] => OnItsWay(p) \/ lost[p]

\* The parts of OnItsWay, by platform.
Queued(p) == kind = "native" /\ \E i \in DOMAIN queue : queue[i] = Import(p)
Found(p) ==
    kind = "polling" /\ loop.at # "none" /\ FolderOf[p] \in folders /\ Differs(Recorded(p), file[p])

LEMMA OnItsWayIs == \A p : OnItsWay(p) <=> loop = Handles(Import(p)) \/ Queued(p) \/ Found(p)
BY DEF OnItsWay, Queued, Found

LEMMA HandledIs ==
    \A p, q : /\ Handles(Import(p)).at = "handles" /\ Handles(Import(p)).event.path = p
              /\ ~Handles(Import(p)).event.removed
              /\ (Handles(Import(p)) = Handles(Import(q)) => p = q)
BY DEF Handles, Import

\* A step that leaves a path's file, import and way alone.
LEMMA DueSame ==
    ASSUME NEW p \in Paths, Due(p), UNCHANGED <<file, seen>>,
           lost[p] => lost'[p], OnItsWay(p) => OnItsWay(p)' \/ lost'[p]
    PROVE  Due(p)'
BY DEF Due

LEMMA TickDue == ASSUME Inv, NEW p \in Paths, Due(p), Tick PROVE Due(p)'
<1>1. UNCHANGED <<kind, file, loop, folders, queue, seen, lost>>
  BY DEF Tick, disk
<1>2. scan'.last = scan.last /\ scan'.cur = scan.cur /\ scan'.left = scan.left
  BY DEF Tick, Inv, TypeOK, Scan
<1>3. Recorded(p)' = Recorded(p)
  BY <1>1, <1>2 DEF Recorded
<1>4. OnItsWay(p) => OnItsWay(p)'
  BY <1>1, <1>3 DEF OnItsWay
<1> QED
  BY <1>1, <1>4, DueSame

\* What is in the queue stays there when something is added.
LEMMA QueuedKept ==
    ASSUME Inv, NEW p, NEW e \in Queueable, Queued(p), kind' = kind, queue' = Append(queue, e)
    PROVE  Queued(p)'
<1>1. queue \in Seq(Queueable)
  BY DEF Inv, TypeOK
<1>2. PICK i \in DOMAIN queue : queue[i] = Import(p)
  BY DEF Queued
<1>3. i \in DOMAIN queue' /\ queue'[i] = queue[i]
  BY <1>1, AppendProperties
<1> QED
  BY <1>2, <1>3 DEF Queued

LEMMA ChangeDue == ASSUME Inv, NEW p \in Paths, Due(p), Change PROVE Due(p)'
<1> PICK q \in Paths, t \in Times :
      /\ t # file[q]
      /\ file' = [file EXCEPT ![q] = t]
      /\ IF kind = "native" /\ Watches(q)
         THEN Enqueue([path |-> q, removed |-> t = Absent]) ELSE queue' = queue
      /\ lost' = [lost EXCEPT ![q] = @ \/ ~Watches(q) \/ (kind = "native" /\ ~Fits)
                    \/ (kind = "polling" /\ t # Absent /\ ~Differs(Recorded(q), t) /\ t # seen[q])]
  BY DEF Change
<1> DEFINE e == [path |-> q, removed |-> t = Absent]
<1>1. UNCHANGED <<kind, loop, folders, scan, seen>> /\ kind \in {"native", "polling"}
  BY DEF Change, Inv, TypeOK
<1>2. e \in Queueable /\ Overflow \in Queueable
  <2>1. (t = Absent) \in BOOLEAN
    OBVIOUS
  <2> QED
    BY <2>1 DEF Event, Queueable
<1>5. Enqueue(e) \/ queue' = queue
  OBVIOUS
<1>3. CASE p # q
  <2>1. file'[p] = file[p] /\ lost'[p] = lost[p]
    BY <1>3 DEF Inv, TypeOK
  <2>2. Queued(p) => Queued(p)'
    <3> HIDE DEF e
    <3>1. queue' = queue \/ queue' = Append(queue, e) \/ queue' = Append(queue, Overflow)
      BY <1>5 DEF Enqueue
    <3>2. CASE queue' = queue
      BY <1>1, <3>2 DEF Queued
    <3> QED
      BY <1>1, <1>2, <3>1, <3>2, QueuedKept
  <2>3. Found(p) => Found(p)'
    BY <1>1, <2>1 DEF Found, Recorded
  <2> QED
    BY <1>1, <2>1, <2>2, <2>3, OnItsWayIs DEF Due, OnItsWay, Queued, Found
<1>4. CASE p = q
  <2>1. file'[p] = t
    BY <1>4 DEF Inv, TypeOK
  <2> SUFFICES ASSUME t # Absent, seen[p] # t, ~lost'[p] PROVE OnItsWay(p)'
    BY <1>1, <2>1 DEF Due
  <2>2. Watches(p) /\ (kind = "polling" => Differs(Recorded(p), t))
    BY <1>4 DEF Inv, TypeOK
  <2>3. CASE kind = "native"
    <3>1. queue' = Append(queue, Import(p))
      <4>1. Fits /\ Enqueue(e) /\ e = Import(p)
        BY <1>4, <2>2, <2>3 DEF Inv, TypeOK, Import
      <4> HIDE DEF e
      <4> QED
        BY <4>1 DEF Enqueue
    <3>2. Import(p) \in Queueable
      BY DEF Import, Event, Queueable
    <3>3. Len(queue') \in DOMAIN queue' /\ queue'[Len(queue')] = Import(p)
      <4>1. queue \in Seq(Queueable)
        BY DEF Inv, TypeOK
      <4> QED
        BY <3>1, <3>2, <4>1, AppendProperties, LenProperties
    <3> QED
      BY <1>1, <2>3, <3>3 DEF OnItsWay
  <2>4. CASE kind = "polling"
    BY <1>1, <2>1, <2>2, <2>4 DEF OnItsWay, Recorded, Watches
  <2> QED
    BY <1>1, <2>3, <2>4
<1> QED
  BY <1>3, <1>4

LEMMA MountDue ==
    ASSUME Inv, NEW p \in Paths, Due(p), NEW f \in Folders, Unmount(f) \/ Mount(f)
    PROVE  Due(p)'
<1>1. /\ UNCHANGED <<kind, file, loop, queue, scan, seen, lost>>
      /\ kind = "polling" => folders' = folders
  BY DEF Unmount, Mount, native
<1>2. OnItsWay(p) => OnItsWay(p)'
  BY <1>1 DEF OnItsWay, Recorded
<1> QED
  BY <1>1, <1>2, DueSame

LEMMA HandleDue == ASSUME Inv, NEW p \in Paths, Due(p), Handle PROVE Due(p)'
<1> DEFINE q == loop.event.path
<1>1. /\ loop.at = "handles" /\ UNCHANGED <<kind, file, folders, queue, scan>>
      /\ loop' = [Waits EXCEPT !.at = IF kind = "native" THEN "waits" ELSE "scans"]
  BY DEF Handle, disk
<1>2. loop'.at = IF kind = "native" THEN "waits" ELSE "scans"
  BY <1>1 DEF Waits
<1>3. Queued(p) \/ Found(p) => Queued(p)' \/ Found(p)'
  <2>1. kind = "polling" => Recorded(p)' = Recorded(p)
    BY <1>1, <1>2 DEF Recorded
  <2> QED
    BY <1>1, <1>2, <2>1 DEF Queued, Found
<1>4. CASE loop = Handles(Import(p))
  <2>1. q = p /\ ~loop.event.removed
    BY <1>4, HandledIs
  <2> QED
    BY <2>1 DEF Handle, Due, Inv, TypeOK, disk
<1>5. CASE loop # Handles(Import(p))
  <2>1. seen'[p] = seen[p] \/ seen'[p] = file[p]
    BY DEF Handle, Inv, TypeOK
  <2>2. lost[p] => lost'[p] \/ seen'[p] = file[p]
    BY DEF Handle, Inv, TypeOK
  <2> QED
    BY <1>1, <1>3, <1>5, <2>1, <2>2, OnItsWayIs DEF Due, OnItsWay, Queued, Found
<1> QED
  BY <1>4, <1>5

LEMMA DequeueDue == ASSUME Inv, NEW p \in Paths, Due(p), Dequeue PROVE Due(p)'
<1> DEFINE h == Head(queue)
<1>1. /\ kind = "native" /\ loop.at = "waits" /\ queue # <<>> /\ queue' = Tail(queue)
      /\ UNCHANGED <<kind, file, seen>>
      /\ \/ lost' = [lost EXCEPT ![h.path] = TRUE]
         \/ loop' = Handles(h) /\ lost' = lost
  BY DEF Dequeue, disk
<1>2. queue \in Seq(Queueable) /\ h \in Event /\ h = queue[1] /\ h.path \in Paths
  <2>1. queue \in Seq(Queueable) /\ h \in Event /\ h = queue[1]
    BY <1>1, HeadTailProperties DEF Dequeue, Inv, TypeOK, Queueable
  <2> QED
    BY <2>1 DEF Event
<1>3. lost[p] => lost'[p]
  BY <1>1, <1>2 DEF Inv, TypeOK
<1>4. ASSUME OnItsWay(p) PROVE OnItsWay(p)' \/ lost'[p]
  <2>1. PICK i \in DOMAIN queue : queue[i] = Import(p)
    BY <1>1, <1>4, HandledIs DEF OnItsWay
  <2>2. CASE i = 1
    <3>1. h = Import(p) /\ h.path = p
      BY <1>2, <2>1, <2>2 DEF Import
    <3> QED
      BY <1>1, <3>1 DEF OnItsWay, Inv, TypeOK
  <2>3. CASE i # 1
    <3>1. /\ i - 1 \in DOMAIN Tail(queue)
          /\ Tail(queue)[i - 1] = queue[i]
      BY <1>1, <1>2, <2>3, HeadTailProperties, LenProperties
    <3> QED
      BY <1>1, <2>1, <3>1 DEF OnItsWay
  <2> QED
    BY <2>2, <2>3
<1> QED
  BY <1>1, <1>3, <1>4, DueSame

LEMMA ReadErrorDue == ASSUME Inv, NEW p \in Paths, Due(p), ReadError PROVE Due(p)'
<1>1. /\ loop' = loop /\ Head(queue) = Overflow /\ queue # <<>> /\ queue' = Tail(queue)
      /\ loop.at = "waits" /\ kind = "native"
      /\ UNCHANGED <<kind, file, seen, lost>>
  BY DEF ReadError, disk
<1>2. ASSUME OnItsWay(p) PROVE OnItsWay(p)'
  <2>1. PICK i \in DOMAIN queue : queue[i] = Import(p)
    BY <1>1, <1>2, HandledIs DEF OnItsWay
  <2>2. queue \in Seq(Queueable) /\ queue[1] = Overflow
    BY <1>1, HeadTailProperties DEF Inv, TypeOK
  <2>3. Import(p) \in Event
    BY DEF Import, Event
  <2>4. i # 1
    BY <2>1, <2>2, <2>3, OverflowAssumption
  <2>5. i - 1 \in DOMAIN Tail(queue) /\ Tail(queue)[i - 1] = queue[i]
    BY <1>1, <2>2, <2>4, HeadTailProperties, LenProperties
  <2> QED
    BY <1>1, <2>1, <2>5 DEF OnItsWay
<1> QED
  BY <1>1, <1>2, DueSame

LEMMA PollDue == ASSUME Inv, NEW p \in Paths, Due(p), Poll PROVE Due(p)'
<1>1. /\ UNCHANGED <<kind, file, folders, queue, seen, lost>> /\ kind = "polling"
      /\ loop.at = "waits" /\ loop'.at = "scans"
  BY ScansIs DEF Poll, disk, native
<1>2. scan'.last = scan.last /\ scan'.left = {q \in Paths : FolderOf[q] \in folders}
  BY DEF Poll, Inv, TypeOK, Scan
<1>3. OnItsWay(p) => OnItsWay(p)'
  BY <1>1, <1>2, HandledIs DEF OnItsWay, Recorded
<1> QED
  BY <1>1, <1>3, DueSame

LEMMA VisitDue == ASSUME Inv, NEW p \in Paths, Due(p), NEW q \in Paths, Visit(q) PROVE Due(p)'
<1>1. /\ loop.at = "scans" /\ q \in scan.left
      /\ UNCHANGED <<kind, file, mounted, folders, queue, seen>>
      /\ loop' = IF Fires(q) /\ quiet[q] = 0 THEN Handles(Import(q)) ELSE loop
  BY DEF Visit, disk, native, Import
<1>2. /\ scan'.last = scan.last /\ scan'.left = scan.left \ {q}
      /\ scan'.cur = [scan.cur EXCEPT ![q] = Present[q]]
  BY DEF Visit, Inv, TypeOK, Scan
<1>3. loop'.at \in {"scans", "handles"}
  BY <1>1, HandledIs
<1>4. lost[p] => lost'[p]
  BY DEF Visit, Inv, TypeOK
<1>5. scan.cur \in [Paths -> Times]
  BY DEF Inv, TypeOK, Scan
<1>6. CASE p # q
  <2>1. Recorded(p)' = Recorded(p)
    BY <1>1, <1>2, <1>3, <1>5, <1>6 DEF Recorded
  <2>2. OnItsWay(p) => OnItsWay(p)'
    BY <1>1, <1>3, <2>1, HandledIs DEF OnItsWay
  <2> QED
    BY <1>1, <1>4, <2>2, DueSame
<1>7. CASE p = q
  <2>1. Recorded(p) = scan.last[p] /\ Recorded(p)' = Present[p]
    BY <1>1, <1>2, <1>3, <1>5, <1>7 DEF Recorded
  <2>2. ASSUME Found(p), file[p] # Absent PROVE OnItsWay(p)' \/ lost'[p]
    <3>1. CASE Present[p] = file[p]
      <4>1. Fires(p)
        BY <2>1, <2>2, <3>1 DEF Fires, Found
      <4>2. quiet[p] \in Nat
        BY Constants DEF Inv, TypeOK
      <4>3. CASE quiet[p] = 0
        BY <1>1, <1>7, <4>1, <4>3 DEF OnItsWay
      <4>4. CASE quiet[p] # 0
        <5>1. quiet[p] > 0
          BY <4>2, <4>4
        <5> QED
          BY <1>7, <4>1, <5>1 DEF Visit, Inv, TypeOK
      <4> QED
        BY <4>3, <4>4
    <3>2. CASE Present[p] # file[p]
      <4>1. Present[p] = Absent
        BY <3>2 DEF Present
      <4>2. file[p] \in Nat /\ file[p] # 0
        BY <2>2, Constants DEF Inv, TypeOK, Times, Absent
      <4>3. Differs(Recorded(p)', file'[p])
        BY <1>1, <2>1, <4>1, <4>2 DEF Differs, Absent
      <4> QED
        BY <1>1, <1>3, <2>2, <4>3 DEF OnItsWay, Found
    <3> QED
      BY <3>1, <3>2
  <2>3. Queued(p) => OnItsWay(p)'
    BY <1>1 DEF Queued, OnItsWay
  <2>4. loop # Handles(Import(p))
    BY <1>1, HandledIs
  <2> QED
    BY <1>1, <1>4, <2>2, <2>3, <2>4, OnItsWayIs DEF Due
<1> QED
  BY <1>6, <1>7

LEMMA ScanEndsDue == ASSUME Inv, NEW p \in Paths, Due(p), ScanEnds PROVE Due(p)'
<1>1. /\ UNCHANGED <<kind, file, folders, queue, seen, lost>> /\ scan.left = {}
      /\ loop.at = "scans" /\ loop'.at = "waits"
  BY LoopsAre DEF ScanEnds, disk, native
<1>2. scan'.last = scan.cur
  BY DEF ScanEnds, Inv, TypeOK, Scan
<1>3. Recorded(p)' = Recorded(p)
  BY <1>1, <1>2 DEF Recorded
<1>4. OnItsWay(p) => OnItsWay(p)'
  BY <1>1, <1>3, HandledIs DEF OnItsWay
<1> QED
  BY <1>1, <1>4, DueSame

\* The manager's steps.
LEMMA CallDue ==
    ASSUME Inv, NEW p \in Paths, Due(p),
           Exits \/ (\E c \in Callers : Calling(c)) \/ (\E c \in Callers, fs \in SUBSET Folders : Calls(c, fs))
    PROVE  Due(p)'
<1>1. CASE Exits \/ \E c \in Callers : StartWatcher(c)
  <2>1. UNCHANGED <<file, seen>> /\ lost'[p] = (lost[p] \/ seen[p] # file[p])
    BY <1>1 DEF Exits, StartWatcher, disk
  <2> QED
    BY <2>1 DEF Due
<1>2. CASE \E c \in Callers : Refused(c) \/ Join(c) \/ \E fs \in SUBSET Folders : Calls(c, fs)
  <2>1. UNCHANGED <<kind, file, loop, folders, queue, scan, seen, lost>>
    BY <1>2 DEF Refused, Join, Calls, disk, native
  <2>2. OnItsWay(p) => OnItsWay(p)'
    BY <2>1 DEF OnItsWay, Recorded
  <2> QED
    BY <2>1, <2>2, DueSame
<1>3. CASE \E c \in Callers : Lock(c)
  <2>1. /\ UNCHANGED <<kind, file, loop, folders, scan, seen>>
        /\ lost'[p] = (lost[p] \/ \E i \in DOMAIN queue : queue[i] # Overflow /\ queue[i].path = p)
    BY <1>3 DEF Lock, disk
  <2>2. ASSUME Queued(p) PROVE lost'[p]
    <3>1. PICK i \in DOMAIN queue : queue[i] = Import(p)
      BY <2>2 DEF Queued
    <3>2. Import(p) \in Event /\ Import(p).path = p
      BY DEF Import, Event
    <3>3. queue[i] # Overflow /\ queue[i].path = p
      BY <3>1, <3>2, OverflowAssumption
    <3> QED
      BY <2>1, <3>3
  <2>3. Found(p) => Found(p)'
    BY <2>1 DEF Found, Recorded
  <2>4. OnItsWay(p) => OnItsWay(p)' \/ lost'[p]
    BY <2>1, <2>2, <2>3, OnItsWayIs DEF OnItsWay, Found
  <2>5. lost[p] => lost'[p]
    BY <2>1
  <2> QED
    BY <2>1, <2>4, <2>5, DueSame
<1>4. CASE \E c \in Callers : StartFails(c)
  <2>1. UNCHANGED <<kind, file, loop, queue, seen, lost>> /\ kind = "native"
    BY <1>4 DEF StartFails, disk, native
  <2>2. OnItsWay(p) => OnItsWay(p)'
    BY <2>1 DEF OnItsWay
  <2> QED
    BY <2>1, <2>2, DueSame
<1> QED
  BY <1>1, <1>2, <1>3, <1>4 DEF Calling

LEMMA InitDue == Init => SeenOrOnItsWay
BY DEF Init, SeenOrOnItsWay

LEMMA DueKeeps == Inv /\ SeenOrOnItsWay /\ [Next]_vars => SeenOrOnItsWay'
<1> SUFFICES ASSUME Inv, SeenOrOnItsWay, [Next]_vars, NEW p \in Paths PROVE Due(p)'
  BY DEF SeenOrOnItsWay, Due
<1>1. Due(p)
  BY DEF SeenOrOnItsWay, Due
<1>2. CASE UNCHANGED vars
  BY <1>1, <1>2 DEF vars, disk, Due, OnItsWay, Recorded
<1>3. CASE Watching
  <2>1. CASE Exits
    BY <1>1, <2>1, CallDue
  <2> QED
    BY <1>1, <1>3, <2>1, DequeueDue, ReadErrorDue, HandleDue, PollDue, VisitDue, ScanEndsDue DEF Watching
<1>4. CASE \E c \in Restarts, fs \in SUBSET Folders : Calls(c, fs)
  <2>1. \E c \in Callers, fs \in SUBSET Folders : Calls(c, fs)
    BY <1>4 DEF Callers
  <2> QED
    BY <1>1, <2>1, CallDue
<1>5. CASE Calls(Stopper, {})
  <2>1. \E c \in Callers, fs \in SUBSET Folders : Calls(c, fs)
    BY <1>5 DEF Callers
  <2> QED
    BY <1>1, <2>1, CallDue
<1>6. CASE \E c \in Callers : Calling(c)
  BY <1>1, <1>6, CallDue
<1> QED
  BY <1>1, <1>2, <1>3, <1>4, <1>5, <1>6, TickDue, ChangeDue, MountDue DEF Next

\* For any files, folders and order of events, scans, restarts and shutdown, on
\* both kinds of watcher: a file the library has not imported as it is on disk
\* is on its way to the handler, or was lost for one of the reasons the code
\* has.
THEOREM NoChangeVanishes == Spec => []SeenOrOnItsWay
<1>1. Inv /\ SeenOrOnItsWay /\ [Next]_vars => (Inv /\ SeenOrOnItsWay)'
  BY NextKeeps, DueKeeps
<1> QED
  BY <1>1, InitHolds, InitDue, PTL DEF Spec
=============================================================================
