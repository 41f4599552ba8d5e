--------------------------- MODULE LibraryProofs ---------------------------
(***************************************************************************)
(* Proofs about Library, LibraryHistory and Catalog, for every number of   *)
(* packages, files, folders, watchers, rescans, requests, managers and     *)
(* clients:                                                                *)
(*   - TypeOK and OneWriterPerPackage are invariants, and an INSERT meets  *)
(*     a row only if another GameManager has just inserted it;             *)
(*   - a rescan keeps the games whose files stay where they are, and one   *)
(*     that nobody disturbs leaves the table in agreement with the disk;   *)
(*   - a tag of the catalog stands for the versions it was made from, but  *)
(*     for rows stamped with the date of a file.                           *)
(* The inductive invariant IInv adds to TypeOK which stages a kind of      *)
(* worker can be in, what its job record holds at each stage, and that the *)
(* holder of a mutex works through the manager the mutex belongs to. What  *)
(* the later sections need is added to it: Kept, Named and Quiet for the   *)
(* rescans, Dates and Catalogs for the catalog.                            *)
(***************************************************************************)
EXTENDS LibraryHistory, Catalog, WellFoundedInduction, TLAPS

FileStages == ImportStages \cup RevalidateStages \cup {"mstat", "mcheck", "mwrite"}
GameStages == Critical \cup ManualStages \cup {"lockCorrupt", "lockValid", "rlock", "hide", "drop"}
RowStages == {"rstat", "rcheck", "rwrite", "mstat", "mcheck", "mwrite"}

\* A job j that worker x can have: its stage belongs to the kind of worker,
\* and the fields that the next step reads have been filled in.
Fits(x, j) ==
    /\ x \in Watchers => j.at \in {"idle"} \cup ImportStages
    /\ x \in Scanners => j.at \in {"idle"} \cup ImportStages \cup RevalidateStages \cup ScanStages
    /\ x \in Admins => j.at \in {"idle"} \cup ManualStages
    /\ j.at \in FileStages => j.file \in Paths
    /\ j.at \in GameStages => j.game \in Packages
    /\ j.at \in RowStages => j.row \in Row

\* A mutex is held by a worker of the manager it belongs to.
HoldersFit ==
    \A m \in Managers, g \in Packages : locks[<<m, g>>] # NoWorker =>
        locks[<<m, g>>] \in Watchers \cup Scanners /\ ManagerOf[locks[<<m, g>>]] = m

DataOK ==
    /\ disk \in [Paths -> File]
    /\ clock \in Nat
    /\ rows \in [Packages -> Row \cup {NoRow}]
    /\ pending \in [Paths -> {"none", "added", "modified"}]
    /\ scan \in [Scanners -> Scan]
    /\ ops \in Nat

Coherent ==
    /\ job \in [Workers -> Job]
    /\ locks \in [Managers \X Packages -> Workers \cup {NoWorker}]
    /\ \A x \in Workers : Fits(x, job[x])
    /\ OneWriterPerPackage
    /\ HoldersFit

IInv == DataOK /\ Coherent

----------------------------------------------------------------------------
(* What the helpers of Library preserve. *)

\* An UPDATE or INSERT of a well-formed row keeps the table well-formed.
LEMMA UpdateType ==
    ASSUME rows \in [Packages -> Row \cup {NoRow}],
           NEW g \in Packages, NEW row, rows[g] # NoRow => row \in Row, Update(g, row)
    PROVE  rows' \in [Packages -> Row \cup {NoRow}]
BY DEF Update

LEMMA InsertType ==
    ASSUME rows \in [Packages -> Row \cup {NoRow}],
           NEW g \in Packages, NEW row \in Row, Insert(g, row)
    PROVE  rows' \in [Packages -> Row \cup {NoRow}]
BY DEF Insert

\* The changes the code makes to a row leave a well-formed row.
LEMMA RowEdits ==
    ASSUME NEW r \in Row, NEW e \in BOOLEAN, NEW c \in BOOLEAN, NEW p \in Paths, NEW t \in Nat
    PROVE  /\ [r EXCEPT !.exposed = e, !.stamp = t] \in Row
           /\ [r EXCEPT !.corrupted = c, !.stamp = t] \in Row
           /\ [r EXCEPT !.path = p, !.stamp = t] \in Row
           /\ [r EXCEPT !.exposed = e, !.stamp = t, !.path = p] \in Row
BY DEF Row

LEMMA SetExposedType ==
    ASSUME rows \in [Packages -> Row \cup {NoRow}], clock \in Nat,
           NEW g \in Packages, NEW e \in BOOLEAN, SetExposed(g, e)
    PROVE  rows' \in [Packages -> Row \cup {NoRow}]
<1>1. rows[g] # NoRow => [rows[g] EXCEPT !.exposed = e, !.stamp = clock] \in Row
  BY DEF Row
<1> QED
  BY <1>1, UpdateType DEF SetExposed

\* A step that changes the job of w and no mutex is coherent when w is in a
\* critical stage of the same package before and after it, or in none.
LEMMA KeepsLocks ==
    ASSUME Coherent, NEW w \in Workers, NEW j \in Job, Fits(w, j), Becomes(w, j),
           UNCHANGED locks,
           job[w].at \in Critical <=> j.at \in Critical,
           j.at \in Critical => j.game = job[w].game
    PROVE  Coherent'
<1> USE DEF Coherent, Becomes
<1>1. /\ job' \in [Workers -> Job]
      /\ job'[w] = j
      /\ \A x \in Workers \ {w} : job'[x] = job[x]
  OBVIOUS
<1>2. (\A x \in Workers : Fits(x, job[x]))'
  BY <1>1 DEF Fits
<1>3. HoldersFit'
  BY DEF HoldersFit
<1>4. OneWriterPerPackage'
  <2>1. ASSUME NEW x \in Watchers \cup Scanners, Holding(x)'
        PROVE  locks'[LockOf(x, job'[x].game)] = x
    BY <1>1, <2>1 DEF OneWriterPerPackage, Holding, LockOf, Workers
  <2>2. ASSUME NEW m \in Managers, NEW g \in Packages, locks'[<<m, g>>] # NoWorker
        PROVE  job'[locks'[<<m, g>>]].at \in Critical /\ job'[locks'[<<m, g>>]].game = g
    BY <1>1, <2>2 DEF OneWriterPerPackage, Holding, Workers
  <2> QED
    BY <2>1, <2>2 DEF OneWriterPerPackage, Holding, LockOf
<1> QED
  BY <1>1, <1>2, <1>3, <1>4

\* Taking a free mutex on the way into a critical stage is coherent.
LEMMA TakesLock ==
    ASSUME Coherent, NEW w \in Watchers \cup Scanners, NEW g \in Packages, NEW j \in Job,
           Fits(w, j), Becomes(w, j), Free(w, g), Acquire(w, g),
           job[w].at \notin Critical, j.at \in Critical, j.game = g
    PROVE  Coherent'
<1> USE DEF Coherent, Becomes
<1> DEFINE l == <<ManagerOf[w], g>>
<1>0. w \in Workers /\ ManagerOf[w] \in Managers /\ l \in Managers \X Packages
  BY DataAssumption DEF Workers
<1>1. /\ job' \in [Workers -> Job]
      /\ job'[w] = j
      /\ \A x \in Workers \ {w} : job'[x] = job[x]
  BY <1>0
<1>2. /\ locks' \in [Managers \X Packages -> Workers \cup {NoWorker}]
      /\ locks[l] = NoWorker
      /\ locks'[l] = w
      /\ \A k \in (Managers \X Packages) \ {l} : locks'[k] = locks[k]
  BY <1>0 DEF Acquire, Free, LockOf
<1>3. (\A x \in Workers : Fits(x, job[x]))'
  BY <1>1 DEF Fits
<1>4. HoldersFit'
  BY <1>2 DEF HoldersFit
<1>5. OneWriterPerPackage'
  <2>1. ASSUME NEW x \in Watchers \cup Scanners, job'[x].at \in Critical
        PROVE  locks'[<<ManagerOf[x], job'[x].game>>] = x
    <3>1. CASE x = w
      BY <3>1, <1>1, <1>2
    <3>2. CASE x # w
      <4>1. job[x].at \in Critical /\ job'[x] = job[x] /\ x \in Workers
        BY <3>2, <2>1, <1>1 DEF Workers
      <4>2. locks[<<ManagerOf[x], job[x].game>>] = x /\ x # NoWorker
        BY <4>1, WorkersAssumption DEF OneWriterPerPackage, Holding, LockOf
      <4>3. job[x].game \in Packages /\ ManagerOf[x] \in Managers
        BY <4>1, DataAssumption DEF Fits, GameStages
      <4> QED
        BY <4>1, <4>2, <4>3, <1>2
    <3> QED
      BY <3>1, <3>2
  <2>2. ASSUME NEW m \in Managers, NEW h \in Packages, locks'[<<m, h>>] # NoWorker
        PROVE  job'[locks'[<<m, h>>]].at \in Critical /\ job'[locks'[<<m, h>>]].game = h
    <3>1. CASE <<m, h>> = l
      BY <3>1, <1>1, <1>2
    <3>2. CASE <<m, h>> # l
      <4>1. locks'[<<m, h>>] = locks[<<m, h>>]
        BY <3>2, <1>2
      <4>2. job[locks[<<m, h>>]].at \in Critical /\ job[locks[<<m, h>>]].game = h
        BY <4>1, <2>2 DEF OneWriterPerPackage, Holding
      <4>3. locks[<<m, h>>] \in Workers /\ locks[<<m, h>>] # w
        BY <4>1, <4>2, <2>2
      <4> QED
        BY <4>1, <4>2, <4>3, <1>1
    <3> QED
      BY <3>1, <3>2
  <2> QED
    BY <2>1, <2>2 DEF OneWriterPerPackage, Holding, LockOf
<1> QED
  BY <1>1, <1>2, <1>3, <1>4, <1>5

\* Releasing the mutex on the way out of a critical stage is coherent.
LEMMA ReleasesLock ==
    ASSUME Coherent, NEW w \in Watchers \cup Scanners, NEW j \in Job,
           Fits(w, j), Becomes(w, j), Release(w),
           job[w].at \in Critical, j.at \notin Critical
    PROVE  Coherent'
<1> USE DEF Coherent, Becomes
<1> DEFINE l == <<ManagerOf[w], job[w].game>>
<1>0. /\ w \in Workers /\ ManagerOf[w] \in Managers
      /\ job[w].game \in Packages
      /\ l \in Managers \X Packages
  BY DataAssumption DEF Workers, Fits, GameStages
<1>1. /\ job' \in [Workers -> Job]
      /\ job'[w] = j
      /\ \A x \in Workers \ {w} : job'[x] = job[x]
  BY <1>0
<1>2. /\ locks' \in [Managers \X Packages -> Workers \cup {NoWorker}]
      /\ locks[l] = w
      /\ locks'[l] = NoWorker
      /\ \A k \in (Managers \X Packages) \ {l} : locks'[k] = locks[k]
  BY <1>0 DEF Release, LockOf, OneWriterPerPackage, Holding
<1>3. (\A x \in Workers : Fits(x, job[x]))'
  BY <1>1 DEF Fits
<1>4. HoldersFit'
  BY <1>2 DEF HoldersFit
<1>5. OneWriterPerPackage'
  <2>1. ASSUME NEW x \in Watchers \cup Scanners, job'[x].at \in Critical
        PROVE  locks'[<<ManagerOf[x], job'[x].game>>] = x
    <3>1. x # w /\ x \in Workers
      BY <2>1, <1>1 DEF Workers
    <3>2. job'[x] = job[x] /\ job[x].at \in Critical
      BY <3>1, <2>1, <1>1
    <3>3. locks[<<ManagerOf[x], job[x].game>>] = x
      BY <3>2 DEF OneWriterPerPackage, Holding, LockOf
    <3>4. job[x].game \in Packages /\ ManagerOf[x] \in Managers
      BY <3>1, <3>2, DataAssumption DEF Fits, GameStages
    <3> QED
      BY <3>1, <3>2, <3>3, <3>4, <1>2
  <2>2. ASSUME NEW m \in Managers, NEW h \in Packages, locks'[<<m, h>>] # NoWorker
        PROVE  job'[locks'[<<m, h>>]].at \in Critical /\ job'[locks'[<<m, h>>]].game = h
    <3>1. <<m, h>> # l /\ locks'[<<m, h>>] = locks[<<m, h>>]
      BY <2>2, <1>2
    <3>2. /\ job[locks[<<m, h>>]].at \in Critical /\ job[locks[<<m, h>>]].game = h
          /\ ManagerOf[locks[<<m, h>>]] = m /\ locks[<<m, h>>] \in Workers
      BY <3>1, <2>2 DEF OneWriterPerPackage, Holding, HoldersFit, Workers
    <3>3. locks[<<m, h>>] # w
      BY <3>1, <3>2
    <3> QED
      BY <3>1, <3>2, <3>3, <1>1
  <2> QED
    BY <2>1, <2>2 DEF OneWriterPerPackage, Holding, LockOf
<1> QED
  BY <1>1, <1>2, <1>3, <1>4, <1>5

----------------------------------------------------------------------------
(* Each operation preserves the inductive invariant. *)

LEMMA InitHolds == Init => IInv
<1> SUFFICES ASSUME Init PROVE IInv
  OBVIOUS
<1>1. DataOK
  BY DataAssumption DEF Init, DataOK, File, Kinds, Nothing, Row, LegacyRow, Scan, NoScan
<1>2. job \in [Workers -> Job] /\ \A x \in Workers : job[x].at = "idle"
  BY DEF Init, Job, Idle, Stages, File, Kinds, Nothing
<1>3. Coherent
  BY <1>2, WorkersAssumption
  DEF Init, Coherent, Fits, OneWriterPerPackage, HoldersFit, Holding, Critical, Workers,
      FileStages, GameStages, RowStages, ImportStages, RevalidateStages, ManualStages
<1> QED
  BY <1>1, <1>3 DEF IInv

LEMMA EnvironmentStep == IInv /\ Environment => IInv'
<1> SUFFICES ASSUME IInv, Environment PROVE IInv'
  OBVIOUS
<1>1. UNCHANGED <<rows, locks, job, scan>>
  BY DEF Environment, WriteFile, RemoveFile, MoveFile, Tick
<1>2. Coherent'
  BY <1>1 DEF IInv, Coherent, Fits, OneWriterPerPackage, HoldersFit, Holding, LockOf
<1>3. DataOK'
  <2> USE DEF IInv, DataOK
  <2>1. ASSUME NEW p \in Paths, NEW k \in Kinds \ {"absent"}, NEW v \in Versions, NEW t \in 0..clock,
               WriteFile(p, k, v, t)
        PROVE  DataOK'
    BY <1>1, <2>1, DataAssumption DEF WriteFile, Outside, File
  <2>2. ASSUME NEW p \in Paths, RemoveFile(p)
        PROVE  DataOK'
    BY <1>1, <2>2 DEF RemoveFile, Outside, File, Nothing, Kinds
  <2>3. ASSUME NEW p \in Paths, NEW q \in Paths, MoveFile(p, q)
        PROVE  DataOK'
    BY <1>1, <2>3 DEF MoveFile, Outside, File, Nothing, Kinds
  <2>4. ASSUME Tick PROVE DataOK'
    BY <1>1, <2>4 DEF Tick
  <2> QED
    BY <2>1, <2>2, <2>3, <2>4 DEF Environment
<1> QED
  BY <1>2, <1>3 DEF IInv

\* Where a worker returns to is a job it can have, outside the mutex.
LEMMA BackFits ==
    ASSUME NEW w \in Workers
    PROVE  /\ Back(w) \in Job /\ Fits(w, Back(w)) /\ Back(w).at \notin Critical
           /\ Idle \in Job /\ Fits(w, Idle) /\ Idle.at \notin Critical
BY WorkersAssumption
DEF Back, Idle, Job, Stages, ScanStages, File, Nothing, Kinds, Critical, Fits, FileStages, GameStages,
    RowStages, ImportStages, RevalidateStages, ManualStages, Workers

\* A step that changes only jobs, mutexes and rows keeps the data typed when
\* it keeps the table typed.
LEMMA OnlyRows ==
    ASSUME DataOK, UNCHANGED <<disk, clock, pending, scan, ops>>,
           rows' \in [Packages -> Row \cup {NoRow}]
    PROVE  DataOK'
BY DEF DataOK

LEMMA ImportStep ==
    ASSUME IInv, NEW w \in Watchers \cup Scanners, Import(w)
    PROVE  IInv'
<1> DEFINE j == job[w]  g == job[w].game
<1> USE DEF IInv
<1>0. /\ w \in Workers /\ w \notin Admins
      /\ j \in Job /\ Fits(w, j)
      /\ Back(w) \in Job /\ Fits(w, Back(w)) /\ Back(w).at \notin Critical
      /\ rows \in [Packages -> Row \cup {NoRow}] /\ clock \in Nat /\ disk \in [Paths -> File]
  BY BackFits, WorkersAssumption DEF Workers, Coherent, DataOK
<1>a. ASSUME j.at \in {"stat", "inspect", "lockCorrupt", "flag", "unexpose", "store", "lockValid", "refresh", "insert"}
      PROVE  /\ j.at \in FileStages /\ j.file \in Paths
             /\ j.at \in GameStages => g \in Packages
  BY <1>0, <1>a DEF Fits, FileStages, ImportStages
<1> USE DEF Job, Fits, Stages, ImportStages, RevalidateStages, ScanStages, ManualStages, FileStages,
            GameStages, RowStages, Critical
<1>1. CASE ImportStat(w)
  <2> DEFINE k == IF Exists(j.file) THEN [j EXCEPT !.at = "inspect"] ELSE Back(w)
  <2>1. k \in Job /\ Fits(w, k) /\ k.at \notin Critical /\ j.at \notin Critical
    BY <1>0, <1>1 DEF ImportStat
  <2>2. Coherent'
    BY <1>0, <1>1, <2>1, KeepsLocks DEF ImportStat
  <2> QED
    BY <1>0, <1>1, <2>2, OnlyRows DEF ImportStat
<1>2. CASE ImportInspect(w)
  <2> DEFINE bad == [j EXCEPT !.at = "lockCorrupt", !.game = FileName[j.file]]
             good == [j EXCEPT !.at = "lockValid", !.game = Manifest[j.file], !.seen = disk[j.file]]
  <2>1. Becomes(w, bad) \/ Becomes(w, Back(w)) \/ Becomes(w, good)
    BY <1>2 DEF ImportInspect
  <2>2. j.file \in Paths /\ FileName[j.file] \in Packages /\ Manifest[j.file] \in Packages
    BY <1>0, <1>2, <1>a, DataAssumption DEF ImportInspect
  <2>3. /\ bad \in Job /\ Fits(w, bad) /\ bad.at \notin Critical
        /\ good \in Job /\ Fits(w, good) /\ good.at \notin Critical
        /\ j.at \notin Critical
    BY <1>0, <1>2, <2>2 DEF ImportInspect
  <2>4. Coherent'
    BY <1>0, <1>2, <2>1, <2>3, KeepsLocks DEF ImportInspect
  <2> QED
    BY <1>0, <1>2, <2>4, OnlyRows DEF ImportInspect
<1>3. CASE CorruptLock(w)
  <2> DEFINE k == [j EXCEPT !.at = IF rows[g] # NoRow /\ ~rows[g].corrupted THEN "flag" ELSE "store"]
  <2>1. k \in Job /\ Fits(w, k) /\ k.at \in Critical /\ j.at \notin Critical /\ k.game = g /\ g \in Packages
    BY <1>0, <1>3, <1>a DEF CorruptLock
  <2>2. Coherent'
    BY <1>0, <1>3, <2>1, TakesLock DEF CorruptLock, Goto
  <2> QED
    BY <1>0, <1>3, <2>2, OnlyRows DEF CorruptLock
<1>4. CASE CorruptFlag(w)
  <2> DEFINE k == [j EXCEPT !.at = "unexpose"]
             r == [rows[g] EXCEPT !.corrupted = TRUE, !.stamp = clock]
  <2>1. k \in Job /\ Fits(w, k) /\ k.at \in Critical /\ j.at \in Critical /\ k.game = g /\ g \in Packages
    BY <1>0, <1>4, <1>a DEF CorruptFlag
  <2>2. Coherent'
    BY <1>0, <1>4, <2>1, KeepsLocks DEF CorruptFlag, Goto
  <2>3. rows[g] # NoRow => r \in Row
    BY <1>0, <2>1, RowEdits
  <2>4. rows' \in [Packages -> Row \cup {NoRow}]
    BY <1>0, <1>4, <2>1, <2>3, UpdateType DEF CorruptFlag
  <2> QED
    BY <1>4, <2>2, <2>4, OnlyRows DEF CorruptFlag
<1>5. CASE CorruptUnexpose(w)
  <2>1. j.at \in Critical /\ g \in Packages
    BY <1>0, <1>5, <1>a DEF CorruptUnexpose
  <2>2. Coherent'
    BY <1>0, <1>5, <2>1, ReleasesLock DEF CorruptUnexpose
  <2>3. rows' \in [Packages -> Row \cup {NoRow}]
    BY <1>0, <1>5, <2>1, SetExposedType DEF CorruptUnexpose
  <2> QED
    BY <1>5, <2>2, <2>3, OnlyRows DEF CorruptUnexpose
<1>6. CASE CorruptStore(w)
  <2> DEFINE r == [exposed |-> FALSE, corrupted |-> TRUE, ver |-> 0, path |-> j.file, stamp |-> clock]
  <2>1. j.at \in Critical /\ g \in Packages /\ r \in Row
    BY <1>0, <1>6, <1>a DEF CorruptStore, Row
  <2>2. Coherent'
    BY <1>0, <1>6, <2>1, ReleasesLock DEF CorruptStore
  <2>3. rows' \in [Packages -> Row \cup {NoRow}]
    BY <1>0, <1>6, <2>1, InsertType DEF CorruptStore
  <2> QED
    BY <1>6, <2>2, <2>3, OnlyRows DEF CorruptStore
<1>7. CASE ValidLock(w)
  <2> DEFINE k == [j EXCEPT !.at = IF rows[g] = NoRow THEN "insert" ELSE "refresh"]
  <2>1. k \in Job /\ Fits(w, k) /\ k.at \in Critical /\ j.at \notin Critical /\ k.game = g /\ g \in Packages
    BY <1>0, <1>7, <1>a DEF ValidLock
  <2>2. Coherent'
    BY <1>0, <1>7, <2>1, TakesLock DEF ValidLock, Goto
  <2> QED
    BY <1>0, <1>7, <2>2, OnlyRows DEF ValidLock
<1>8. CASE ImportRefresh(w)
  <2> DEFINE r == [rows[g] EXCEPT !.exposed = TRUE, !.stamp = clock, !.path = j.file]
  <2>1. j.at \in Critical /\ g \in Packages /\ j.file \in Paths
    BY <1>0, <1>8, <1>a DEF ImportRefresh
  <2>2. Coherent'
    BY <1>0, <1>8, <2>1, ReleasesLock DEF ImportRefresh
  <2>3. rows[g] # NoRow => r \in Row
    BY <1>0, <2>1, RowEdits
  <2>4. rows' \in [Packages -> Row \cup {NoRow}]
    BY <1>0, <1>8, <2>1, <2>3, UpdateType DEF ImportRefresh
  <2> QED
    BY <1>8, <2>2, <2>4, OnlyRows DEF ImportRefresh
<1>9. CASE ImportInsert(w)
  <2> DEFINE bad == disk[j.file].kind = "badobb"
             r == [exposed |-> ~bad, corrupted |-> bad, ver |-> j.seen.ver, path |-> j.file, stamp |-> clock]
  <2>1. j.at \in Critical /\ g \in Packages /\ j.file \in Paths
    BY <1>0, <1>9, <1>a DEF ImportInsert
  <2>2. r \in Row
    BY <1>0, <2>1 DEF Row, File
  <2>3. Coherent'
    BY <1>0, <1>9, <2>1, ReleasesLock DEF ImportInsert
  <2>4. rows' \in [Packages -> Row \cup {NoRow}]
    BY <1>0, <1>9, <2>1, <2>2, InsertType DEF ImportInsert
  <2> QED
    BY <1>9, <2>3, <2>4, OnlyRows DEF ImportInsert
<1> QED
  BY <1>1, <1>2, <1>3, <1>4, <1>5, <1>6, <1>7, <1>8, <1>9 DEF Import

LEMMA RevalidateStep ==
    ASSUME IInv, NEW s \in Scanners, Revalidate(s)
    PROVE  IInv'
<1> DEFINE j == job[s]  g == job[s].game
<1> USE DEF IInv
<1>0. /\ s \in Watchers \cup Scanners /\ s \in Workers /\ s \notin Admins /\ s \notin Watchers
      /\ j \in Job /\ Fits(s, j)
      /\ Back(s) \in Job /\ Fits(s, Back(s)) /\ Back(s).at \notin Critical
      /\ rows \in [Packages -> Row \cup {NoRow}] /\ clock \in Nat /\ disk \in [Paths -> File]
  BY BackFits, WorkersAssumption DEF Workers, Coherent, DataOK
<1>a. ASSUME j.at \in RevalidateStages
      PROVE  /\ j.file \in Paths /\ g \in Packages
             /\ j.at # "rlock" => j.row \in Row /\ j.at \in Critical
  BY <1>0, <1>a DEF Fits, FileStages, GameStages, RowStages, RevalidateStages, Critical
<1> USE DEF Job, Fits, Stages, ImportStages, RevalidateStages, ScanStages, ManualStages, FileStages,
            GameStages, RowStages, Critical
<1>1. CASE RevalidateLock(s)
  <2> DEFINE k == [j EXCEPT !.at = "rstat", !.row = rows[g]]
  <2>1. j.at \notin Critical /\ g \in Packages
    BY <1>1, <1>a DEF RevalidateLock
  <2>2. CASE rows[g] = NoRow
    <3>1. Coherent'
      BY <1>0, <1>1, <2>1, <2>2, KeepsLocks DEF RevalidateLock
    <3> QED
      BY <1>0, <1>1, <3>1, OnlyRows DEF RevalidateLock
  <2>3. CASE rows[g] # NoRow
    <3>1. k \in Job /\ Fits(s, k) /\ k.at \in Critical /\ k.game = g
      BY <1>0, <1>1, <1>a, <2>1, <2>3 DEF RevalidateLock
    <3>2. Coherent'
      BY <1>0, <1>1, <2>1, <2>3, <3>1, TakesLock DEF RevalidateLock
    <3> QED
      BY <1>0, <1>1, <3>2, OnlyRows DEF RevalidateLock
  <2> QED
    BY <2>2, <2>3
<1>2. CASE RevalidateUnchanged(s)
  <2>1. j.at \in Critical /\ g \in Packages /\ j.file \in Paths
    BY <1>2, <1>a DEF RevalidateUnchanged
  <2>2. Coherent'
    BY <1>0, <1>2, <2>1, ReleasesLock DEF RevalidateUnchanged
  <2>3. rows[g] # NoRow => [rows[g] EXCEPT !.path = j.file, !.stamp = clock] \in Row
    BY <1>0, <2>1, RowEdits
  <2>4. rows' \in [Packages -> Row \cup {NoRow}]
    BY <1>0, <1>2, <2>1, <2>3, UpdateType DEF RevalidateUnchanged
  <2> QED
    BY <1>2, <2>2, <2>4, OnlyRows DEF RevalidateUnchanged
<1>3. CASE RevalidateGone(s)
  <2>1. Coherent'
    BY <1>0, <1>3, ReleasesLock DEF RevalidateGone
  <2> QED
    BY <1>0, <1>3, <2>1, OnlyRows DEF RevalidateGone
<1>4. CASE RevalidateChanged(s)
  <2> DEFINE k == [j EXCEPT !.at = "rcheck", !.seen = [Nothing EXCEPT !.mtime = disk[j.file].mtime]]
  <2>1. j.at \in Critical /\ j.file \in Paths /\ g \in Packages /\ j.row \in Row
    BY <1>4, <1>a DEF RevalidateChanged
  <2>2. [Nothing EXCEPT !.mtime = disk[j.file].mtime] \in File
    BY <1>0, <2>1 DEF Nothing, File, Kinds
  <2>3. k \in Job /\ Fits(s, k) /\ k.at \in Critical /\ k.game = g
    BY <1>0, <2>1, <2>2
  <2>4. Coherent'
    BY <1>0, <1>4, <2>1, <2>3, KeepsLocks DEF RevalidateChanged
  <2> QED
    BY <1>0, <1>4, <2>4, OnlyRows DEF RevalidateChanged
<1>5. CASE RevalidateCheck(s)
  <2> DEFINE k == [j EXCEPT !.at = "rwrite", !.seen = Verdict(s)]
  <2>1. j.at \in Critical /\ j.file \in Paths /\ g \in Packages /\ j.row \in Row
    BY <1>5, <1>a DEF RevalidateCheck
  <2>2. Verdict(s) \in File
    BY <1>0, <2>1 DEF Verdict, File
  <2>3. k \in Job /\ Fits(s, k) /\ k.at \in Critical /\ k.game = g
    BY <1>0, <2>1, <2>2
  <2>4. Coherent'
    BY <1>0, <1>5, <2>1, <2>3, KeepsLocks DEF RevalidateCheck
  <2> QED
    BY <1>0, <1>5, <2>4, OnlyRows DEF RevalidateCheck
<1>6. CASE RevalidateWrite(s)
  <2> DEFINE f == j.seen
             r == [exposed |-> ~IsBad(f), corrupted |-> IsBad(f), ver |-> VersionAfter(s),
                   path |-> j.file, stamp |-> f.mtime]
  <2>1. j.at \in Critical /\ j.file \in Paths /\ g \in Packages /\ f \in File
    BY <1>0, <1>6, <1>a DEF RevalidateWrite
  <2>2. Coherent'
    BY <1>0, <1>6, <2>1, ReleasesLock DEF RevalidateWrite
  <2>3. ASSUME rows[g] # NoRow PROVE r \in Row
    <3>1. rows[g].ver \in Nat /\ f.ver \in Nat /\ f.mtime \in Nat
      BY <1>0, <2>1, <2>3 DEF Row, File
    <3>2. VersionAfter(s) \in Nat
      BY <3>1 DEF VersionAfter
    <3>3. IsBad(f) \in BOOLEAN
      BY DEF IsBad
    <3> QED
      BY <2>1, <3>1, <3>2, <3>3 DEF Row
  <2>4. rows' \in [Packages -> Row \cup {NoRow}]
    BY <1>0, <1>6, <2>1, <2>3, UpdateType DEF RevalidateWrite
  <2> QED
    BY <1>6, <2>2, <2>4, OnlyRows DEF RevalidateWrite
<1> QED
  BY <1>1, <1>2, <1>3, <1>4, <1>5, <1>6 DEF Revalidate

\* Storing a well-formed rescan state keeps the data typed, if the table stays typed.
LEMMA OnlyScan ==
    ASSUME DataOK, UNCHANGED <<disk, clock, rows, pending>>, ops' \in Nat,
           NEW s \in Scanners, NEW c \in Scan, SetScan(s, c)
    PROVE  DataOK'
BY DEF DataOK, SetScan

LEMMA RescanStep ==
    ASSUME IInv, NEW s \in Scanners, Rescan(s)
    PROVE  IInv'
<1> DEFINE j == job[s]  c == scan[s]
<1> USE DEF IInv
<1>0. /\ s \in Workers /\ s \notin Admins /\ s \notin Watchers
      /\ j \in Job /\ Fits(s, j)
      /\ Idle \in Job /\ Fits(s, Idle) /\ Idle.at \notin Critical
      /\ rows \in [Packages -> Row \cup {NoRow}] /\ clock \in Nat /\ ops \in Nat
      /\ c \in Scan
  BY BackFits, WorkersAssumption DEF Workers, Coherent, DataOK
<1> USE DEF Job, Fits, Stages, ImportStages, RevalidateStages, ScanStages, ManualStages, FileStages,
            GameStages, RowStages, Critical, Scan
<1>1. ASSUME NEW f \in Folders, ScanFolder(s, f)
      PROVE  IInv'
  <2>1. PICK d \in Scan : SetScan(s, d)
    <3> DEFINE listed == [c EXCEPT !.unlisted = @ \ {f}, !.listed = @ \cup {p \in Paths : FolderOf[p] = f /\ Exists(p)}]
               missed == [c EXCEPT !.unlisted = @ \ {f}]
    <3>1. listed \in Scan /\ missed \in Scan
      BY <1>0
    <3> QED
      BY <1>1, <3>1 DEF ScanFolder
  <2>2. DataOK'
    BY <1>0, <1>1, <2>1, OnlyScan DEF ScanFolder
  <2>3. Coherent'
    BY <1>1 DEF ScanFolder, Coherent, OneWriterPerPackage, HoldersFit, Holding, LockOf
  <2> QED
    BY <2>2, <2>3
<1>2. CASE ScanKnown(s)
  <2> DEFINE k == [j EXCEPT !.at = "next"]
             d == [c EXCEPT !.todo = c.listed, !.known = {g \in Packages : rows[g] # NoRow}]
  <2>0. {g \in Packages : rows[g] # NoRow} \in SUBSET Packages /\ c.listed \in SUBSET Paths
    BY <1>0
  <2>1. d \in Scan
    BY <1>0, <2>0
  <2>1a. k \in Job /\ Fits(s, k) /\ k.at \notin Critical /\ j.at \notin Critical
    BY <1>0, <1>2 DEF ScanKnown
  <2>2. Coherent'
    BY <1>0, <1>2, <2>1a, KeepsLocks DEF ScanKnown, Goto
  <2>3. DataOK'
    BY <1>0, <1>2, <2>1, OnlyScan DEF ScanKnown
  <2> QED
    BY <2>2, <2>3
<1>3. ASSUME NEW p \in Paths, ScanFile(s, p)
      PROVE  IInv'
  <2> DEFINE d == [c EXCEPT !.todo = @ \ {p}, !.found = @ \cup FoundAt(p)]
             reval == [Idle EXCEPT !.at = "rlock", !.file = p, !.game = Manifest[p]]
             import == [Idle EXCEPT !.at = "stat", !.file = p]
  <2>1. FoundAt(p) \subseteq Packages /\ Manifest[p] \in Packages
    BY DataAssumption DEF FoundAt
  <2>2. d \in Scan
    BY <1>0, <2>1
  <2>3. /\ reval \in Job /\ Fits(s, reval) /\ reval.at \notin Critical
        /\ import \in Job /\ Fits(s, import) /\ import.at \notin Critical
        /\ j.at \notin Critical
    BY <1>0, <1>3, <2>1 DEF ScanFile, Idle
  <2>4. UNCHANGED job \/ Becomes(s, reval) \/ Becomes(s, import)
    BY <1>3 DEF ScanFile
  <2>5. Coherent'
    <3>1. CASE UNCHANGED job
      BY <1>3, <3>1 DEF ScanFile, Coherent, OneWriterPerPackage, HoldersFit, Holding, LockOf
    <3>2. CASE Becomes(s, reval) \/ Becomes(s, import)
      BY <1>0, <1>3, <2>3, <3>2, KeepsLocks DEF ScanFile
    <3> QED
      BY <2>4, <3>1, <3>2
  <2>6. DataOK'
    BY <1>0, <1>3, <2>2, OnlyScan DEF ScanFile
  <2> QED
    BY <2>5, <2>6
<1>4. CASE ScanPrune(s)
  <2> DEFINE k == [j EXCEPT !.at = "prune"]
             d == [c EXCEPT !.doomed = c.known \ c.found]
  <2>1. d \in Scan
    BY <1>0
  <2>2. k \in Job /\ Fits(s, k) /\ k.at \notin Critical /\ j.at \notin Critical
    BY <1>0, <1>4 DEF ScanPrune
  <2>3. Coherent'
    BY <1>0, <1>4, <2>2, KeepsLocks DEF ScanPrune, Goto
  <2>4. DataOK'
    BY <1>0, <1>4, <2>1, OnlyScan DEF ScanPrune
  <2> QED
    BY <2>3, <2>4
<1>5. ASSUME NEW g \in Packages, PruneRead(s, g)
      PROVE  IInv'
  <2> DEFINE d == [c EXCEPT !.doomed = @ \ {g}]
             hide == [Idle EXCEPT !.at = "hide", !.game = g]
             drop == [Idle EXCEPT !.at = "drop", !.game = g]
  <2>1. d \in Scan
    BY <1>0
  <2>2. /\ hide \in Job /\ Fits(s, hide) /\ hide.at \notin Critical
        /\ drop \in Job /\ Fits(s, drop) /\ drop.at \notin Critical
        /\ j.at \notin Critical
    BY <1>0, <1>5 DEF PruneRead, Idle
  <2>3. UNCHANGED job \/ Becomes(s, hide) \/ Becomes(s, drop)
    BY <1>5 DEF PruneRead
  <2>4. Coherent'
    <3>1. CASE UNCHANGED job
      BY <1>5, <3>1 DEF PruneRead, Coherent, OneWriterPerPackage, HoldersFit, Holding, LockOf
    <3>2. CASE Becomes(s, hide) \/ Becomes(s, drop)
      BY <1>0, <1>5, <2>2, <3>2, KeepsLocks DEF PruneRead
    <3> QED
      BY <2>3, <3>1, <3>2
  <2>5. DataOK'
    BY <1>0, <1>5, <2>1, OnlyScan DEF PruneRead
  <2> QED
    BY <2>4, <2>5
<1>6. CASE PruneHide(s)
  <2> DEFINE k == [Idle EXCEPT !.at = "prune"]
  <2>1. /\ k \in Job /\ Fits(s, k) /\ k.at \notin Critical
        /\ j.at \notin Critical /\ j.game \in Packages
    BY <1>0, <1>6 DEF PruneHide, Idle
  <2>2. Coherent'
    BY <1>0, <1>6, <2>1, KeepsLocks DEF PruneHide
  <2>3. rows' \in [Packages -> Row \cup {NoRow}]
    BY <1>0, <1>6, <2>1, SetExposedType DEF PruneHide
  <2> QED
    BY <1>6, <2>2, <2>3, OnlyRows DEF PruneHide
<1>7. CASE PruneDrop(s)
  <2> DEFINE k == [Idle EXCEPT !.at = "prune"]
  <2>1. k \in Job /\ Fits(s, k) /\ k.at \notin Critical /\ j.at \notin Critical
    BY <1>0, <1>7 DEF PruneDrop, Idle
  <2>2. Coherent'
    BY <1>0, <1>7, <2>1, KeepsLocks DEF PruneDrop
  <2>3. rows' \in [Packages -> Row \cup {NoRow}]
    BY <1>0, <1>7 DEF PruneDrop
  <2> QED
    BY <1>7, <2>2, <2>3, OnlyRows DEF PruneDrop
<1>8. CASE ScanEnd(s)
  <2>1. NoScan \in Scan /\ j.at \notin Critical
    BY <1>8 DEF ScanEnd, NoScan
  <2>2. Coherent'
    BY <1>0, <1>8, <2>1, KeepsLocks DEF ScanEnd
  <2>3. DataOK'
    BY <1>0, <1>8, <2>1, OnlyScan DEF ScanEnd
  <2> QED
    BY <2>2, <2>3
<1> QED
  BY <1>1, <1>2, <1>3, <1>4, <1>5, <1>6, <1>7, <1>8 DEF Rescan

LEMMA WatchEventStep ==
    ASSUME IInv, NEW w \in Watchers, NEW p \in Paths, WatchEvent(w, p)
    PROVE  IInv'
<1> DEFINE k == [Idle EXCEPT !.at = "stat", !.file = p]
<1> USE DEF IInv
<1>1. /\ w \in Workers /\ w \notin Admins /\ w \notin Scanners
      /\ Idle \in Job
  BY BackFits, WorkersAssumption DEF Workers
<1>2. k \in Job /\ Fits(w, k) /\ k.at \notin Critical /\ job[w].at \notin Critical
  BY <1>1
  DEF WatchEvent, Idle, Job, Fits, Stages, ImportStages, RevalidateStages, ManualStages, FileStages,
      GameStages, RowStages, Critical
<1>3. Becomes(w, k) \/ UNCHANGED job
  BY DEF WatchEvent
<1>4. Coherent'
  <2>1. CASE Becomes(w, k)
    BY <1>1, <1>2, <2>1, KeepsLocks DEF WatchEvent
  <2>2. CASE UNCHANGED job
    BY <2>2 DEF WatchEvent, Coherent, OneWriterPerPackage, HoldersFit, Holding, LockOf
  <2> QED
    BY <1>3, <2>1, <2>2
<1>5. DataOK'
  BY DEF DataOK, WatchEvent
<1> QED
  BY <1>4, <1>5

LEMMA ManualStep ==
    ASSUME IInv, NEW a \in Admins, Manual(a)
    PROVE  IInv'
<1> DEFINE j == job[a]
<1> USE DEF IInv
<1>0. /\ a \in Workers /\ a \notin Watchers /\ a \notin Scanners
      /\ j \in Job /\ Fits(a, j)
      /\ Idle \in Job /\ Fits(a, Idle) /\ Idle.at \notin Critical
      /\ rows \in [Packages -> Row \cup {NoRow}] /\ clock \in Nat /\ disk \in [Paths -> File]
  BY BackFits, WorkersAssumption DEF Workers, Coherent, DataOK
<1> USE DEF Job, Fits, Stages, ImportStages, RevalidateStages, ScanStages, ManualStages, FileStages,
            GameStages, RowStages, Critical
<1>1. CASE ManualHide(a)
  <2>1. j.game \in Packages /\ j.at \notin Critical
    BY <1>0, <1>1 DEF ManualHide
  <2>2. Coherent'
    BY <1>0, <1>1, <2>1, KeepsLocks DEF ManualHide
  <2>3. rows' \in [Packages -> Row \cup {NoRow}]
    BY <1>0, <1>1, <2>1, SetExposedType DEF ManualHide
  <2> QED
    BY <1>1, <2>2, <2>3, OnlyRows DEF ManualHide
<1>2. CASE ManualStat(a)
  <2> DEFINE f == [Nothing EXCEPT !.mtime = disk[j.file].mtime]
             k == IF Exists(j.file) THEN [j EXCEPT !.at = "mcheck", !.seen = f] ELSE Idle
  <2>1. j.file \in Paths /\ j.at \notin Critical
    BY <1>0, <1>2 DEF ManualStat
  <2>2. f \in File
    BY <1>0, <2>1 DEF Nothing, File, Kinds
  <2>3. k \in Job /\ Fits(a, k) /\ k.at \notin Critical
    BY <1>0, <1>2, <2>1, <2>2 DEF ManualStat
  <2>4. Coherent'
    BY <1>0, <1>2, <2>1, <2>3, KeepsLocks DEF ManualStat
  <2> QED
    BY <1>0, <1>2, <2>4, OnlyRows DEF ManualStat
<1>3. CASE ManualCheck(a)
  <2> DEFINE k == [j EXCEPT !.at = "mwrite", !.seen = Verdict(a)]
  <2>1. j.file \in Paths /\ j.at \notin Critical
    BY <1>0, <1>3 DEF ManualCheck
  <2>2. Verdict(a) \in File
    BY <1>0, <2>1 DEF Verdict, File
  <2>3. k \in Job /\ Fits(a, k) /\ k.at \notin Critical
    BY <1>0, <1>3, <2>2 DEF ManualCheck
  <2>4. Coherent'
    BY <1>0, <1>3, <2>1, <2>3, KeepsLocks DEF ManualCheck
  <2> QED
    BY <1>0, <1>3, <2>4, OnlyRows DEF ManualCheck
<1>4. CASE ManualWrite(a)
  <2> DEFINE f == j.seen  g == j.game
             v == IF f.kind = "valid" THEN f.ver ELSE j.row.ver
             r == [rows[g] EXCEPT !.exposed = ~IsBad(f), !.corrupted = IsBad(f), !.ver = v, !.stamp = f.mtime]
  <2>1. /\ g \in Packages /\ j.file \in Paths /\ j.row \in Row /\ f \in File
        /\ j.at \notin Critical
    BY <1>0, <1>4 DEF ManualWrite
  <2>2. v \in Nat /\ f.mtime \in Nat /\ IsBad(f) \in BOOLEAN
    BY <2>1 DEF Row, File, IsBad
  <2>3. ASSUME rows[g] # NoRow PROVE r \in Row
    <3>1. rows[g] \in Row
      BY <1>0, <2>1, <2>3
    <3> QED
      BY <2>1, <2>2, <3>1 DEF Row
  <2>4. Coherent'
    BY <1>0, <1>4, <2>1, KeepsLocks DEF ManualWrite
  <2>5. rows' \in [Packages -> Row \cup {NoRow}]
    BY <1>0, <1>4, <2>1, <2>3, UpdateType DEF ManualWrite
  <2> QED
    BY <1>4, <2>4, <2>5, OnlyRows DEF ManualWrite
<1> QED
  BY <1>1, <1>2, <1>3, <1>4 DEF Manual

LEMMA RequestsStep == IInv /\ Requests => IInv'
<1> SUFFICES ASSUME IInv, Requests PROVE IInv'
  OBVIOUS
<1> USE DEF IInv
<1>0. /\ rows \in [Packages -> Row \cup {NoRow}] /\ clock \in Nat /\ ops \in Nat
      /\ \A x \in Workers : /\ job[x] \in Job /\ Fits(x, job[x])
                            /\ Idle \in Job /\ Fits(x, Idle) /\ Idle.at \notin Critical
                            /\ Back(x) \in Job /\ Fits(x, Back(x)) /\ Back(x).at \notin Critical
  BY BackFits DEF Coherent, DataOK
<1>1. ASSUME NEW s \in Scanners, ScanStart(s) PROVE IInv'
  <2> DEFINE k == [job[s] EXCEPT !.at = "list"]
             c == [NoScan EXCEPT !.unlisted = Folders]
  <2>1. s \in Workers /\ s \notin Watchers /\ s \notin Admins
    BY WorkersAssumption DEF Workers
  <2>2. k \in Job /\ Fits(s, k) /\ k.at \notin Critical /\ job[s].at \notin Critical
    BY <1>0, <1>1, <2>1
    DEF ScanStart, Job, Fits, Stages, ImportStages, RevalidateStages, ScanStages, ManualStages,
        FileStages, GameStages, RowStages, Critical
  <2>3. c \in Scan /\ ops' \in Nat
    BY <1>0, <1>1 DEF ScanStart, Outside, Scan, NoScan
  <2>4. Coherent'
    BY <1>1, <2>1, <2>2, KeepsLocks DEF ScanStart, Goto
  <2>5. DataOK'
    BY <1>1, <2>3, OnlyScan DEF ScanStart
  <2> QED
    BY <2>4, <2>5
<1>2. ASSUME NEW s \in Scanners, ScanCancel(s) PROVE IInv'
  <2>1. s \in Workers /\ NoScan \in Scan /\ ops' \in Nat
    BY <1>0, <1>2 DEF ScanCancel, Workers, Scan, NoScan, Outside
  <2>4. PICK j \in Job : Becomes(s, j) /\ Fits(s, j) /\ j.at \notin Critical
    BY <1>0, <1>2, <2>1 DEF ScanCancel
  <2>5. ASSUME job[s].at \in {"next", "rlock"}, UNCHANGED locks PROVE Coherent'
    <3>1. job[s].at \notin Critical
      BY <2>5 DEF Critical
    <3> QED
      BY <1>0, <2>1, <2>4, <2>5, <3>1, KeepsLocks
  <2>6. ASSUME Transacts(s), Release(s) PROVE Coherent'
    <3>1. job[s].at \in Critical
      BY <2>6 DEF Transacts, Critical
    <3> QED
      BY <1>0, <2>1, <2>4, <2>6, <3>1, ReleasesLock
  <2>2. Coherent'
    BY <1>2, <2>5, <2>6 DEF ScanCancel
  <2>3. DataOK'
    BY <1>2, <2>1 DEF ScanCancel, DataOK, SetScan
  <2> QED
    BY <2>2, <2>3
<1>3. ASSUME NEW a \in Admins, NEW g \in Packages, ManualStart(a, g) PROVE IInv'
  <2> DEFINE hide == [Idle EXCEPT !.at = "mhide", !.game = g]
             check(p) == [Idle EXCEPT !.at = "mstat", !.game = g, !.file = p, !.row = rows[g]]
  <2>1. a \in Workers /\ a \notin Watchers /\ a \notin Scanners
    BY WorkersAssumption DEF Workers
  <2>2. PICK k \in Job : Fits(a, k) /\ k.at \notin Critical /\ Becomes(a, k)
    <3>1. hide \in Job /\ Fits(a, hide) /\ hide.at \notin Critical
      BY <1>0, <2>1
      DEF Idle, Job, Fits, Stages, ImportStages, RevalidateStages, ManualStages, FileStages,
          GameStages, RowStages, Critical
    <3>2. ASSUME NEW p \in Paths
          PROVE  check(p) \in Job /\ Fits(a, check(p)) /\ check(p).at \notin Critical
      <4>1. rows[g] \in Row
        BY <1>0, <1>3 DEF ManualStart
      <4> QED
        BY <1>0, <2>1, <4>1
        DEF Idle, Job, Fits, Stages, ImportStages, RevalidateStages, ManualStages, FileStages,
            GameStages, RowStages, Critical
    <3>3. Becomes(a, hide) \/ \E p \in Paths : Becomes(a, check(p))
      BY <1>3 DEF ManualStart
    <3> QED
      BY <3>1, <3>2, <3>3
  <2>3. job[a].at \notin Critical
    BY <1>3 DEF ManualStart, Critical
  <2>4. Coherent'
    BY <1>3, <2>1, <2>2, <2>3, KeepsLocks DEF ManualStart
  <2>5. UNCHANGED <<disk, clock, rows, pending, scan>> /\ Outside
    BY <1>3 DEF ManualStart
  <2>6. DataOK'
    BY <2>5 DEF DataOK, Outside
  <2> QED
    BY <2>4, <2>6
<1>4. ASSUME NEW g \in Packages, NEW e \in BOOLEAN, Toggle(g, e) PROVE IInv'
  <2>1. rows' \in [Packages -> Row \cup {NoRow}]
    BY <1>0, <1>4, SetExposedType DEF Toggle
  <2>2. DataOK'
    BY <1>0, <1>4, <2>1 DEF Toggle, Outside, DataOK
  <2>3. Coherent'
    BY <1>4 DEF Toggle, Coherent, OneWriterPerPackage, HoldersFit, Holding, LockOf
  <2> QED
    BY <2>2, <2>3
<1>5. ASSUME NEW g \in Packages, DeleteRequest(g) PROVE IInv'
  <2>1. DataOK'
    BY <1>0, <1>5 DEF DeleteRequest, Outside, DataOK
  <2>2. Coherent'
    BY <1>5 DEF DeleteRequest, Coherent, OneWriterPerPackage, HoldersFit, Holding, LockOf
  <2> QED
    BY <2>1, <2>2
<1> QED
  BY <1>1, <1>2, <1>3, <1>4, <1>5 DEF Requests

LEMMA CrashStep == IInv /\ Crash => IInv'
<1> SUFFICES ASSUME IInv, Crash PROVE IInv'
  OBVIOUS
<1> USE DEF IInv
<1>1. DataOK'
  BY DEF Crash, Outside, DataOK, Scan, NoScan
<1>2. /\ job' \in [Workers -> Job]
      /\ \A x \in Workers : job'[x] = Idle /\ Fits(x, Idle) /\ Idle.at \notin Critical
  BY BackFits DEF Crash
<1>3. /\ locks' \in [Managers \X Packages -> Workers \cup {NoWorker}]
      /\ \A m \in Managers, g \in Packages : locks'[<<m, g>>] = NoWorker
  BY DEF Crash, Coherent
<1>4. Coherent'
  BY <1>2, <1>3 DEF Coherent, Fits, OneWriterPerPackage, HoldersFit, Holding, Workers
<1> QED
  BY <1>1, <1>4

LEMMA Inductive == IInv /\ [Next]_vars => IInv'
<1> SUFFICES ASSUME IInv, [Next]_vars PROVE IInv'
  OBVIOUS
<1>1. ASSUME NEW w \in Watchers, WatchStep(w) PROVE IInv'
  BY <1>1, ImportStep, WatchEventStep DEF WatchStep
<1>2. ASSUME NEW s \in Scanners, ScanStep(s) PROVE IInv'
  BY <1>2, ImportStep, RevalidateStep, RescanStep DEF ScanStep
<1>3. CASE UNCHANGED vars
  BY <1>3 DEF vars, IInv, DataOK, Coherent, Fits, OneWriterPerPackage, HoldersFit, Holding, LockOf
<1> QED
  BY <1>1, <1>2, <1>3, EnvironmentStep, ManualStep, RequestsStep, CrashStep DEF Next

----------------------------------------------------------------------------
(* The theorems. *)

\* Mutexes and the locals of the calls that hold them fit together in every
\* reachable state (ImportAPK, RevalidateGame).
THEOREM Invariance == Spec => []IInv
BY InitHolds, Inductive, PTL DEF Spec

\* The table, the mutexes and the workers keep their types.
THEOREM TypeCorrect == Spec => []TypeOK
<1>1. IInv => TypeOK
  BY DEF IInv, DataOK, Coherent, TypeOK
<1> QED
  BY <1>1, Invariance, PTL

\* For any number of watchers, rescans and managers: a call of ImportAPK or
\* RevalidateGame that has read a row holds the mutex of its package until it
\* has written, and every held mutex is held by such a call.
THEOREM MutexProtectsRow == Spec => []OneWriterPerPackage
<1>1. IInv => OneWriterPerPackage
  BY DEF IInv, Coherent
<1> QED
  BY <1>1, Invariance, PTL

----------------------------------------------------------------------------
(* Inserts: rows appear only under the mutex. *)

\* No UPDATE and no DELETE makes a row appear.
LEMMA NoRowStays ==
    ASSUME NEW h \in Packages, rows \in [Packages -> Row \cup {NoRow}],
           \/ \E g \in Packages, e \in BOOLEAN : SetExposed(g, e)
           \/ \E g \in Packages : \E row : Update(g, row)
           \/ \E g \in Packages : rows' = [rows EXCEPT ![g] = NoRow]
           \/ UNCHANGED rows,
           rows[h] = NoRow
    PROVE  rows'[h] = NoRow
BY DEF SetExposed, Update

\* A row appears only through the INSERT of an import of its package.
LEMMA RowsAppear ==
    ASSUME IInv, [Next]_vars, NEW h \in Packages, rows[h] = NoRow, rows'[h] # NoRow
    PROVE  \E x \in Watchers \cup Scanners : Inserts(x) /\ job[x].game = h
<1> DEFINE Edits == \/ \E g \in Packages, e \in BOOLEAN : SetExposed(g, e)
                    \/ \E g \in Packages : \E row : Update(g, row)
                    \/ \E g \in Packages : rows' = [rows EXCEPT ![g] = NoRow]
                    \/ UNCHANGED rows
<1>0. /\ rows \in [Packages -> Row \cup {NoRow}]
      /\ \A x \in Workers : job[x].at \in GameStages => job[x].game \in Packages
  BY DEF IInv, DataOK, Coherent, Fits
<1>1. ~Edits
  BY <1>0, NoRowStays
<1>2. ASSUME NEW x \in Watchers \cup Scanners, Import(x), ~Inserts(x)
      PROVE  Edits
  <2>1. job[x].at \in {"flag", "unexpose", "refresh"} => job[x].game \in Packages
    BY <1>0 DEF Workers, GameStages, Critical
  <2> QED
    BY <1>2, <2>1
    DEF Import, ImportStat, ImportInspect, CorruptLock, CorruptFlag, CorruptUnexpose, ValidLock,
        ImportRefresh, Inserts
<1>3. ASSUME NEW s \in Scanners, Revalidate(s)
      PROVE  Edits
  <2>1. job[s].at \in {"rstat", "rwrite"} => job[s].game \in Packages
    BY <1>0 DEF Workers, GameStages, Critical
  <2> QED
    BY <1>3, <2>1
    DEF Revalidate, RevalidateLock, RevalidateUnchanged, RevalidateGone, RevalidateChanged,
        RevalidateCheck, RevalidateWrite
<1>4. ASSUME NEW s \in Scanners, Rescan(s)
      PROVE  Edits
  <2>1. job[s].at \in {"hide", "drop"} => job[s].game \in Packages
    BY <1>0 DEF Workers, GameStages
  <2> QED
    BY <1>4, <2>1
    DEF Rescan, ScanFolder, ScanKnown, ScanFile, ScanPrune, PruneRead, PruneHide, PruneDrop, ScanEnd
<1>5. ASSUME NEW a \in Admins, Manual(a)
      PROVE  Edits
  <2>1. job[a].at \in {"mhide", "mwrite"} => job[a].game \in Packages
    BY <1>0 DEF Workers, GameStages, ManualStages
  <2> QED
    BY <1>5, <2>1 DEF Manual, ManualHide, ManualStat, ManualCheck, ManualWrite
<1>6. ASSUME Requests PROVE Edits
  BY <1>6 DEF Requests, ScanStart, ScanCancel, ManualStart, Toggle, DeleteRequest
<1>7. ASSUME Environment \/ Crash \/ UNCHANGED vars \/ \E w \in Watchers, p \in Paths : WatchEvent(w, p)
      PROVE  Edits
  BY <1>7 DEF Environment, WriteFile, RemoveFile, MoveFile, Tick, Crash, vars, WatchEvent
<1>8. PICK x \in Watchers \cup Scanners : Inserts(x)
  BY <1>1, <1>2, <1>3, <1>4, <1>5, <1>6, <1>7 DEF Next, WatchStep, ScanStep
<1>9. job[x].game = h
  BY <1>0, <1>8 DEF Inserts, CorruptStore, ImportInsert, Insert
<1> QED
  BY <1>8, <1>9

\* A worker that is about to insert was so before the step, or has just found
\* that there is no row.
LEMMA InsertEntered ==
    ASSUME IInv, [Next]_vars, NEW w \in Watchers \cup Scanners, job'[w].at = "insert"
    PROVE  \/ job'[w] = job[w]
           \/ rows[job'[w].game] = NoRow /\ UNCHANGED rows
<1>1. job \in [Workers -> Job] /\ w \in Workers /\ w \notin Admins
  BY WorkersAssumption DEF IInv, Coherent, Workers
<1> DEFINE Moves == job'[w] = job[w] \/ job'[w].at # "insert"
<1>2. ASSUME NEW x \in Workers, NEW k, Becomes(x, k), k.at # "insert"
      PROVE  Moves
  BY <1>1, <1>2 DEF Becomes
<1>3. ASSUME NEW x \in Workers
      PROVE  /\ Back(x).at # "insert" /\ Idle.at # "insert" /\ job[x] \in Job
             /\ \A at \in Stages : [job[x] EXCEPT !.at = at].at = at
             /\ \A at \in Stages : [Idle EXCEPT !.at = at].at = at
  BY <1>1 DEF Back, Idle, Job
<1>4. ASSUME NEW x \in Watchers \cup Scanners, Import(x), ~ValidLock(x)
      PROVE  Moves
  <2>1. x \in Workers
    BY DEF Workers
  <2>2. CASE ImportStat(x)
    BY <1>2, <1>3, <2>1, <2>2 DEF ImportStat, Job
  <2>3. CASE ImportInspect(x)
    <3> DEFINE bad == [job[x] EXCEPT !.at = "lockCorrupt", !.game = FileName[job[x].file]]
               good == [job[x] EXCEPT !.at = "lockValid", !.game = Manifest[job[x].file],
                                      !.seen = disk[job[x].file]]
    <3>1. Becomes(x, bad) \/ Becomes(x, Back(x)) \/ Becomes(x, good)
      BY <2>3 DEF ImportInspect
    <3>2. bad.at # "insert" /\ good.at # "insert"
      BY <1>3, <2>1 DEF Job
    <3> QED
      BY <1>2, <1>3, <2>1, <3>1, <3>2
  <2>4. CASE CorruptLock(x)
    BY <1>1, <1>3, <2>1, <2>4 DEF CorruptLock, Goto, Becomes, Job
  <2>5. CASE CorruptFlag(x)
    BY <1>1, <1>3, <2>1, <2>5 DEF CorruptFlag, Goto, Becomes, Job
  <2>6. CASE CorruptUnexpose(x) \/ CorruptStore(x) \/ ImportRefresh(x) \/ ImportInsert(x)
    BY <1>2, <1>3, <2>1, <2>6 DEF CorruptUnexpose, CorruptStore, ImportRefresh, ImportInsert
  <2> QED
    BY <1>4, <2>2, <2>3, <2>4, <2>5, <2>6 DEF Import
<1>5. ASSUME NEW x \in Watchers \cup Scanners, ValidLock(x)
      PROVE  job'[w] = job[w] \/ (rows[job'[w].game] = NoRow /\ UNCHANGED rows)
  BY <1>1, <1>3, <1>5 DEF Workers, ValidLock, Goto, Becomes, Job
<1>6. ASSUME NEW s \in Scanners, Revalidate(s)
      PROVE  Moves
  <2>1. s \in Workers
    BY DEF Workers
  <2>2. CASE RevalidateLock(s)
    <3> DEFINE k == [job[s] EXCEPT !.at = "rstat", !.row = rows[job[s].game]]
    <3>1. Becomes(s, Back(s)) \/ Becomes(s, k)
      BY <2>2 DEF RevalidateLock
    <3>2. k.at # "insert"
      BY <1>3, <2>1 DEF Job
    <3> QED
      BY <1>2, <1>3, <2>1, <3>1, <3>2
  <2>3. CASE RevalidateUnchanged(s) \/ RevalidateGone(s) \/ RevalidateWrite(s)
    BY <1>2, <1>3, <2>1, <2>3 DEF RevalidateUnchanged, RevalidateGone, RevalidateWrite
  <2>4. CASE RevalidateChanged(s)
    BY <1>1, <1>3, <2>1, <2>4 DEF RevalidateChanged, Becomes, Job
  <2>5. CASE RevalidateCheck(s)
    BY <1>1, <1>3, <2>1, <2>5 DEF RevalidateCheck, Becomes, Job
  <2> QED
    BY <1>6, <2>2, <2>3, <2>4, <2>5 DEF Revalidate
<1>7. ASSUME NEW s \in Scanners, Rescan(s)
      PROVE  Moves
  <2>1. s \in Workers
    BY DEF Workers
  <2>2. ASSUME NEW f \in Folders, ScanFolder(s, f) PROVE Moves
    BY <2>2 DEF ScanFolder
  <2>3. CASE ScanKnown(s) \/ ScanPrune(s)
    BY <1>1, <1>3, <2>1, <2>3 DEF ScanKnown, ScanPrune, Goto, Becomes, Job
  <2>4. ASSUME NEW p \in Paths, ScanFile(s, p) PROVE Moves
    BY <1>1, <2>1, <2>4 DEF ScanFile, Becomes, Idle
  <2>5. ASSUME NEW g \in Packages, PruneRead(s, g) PROVE Moves
    BY <1>1, <2>1, <2>5 DEF PruneRead, Becomes, Idle
  <2>6. CASE PruneHide(s) \/ PruneDrop(s) \/ ScanEnd(s)
    <3> DEFINE k == [Idle EXCEPT !.at = "prune"]
    <3>1. Becomes(s, Idle) \/ Becomes(s, k)
      BY <2>6 DEF PruneHide, PruneDrop, ScanEnd
    <3>2. k.at # "insert"
      BY DEF Idle
    <3> QED
      BY <1>2, <1>3, <2>1, <3>1, <3>2
  <2> QED
    BY <1>7, <2>2, <2>3, <2>4, <2>5, <2>6 DEF Rescan
<1>8. ASSUME NEW a \in Admins, Manual(a)
      PROVE  Moves
  <2>1. a \in Workers
    BY DEF Workers
  <2>2. CASE ManualHide(a) \/ ManualWrite(a)
    BY <1>2, <1>3, <2>1, <2>2 DEF ManualHide, ManualWrite
  <2>3. CASE ManualStat(a)
    BY <1>1, <1>3, <2>1, <2>3 DEF ManualStat, Becomes, Job
  <2>4. CASE ManualCheck(a)
    BY <1>1, <1>3, <2>1, <2>4 DEF ManualCheck, Becomes, Job
  <2> QED
    BY <1>8, <2>2, <2>3, <2>4 DEF Manual
<1>9. ASSUME Requests PROVE Moves
  <2>1. ASSUME NEW s \in Scanners, ScanStart(s) PROVE Moves
    BY <1>1, <1>3, <2>1 DEF Workers, ScanStart, Goto, Becomes, Job
  <2>2. ASSUME NEW s \in Scanners, ScanCancel(s) PROVE Moves
    BY <1>2, <1>3, <2>2 DEF Workers, ScanCancel
  <2>3. ASSUME NEW a \in Admins, NEW g \in Packages, ManualStart(a, g) PROVE Moves
    BY <1>1, <2>3 DEF Workers, ManualStart, Becomes, Idle
  <2>4. ASSUME NEW g \in Packages, DeleteRequest(g) \/ \E e \in BOOLEAN : Toggle(g, e) PROVE Moves
    BY <2>4 DEF DeleteRequest, Toggle
  <2> QED
    BY <1>9, <2>1, <2>2, <2>3, <2>4 DEF Requests
<1>10. ASSUME NEW x \in Watchers, NEW p \in Paths, WatchEvent(x, p)
       PROVE  Moves
  BY <1>1, <1>10 DEF Workers, WatchEvent, Becomes, Idle
<1>11. ASSUME Environment \/ Crash \/ UNCHANGED vars PROVE Moves
  BY <1>1, <1>11 DEF Environment, WriteFile, RemoveFile, MoveFile, Tick, Crash, vars, Idle
<1> QED
  BY <1>4, <1>5, <1>6, <1>7, <1>8, <1>9, <1>10, <1>11 DEF Next, WatchStep, ScanStep

\* While w stays at its insert, only another manager makes the row appear.
LEMMA OthersInsert ==
    ASSUME IInv, [Next]_vars, NEW w \in Watchers \cup Scanners,
           job[w].at = "insert", job'[w] = job[w],
           rows[job[w].game] = NoRow, rows'[job[w].game] # NoRow
    PROVE  \E x \in Watchers \cup Scanners :
              ManagerOf[x] # ManagerOf[w] /\ job[x].game = job[w].game /\ Inserts(x)
<1> DEFINE h == job[w].game
<1>1. h \in Packages /\ locks[<<ManagerOf[w], h>>] = w /\ job \in [Workers -> Job]
  BY DEF IInv, Coherent, Fits, GameStages, Critical, OneWriterPerPackage, Holding, LockOf, Workers
<1>2. PICK x \in Watchers \cup Scanners : Inserts(x) /\ job[x].game = h
  BY <1>1, RowsAppear
<1>3. locks[<<ManagerOf[x], h>>] = x
  BY <1>2 DEF Inserts, CorruptStore, ImportInsert, IInv, Coherent, Critical, OneWriterPerPackage,
              Holding, LockOf
<1>4. job'[x] = Back(x) /\ Back(x).at # "insert"
  BY <1>1, <1>2 DEF Inserts, CorruptStore, ImportInsert, Becomes, Workers, Back, Idle
<1>5. ManagerOf[x] # ManagerOf[w]
  BY <1>1, <1>3, <1>4
<1> QED
  BY <1>2, <1>5

\* With any number of managers, an import that found no row finds one when it
\* inserts only because another manager inserted it meanwhile (ImportAPK).
THEOREM CollisionsAreForeign == Spec => OnlyManagersCollide
<1> DEFINE Across == \A w \in Watchers \cup Scanners : job'[w].at = "insert" =>
              LET g == job[w].game IN
              \/ rows'[job'[w].game] = NoRow
              \/ job'[w] = job[w] /\ rows[g] # NoRow
              \/ job'[w] = job[w] /\ \E x \in Watchers \cup Scanners :
                    ManagerOf[x] # ManagerOf[w] /\ job[x].game = g /\ Inserts(x)
<1>1. IInv /\ [Next]_vars => Across
  <2> SUFFICES ASSUME IInv, [Next]_vars, NEW w \in Watchers \cup Scanners, job'[w].at = "insert"
               PROVE  LET g == job[w].game IN
                      \/ rows'[job'[w].game] = NoRow
                      \/ job'[w] = job[w] /\ rows[g] # NoRow
                      \/ job'[w] = job[w] /\ \E x \in Watchers \cup Scanners :
                            ManagerOf[x] # ManagerOf[w] /\ job[x].game = g /\ Inserts(x)
    OBVIOUS
  <2>1. CASE rows[job'[w].game] = NoRow /\ UNCHANGED rows
    BY <2>1
  <2>2. CASE job'[w] = job[w]
    BY <2>2, OthersInsert
  <2> QED
    BY <2>1, <2>2, InsertEntered
<1> QED
  BY <1>1, Invariance, PTL DEF Spec, OnlyManagersCollide

----------------------------------------------------------------------------
(* What a step can do to a scanner that did not take it. *)

LEMMA BecomesIs ==
    ASSUME job \in [Workers -> Job], NEW x \in Workers, NEW j, Becomes(x, j)
    PROVE  job'[x] = j /\ \A y \in Workers \ {x} : job'[y] = job[y]
BY DEF Becomes

LEMMA SetScanIs ==
    ASSUME scan \in [Scanners -> Scan], NEW s \in Scanners, NEW c, SetScan(s, c)
    PROVE  scan'[s] = c /\ \A t \in Scanners \ {s} : scan'[t] = scan[t]
BY DEF SetScan

\* The worker x took the step.
Spares(x) ==
    /\ \A y \in Workers \ {x} : job'[y] = job[y]
    /\ \A t \in Scanners \ {x} : scan'[t] = scan[t]

LEMMA BecomesSpares ==
    ASSUME IInv, NEW x \in Workers, NEW j, Becomes(x, j), scan' = scan
    PROVE  Spares(x)
BY BecomesIs DEF IInv, Coherent, Spares

LEMMA ImportSpares == ASSUME IInv, NEW x \in Workers, Import(x) PROVE Spares(x)
<1>1. scan' = scan /\ \E j : Becomes(x, j)
  BY DEF Import, ImportStat, ImportInspect, CorruptLock, CorruptFlag, CorruptUnexpose, CorruptStore,
         ValidLock, ImportRefresh, ImportInsert, Goto
<1> QED
  BY <1>1, BecomesSpares

LEMMA RevalidateSpares == ASSUME IInv, NEW x \in Workers, Revalidate(x) PROVE Spares(x)
<1>1. scan' = scan /\ \E j : Becomes(x, j)
  BY DEF Revalidate, RevalidateLock, RevalidateUnchanged, RevalidateGone, RevalidateChanged,
         RevalidateCheck, RevalidateWrite
<1> QED
  BY <1>1, BecomesSpares

LEMMA RescanSpares ==
    ASSUME IInv, NEW x \in Scanners, Rescan(x) \/ ScanStart(x) \/ ScanCancel(x)
    PROVE  Spares(x)
<1>1. x \in Workers
  BY DEF Workers
<1>2. scan' = scan \/ \E c : SetScan(x, c)
  BY DEF Rescan, ScanFolder, ScanKnown, ScanFile, ScanPrune, PruneRead, PruneHide, PruneDrop, ScanEnd,
         ScanStart, ScanCancel
<1>3. job' = job \/ \E j : Becomes(x, j)
  BY DEF Rescan, ScanFolder, ScanKnown, ScanFile, ScanPrune, PruneRead, PruneHide, PruneDrop, ScanEnd,
         ScanStart, ScanCancel, Goto
<1>4. \A y \in Workers \ {x} : job'[y] = job[y]
  BY <1>1, <1>3, BecomesIs DEF IInv, Coherent
<1>5. \A t \in Scanners \ {x} : scan'[t] = scan[t]
  BY <1>2, SetScanIs DEF IInv, DataOK
<1> QED
  BY <1>4, <1>5 DEF Spares

LEMMA ManualSpares ==
    ASSUME IInv, NEW x \in Admins, Manual(x) \/ \E g \in Packages : ManualStart(x, g)
    PROVE  Spares(x)
<1>1. x \in Workers
  BY DEF Workers
<1>2. scan' = scan /\ \E j : Becomes(x, j)
  <2>1. CASE Manual(x)
    BY <2>1 DEF Manual, ManualHide, ManualStat, ManualCheck, ManualWrite
  <2>2. CASE \E g \in Packages : ManualStart(x, g)
    BY <2>2 DEF ManualStart
  <2> QED
    BY <2>1, <2>2
<1> QED
  BY <1>1, <1>2, BecomesSpares

LEMMA WatchSpares ==
    ASSUME IInv, NEW x \in Watchers, NEW p \in Paths, WatchEvent(x, p)
    PROVE  Spares(x)
<1>1. x \in Workers
  BY DEF Workers
<1>2. scan' = scan /\ (job' = job \/ \E j : Becomes(x, j))
  BY DEF WatchEvent
<1> QED
  BY <1>1, <1>2, BecomesSpares DEF Spares

\* Whatever happens, a scanner takes a step of its own, or is stopped by a
\* crash, or stays where it is.
LEMMA ScannerSteps ==
    ASSUME IInv, [Next]_vars, NEW s \in Scanners
    PROVE  \/ ScanStep(s) \/ ScanStart(s) \/ ScanCancel(s) \/ Crash
           \/ job'[s] = job[s] /\ scan'[s] = scan[s]
<1>0. s \in Workers /\ s \notin Watchers /\ s \notin Admins
  BY WorkersAssumption DEF Workers
<1>1. CASE Environment \/ UNCHANGED vars
  BY <1>1 DEF Environment, WriteFile, RemoveFile, MoveFile, Tick, vars
<1>2. ASSUME NEW w \in Watchers, WatchStep(w) PROVE job'[s] = job[s] /\ scan'[s] = scan[s]
  BY <1>0, <1>2, ImportSpares, WatchSpares DEF WatchStep, Spares, Workers
<1>3. ASSUME NEW t \in Scanners, ScanStep(t) \/ ScanStart(t) \/ ScanCancel(t), t # s
      PROVE  job'[s] = job[s] /\ scan'[s] = scan[s]
  BY <1>0, <1>3, ImportSpares, RevalidateSpares, RescanSpares DEF ScanStep, Spares, Workers
<1>4. ASSUME NEW a \in Admins, Manual(a) \/ \E g \in Packages : ManualStart(a, g)
      PROVE  job'[s] = job[s] /\ scan'[s] = scan[s]
  BY <1>0, <1>4, ManualSpares DEF Spares
<1>5. CASE (\E g \in Packages, e \in BOOLEAN : Toggle(g, e)) \/ \E g \in Packages : DeleteRequest(g)
  BY <1>5 DEF Toggle, DeleteRequest
<1> QED
  BY <1>1, <1>2, <1>3, <1>4, <1>5 DEF Next, Requests

----------------------------------------------------------------------------
(* What the steps of a rescan do to its own state. *)

CorruptStages == {"lockCorrupt", "flag", "unexpose", "store"}

LEMMA Scanner ==
    ASSUME IInv, NEW s \in Scanners
    PROVE  /\ s \in Workers /\ s \in Watchers \cup Scanners
           /\ job[s] \in Job /\ scan[s] \in Scan /\ Fits(s, job[s])
           /\ \A j : Becomes(s, j) => job'[s] = j
           /\ \A c : SetScan(s, c) => scan'[s] = c
BY BecomesIs, SetScanIs DEF IInv, Coherent, DataOK, Workers

LEMMA BackIs == ASSUME NEW s \in Scanners PROVE Back(s).at = "next"
BY DEF Back, Idle

LEMMA IdleIs ==
    /\ Idle.at = "idle"
    /\ \A a : [Idle EXCEPT !.at = a].at = a
    /\ \A a, g : [Idle EXCEPT !.at = a, !.game = g].at = a /\ [Idle EXCEPT !.at = a, !.game = g].game = g
    /\ \A a, p : [Idle EXCEPT !.at = a, !.file = p].at = a /\ [Idle EXCEPT !.at = a, !.file = p].file = p
    /\ \A a, p, g : /\ [Idle EXCEPT !.at = a, !.file = p, !.game = g].at = a
                    /\ [Idle EXCEPT !.at = a, !.file = p, !.game = g].file = p
                    /\ [Idle EXCEPT !.at = a, !.file = p, !.game = g].game = g
BY DEF Idle

\* A job that goes on with the same file and game.
SameWork(s, stage) ==
    job'[s].at = stage /\ job'[s].file = job[s].file /\ job'[s].game = job[s].game
    /\ job'[s].seen = job[s].seen /\ job'[s].row = job[s].row

LEMMA GotoIs == ASSUME IInv, NEW s \in Scanners, NEW a, Goto(s, a) PROVE SameWork(s, a)
<1>1. job[s] \in Job /\ job'[s] = [job[s] EXCEPT !.at = a]
  BY Scanner DEF Goto
<1> QED
  BY <1>1 DEF Job, SameWork

\* What an UPDATE or an INSERT does to the rows.
LEMMA UpdateIs ==
    ASSUME IInv, NEW g \in Packages, NEW r, Update(g, r)
    PROVE  /\ \A h \in Packages \ {g} : rows'[h] = rows[h]
           /\ rows[g] = NoRow => rows'[g] = NoRow
           /\ rows[g] # NoRow => rows'[g] = r
BY DEF IInv, DataOK, Update

LEMMA InsertIs ==
    ASSUME IInv, NEW g \in Packages, NEW r, Insert(g, r)
    PROVE  /\ \A h \in Packages \ {g} : rows'[h] = rows[h]
           /\ rows[g] = NoRow => rows'[g] = r
           /\ rows[g] # NoRow => rows'[g] = rows[g]
BY DEF IInv, DataOK, Insert

LEMMA ImportStatIs ==
    ASSUME IInv, NEW s \in Scanners, ImportStat(s)
    PROVE  /\ job[s].at = "stat" /\ rows' = rows
           /\ IF Exists(job[s].file) THEN SameWork(s, "inspect") ELSE job'[s].at = "next"
<1>1. job[s] \in Job /\ job'[s] = IF Exists(job[s].file) THEN [job[s] EXCEPT !.at = "inspect"] ELSE Back(s)
  BY Scanner DEF ImportStat
<1> QED
  BY <1>1, BackIs DEF Job, SameWork, ImportStat

LEMMA ImportInspectIs ==
    ASSUME IInv, NEW s \in Scanners, ImportInspect(s)
    PROVE  LET p == job[s].file  k == job'[s] IN
           /\ job[s].at = "inspect" /\ rows' = rows
           /\ \/ disk[p].kind \in Broken /\ k.at = "lockCorrupt" /\ k.file = p /\ k.game = FileName[p]
              \/ disk[p].kind = "unparsed" /\ k.at = "next"
              \/ /\ disk[p].kind \in Parsed /\ k.at = "lockValid" /\ k.file = p /\ k.game = Manifest[p]
                 /\ k.seen = disk[p]
<1> DEFINE p == job[s].file
<1>1. /\ job[s] \in Job /\ job[s].at = "inspect" /\ rows' = rows
      /\ \/ disk[p].kind \in Broken /\ job'[s] = [job[s] EXCEPT !.at = "lockCorrupt", !.game = FileName[p]]
         \/ disk[p].kind = "unparsed" /\ job'[s] = Back(s)
         \/ /\ disk[p].kind \in Parsed
            /\ job'[s] = [job[s] EXCEPT !.at = "lockValid", !.game = Manifest[p], !.seen = disk[p]]
  BY Scanner DEF ImportInspect
<1> QED
  BY <1>1, BackIs DEF Job

LEMMA CorruptStepIs ==
    ASSUME IInv, NEW s \in Scanners,
           CorruptLock(s) \/ CorruptFlag(s) \/ CorruptUnexpose(s) \/ CorruptStore(s)
    PROVE  /\ job[s].at \in CorruptStages /\ job[s].game \in Packages
           /\ \A h \in Packages \ {job[s].game} : rows'[h] = rows[h]
           /\ (\E a \in CorruptStages : SameWork(s, a)) \/ job'[s].at = "next"
<1>0. job[s].at \in CorruptStages
  BY DEF CorruptLock, CorruptFlag, CorruptUnexpose, CorruptStore, CorruptStages
<1>1. job[s].game \in Packages
  BY <1>0, Scanner DEF Fits, GameStages, Critical, CorruptStages
<1>2. (\E a \in CorruptStages : Goto(s, a)) \/ Becomes(s, Back(s))
  BY DEF CorruptLock, CorruptFlag, CorruptUnexpose, CorruptStore, CorruptStages
<1>3. (\E a \in CorruptStages : SameWork(s, a)) \/ job'[s].at = "next"
  BY <1>2, GotoIs, BackIs, Scanner
<1>4. rows' = rows \/ (\E r : Update(job[s].game, r)) \/ \E r : Insert(job[s].game, r)
  BY DEF CorruptLock, CorruptFlag, CorruptUnexpose, CorruptStore, SetExposed
<1>5. \A h \in Packages \ {job[s].game} : rows'[h] = rows[h]
  BY <1>1, <1>4, UpdateIs, InsertIs
<1> QED
  BY <1>0, <1>1, <1>3, <1>5

LEMMA ValidLockIs ==
    ASSUME IInv, NEW s \in Scanners, ValidLock(s)
    PROVE  /\ job[s].at = "lockValid" /\ rows' = rows
           /\ SameWork(s, IF rows[job[s].game] = NoRow THEN "insert" ELSE "refresh")
BY GotoIs DEF ValidLock

LEMMA ImportRefreshIs ==
    ASSUME IInv, NEW s \in Scanners, ImportRefresh(s)
    PROVE  LET g == job[s].game IN
           /\ job[s].at = "refresh" /\ job'[s].at = "next" /\ g \in Packages
           /\ \A h \in Packages \ {g} : rows'[h] = rows[h]
           /\ rows[g] # NoRow =>
                rows'[g] = [rows[g] EXCEPT !.exposed = TRUE, !.stamp = clock, !.path = job[s].file]
<1>1. job[s].game \in Packages
  BY Scanner DEF ImportRefresh, Fits, GameStages, Critical
<1> QED
  BY <1>1, Scanner, BackIs, UpdateIs DEF ImportRefresh

LEMMA ImportInsertIs ==
    ASSUME IInv, NEW s \in Scanners, ImportInsert(s)
    PROVE  LET g == job[s].game  bad == disk[job[s].file].kind = "badobb" IN
           /\ job[s].at = "insert" /\ job'[s].at = "next" /\ g \in Packages
           /\ \A h \in Packages \ {g} : rows'[h] = rows[h]
           /\ rows[g] = NoRow =>
                rows'[g] = [exposed |-> ~bad, corrupted |-> bad, ver |-> job[s].seen.ver,
                            path |-> job[s].file, stamp |-> clock]
<1>1. job[s].game \in Packages
  BY Scanner DEF ImportInsert, Fits, GameStages, Critical
<1> QED
  BY <1>1, Scanner, BackIs, InsertIs DEF ImportInsert

LEMMA RevalidateLockIs ==
    ASSUME IInv, NEW s \in Scanners, RevalidateLock(s)
    PROVE  LET g == job[s].game  k == job'[s] IN
           /\ job[s].at = "rlock" /\ rows' = rows
           /\ \/ rows[g] = NoRow /\ k.at = "next"
              \/ rows[g] # NoRow /\ k.at = "rstat" /\ k.file = job[s].file /\ k.game = g /\ k.row = rows[g]
<1>1. /\ job[s] \in Job /\ job[s].at = "rlock" /\ rows' = rows
      /\ \/ rows[job[s].game] = NoRow /\ job'[s] = Back(s)
         \/ /\ rows[job[s].game] # NoRow
            /\ job'[s] = [job[s] EXCEPT !.at = "rstat", !.row = rows[job[s].game]]
  BY Scanner DEF RevalidateLock
<1> QED
  BY <1>1, BackIs DEF Job

LEMMA RevalidateUnchangedIs ==
    ASSUME IInv, NEW s \in Scanners, RevalidateUnchanged(s)
    PROVE  LET g == job[s].game IN
           /\ job[s].at = "rstat" /\ job'[s].at = "next" /\ g \in Packages
           /\ Exists(job[s].file) /\ disk[job[s].file].mtime = job[s].row.stamp
           /\ \A h \in Packages \ {g} : rows'[h] = rows[h]
           /\ IF job[s].row.path # NoPath THEN rows' = rows
              ELSE rows[g] # NoRow => rows'[g] = [rows[g] EXCEPT !.path = job[s].file, !.stamp = clock]
<1>1. job[s].game \in Packages
  BY Scanner DEF RevalidateUnchanged, Fits, GameStages, Critical
<1> QED
  BY <1>1, Scanner, BackIs, UpdateIs DEF RevalidateUnchanged, Unchanged

LEMMA RevalidateGoneIs ==
    ASSUME IInv, NEW s \in Scanners, RevalidateGone(s)
    PROVE  job[s].at = "rstat" /\ ~Exists(job[s].file) /\ job'[s].at = "next" /\ rows' = rows
BY Scanner, BackIs DEF RevalidateGone

LEMMA RevalidateLooksIs ==
    ASSUME IInv, NEW s \in Scanners, RevalidateChanged(s) \/ RevalidateCheck(s)
    PROVE  LET p == job[s].file  k == job'[s] IN
           /\ rows' = rows /\ k.file = p /\ k.game = job[s].game /\ k.row = job[s].row
           /\ \/ job[s].at = "rstat" /\ k.at = "rcheck"
              \/ /\ job[s].at = "rcheck" /\ k.at = "rwrite"
                 /\ p \in Paths => k.seen.kind = disk[p].kind /\ k.seen.ver = disk[p].ver
<1> DEFINE p == job[s].file
<1>1. /\ job[s] \in Job /\ rows' = rows
      /\ \/ /\ job[s].at = "rstat"
            /\ job'[s] = [job[s] EXCEPT !.at = "rcheck", !.seen = [Nothing EXCEPT !.mtime = disk[p].mtime]]
         \/ /\ job[s].at = "rcheck"
            /\ job'[s] = [job[s] EXCEPT !.at = "rwrite", !.seen = Verdict(s)]
  BY Scanner DEF RevalidateChanged, RevalidateCheck
<1>2. p \in Paths => Verdict(s).kind = disk[p].kind /\ Verdict(s).ver = disk[p].ver
  BY DEF Verdict, IInv, DataOK, File
<1> QED
  BY <1>1, <1>2 DEF Job

LEMMA RevalidateWriteIs ==
    ASSUME IInv, NEW s \in Scanners, RevalidateWrite(s)
    PROVE  LET g == job[s].game  f == job[s].seen IN
           /\ job[s].at = "rwrite" /\ job'[s].at = "next" /\ g \in Packages
           /\ \A h \in Packages \ {g} : rows'[h] = rows[h]
           /\ rows[g] # NoRow =>
                rows'[g] = [exposed |-> ~IsBad(f), corrupted |-> IsBad(f), ver |-> VersionAfter(s),
                            path |-> job[s].file, stamp |-> f.mtime]
<1>1. job[s].game \in Packages
  BY Scanner DEF RevalidateWrite, Fits, GameStages, Critical
<1> QED
  BY <1>1, Scanner, BackIs, UpdateIs DEF RevalidateWrite

\* Nothing but the rows and the job changes while a file is looked at.
LEMMA FileWorkIs ==
    ASSUME NEW s, Import(s) \/ Revalidate(s)
    PROVE  UNCHANGED <<disk, clock, scan, ops>>
BY DEF Import, ImportStat, ImportInspect, CorruptLock, CorruptFlag, CorruptUnexpose, CorruptStore,
       ValidLock, ImportRefresh, ImportInsert, Revalidate, RevalidateLock, RevalidateUnchanged,
       RevalidateGone, RevalidateChanged, RevalidateCheck, RevalidateWrite

\* The walk over the folders and the files, and the pruning.
LEMMA ScanStartIs ==
    ASSUME IInv, NEW s \in Scanners, ScanStart(s)
    PROVE  /\ job[s].at = "idle" /\ job'[s].at = "list" /\ UNCHANGED <<disk, rows>>
           /\ scan'[s] = [NoScan EXCEPT !.unlisted = Folders]
<1>1. SameWork(s, "list")
  BY GotoIs DEF ScanStart
<1> QED
  BY <1>1, Scanner DEF ScanStart, SameWork

LEMMA ScanFolderIs ==
    ASSUME IInv, NEW s \in Scanners, NEW f, ScanFolder(s, f)
    PROVE  /\ job[s].at = "list" /\ UNCHANGED <<disk, rows, job>>
           /\ \A p \in scan'[s].listed : p \in scan[s].listed \/ (p \in Paths /\ Exists(p))
           /\ scan'[s].found = scan[s].found
<1>1. /\ scan[s] \in Scan
      /\ \/ scan'[s] = [scan[s] EXCEPT !.unlisted = @ \ {f},
                                       !.listed = @ \cup {p \in Paths : FolderOf[p] = f /\ Exists(p)}]
         \/ scan'[s] = [scan[s] EXCEPT !.unlisted = @ \ {f}]
  BY Scanner DEF ScanFolder
<1> QED
  BY <1>1 DEF ScanFolder, Scan

LEMMA ScanKnownIs ==
    ASSUME IInv, NEW s \in Scanners, ScanKnown(s)
    PROVE  /\ job[s].at = "list" /\ job'[s].at = "next" /\ UNCHANGED <<disk, rows>>
           /\ scan[s].unlisted = {} /\ scan'[s].unlisted = {}
           /\ scan'[s].listed = scan[s].listed /\ scan'[s].todo = scan[s].listed
           /\ scan'[s].found = scan[s].found
           /\ scan'[s].known = {g \in Packages : rows[g] # NoRow}
<1>1. SameWork(s, "next")
  BY GotoIs DEF ScanKnown
<1>2. /\ scan[s] \in Scan
      /\ scan'[s] = [scan[s] EXCEPT !.todo = scan[s].listed, !.known = {g \in Packages : rows[g] # NoRow}]
  BY Scanner DEF ScanKnown
<1> QED
  BY <1>1, <1>2 DEF ScanKnown, Scan, SameWork

LEMMA ScanFileIs ==
    ASSUME IInv, NEW s \in Scanners, NEW p \in Paths, ScanFile(s, p)
    PROVE  LET c == scan[s]  k == job'[s] IN
           /\ job[s].at = "next" /\ p \in c.todo /\ UNCHANGED <<disk, rows>>
           /\ scan'[s].unlisted = c.unlisted /\ scan'[s].listed = c.listed /\ scan'[s].known = c.known
           /\ scan'[s].todo = c.todo \ {p} /\ scan'[s].found = c.found \cup FoundAt(p)
           /\ \/ disk[p].kind = "unparsed" /\ k.at = "next"
              \/ /\ disk[p].kind \in Parsed /\ Manifest[p] \in c.known
                 /\ k.at = "rlock" /\ k.file = p /\ k.game = Manifest[p]
              \/ /\ disk[p].kind # "unparsed" /\ (disk[p].kind \in Parsed => Manifest[p] \notin c.known)
                 /\ k.at = "stat" /\ k.file = p
<1>1. /\ scan[s] \in Scan
      /\ scan'[s] = [scan[s] EXCEPT !.todo = @ \ {p}, !.found = @ \cup FoundAt(p)]
  BY Scanner DEF ScanFile
<1>2. \/ disk[p].kind = "unparsed" /\ job' = job
      \/ /\ disk[p].kind \in Parsed /\ Manifest[p] \in scan[s].known
         /\ job'[s] = [Idle EXCEPT !.at = "rlock", !.file = p, !.game = Manifest[p]]
      \/ /\ disk[p].kind # "unparsed" /\ (disk[p].kind \in Parsed => Manifest[p] \notin scan[s].known)
         /\ job'[s] = [Idle EXCEPT !.at = "stat", !.file = p]
  BY Scanner DEF ScanFile
<1>3. job[s].at = "next" /\ p \in scan[s].todo /\ UNCHANGED <<disk, rows>>
  BY DEF ScanFile
<1>4. /\ scan'[s].unlisted = scan[s].unlisted /\ scan'[s].listed = scan[s].listed
      /\ scan'[s].known = scan[s].known
      /\ scan'[s].todo = scan[s].todo \ {p} /\ scan'[s].found = scan[s].found \cup FoundAt(p)
  BY <1>1 DEF Scan
<1>5. \/ disk[p].kind = "unparsed" /\ job'[s].at = "next"
      \/ /\ disk[p].kind \in Parsed /\ Manifest[p] \in scan[s].known
         /\ job'[s].at = "rlock" /\ job'[s].file = p /\ job'[s].game = Manifest[p]
      \/ /\ disk[p].kind # "unparsed" /\ (disk[p].kind \in Parsed => Manifest[p] \notin scan[s].known)
         /\ job'[s].at = "stat" /\ job'[s].file = p
  <2>1. CASE disk[p].kind = "unparsed" /\ job' = job
    BY <1>3, <2>1
  <2>2. CASE /\ disk[p].kind \in Parsed /\ Manifest[p] \in scan[s].known
             /\ job'[s] = [Idle EXCEPT !.at = "rlock", !.file = p, !.game = Manifest[p]]
    <3>1. job'[s].at = "rlock" /\ job'[s].file = p /\ job'[s].game = Manifest[p]
      BY <2>2 DEF Idle
    <3> QED
      BY <2>2, <3>1
  <2>3. CASE /\ disk[p].kind # "unparsed" /\ (disk[p].kind \in Parsed => Manifest[p] \notin scan[s].known)
             /\ job'[s] = [Idle EXCEPT !.at = "stat", !.file = p]
    <3>1. job'[s].at = "stat" /\ job'[s].file = p
      BY <2>3 DEF Idle
    <3> QED
      BY <2>3, <3>1
  <2> QED
    BY <1>2, <2>1, <2>2, <2>3
<1> QED
  BY <1>3, <1>4, <1>5

LEMMA ScanPruneIs ==
    ASSUME IInv, NEW s \in Scanners, ScanPrune(s)
    PROVE  LET c == scan[s] IN
           /\ job[s].at = "next" /\ job'[s].at = "prune" /\ c.todo = {} /\ UNCHANGED <<disk, rows>>
           /\ scan'[s].unlisted = c.unlisted /\ scan'[s].listed = c.listed /\ scan'[s].known = c.known
           /\ scan'[s].todo = c.todo /\ scan'[s].found = c.found
           /\ scan'[s].doomed = c.known \ c.found
<1>1. SameWork(s, "prune")
  BY GotoIs DEF ScanPrune
<1>2. /\ scan[s] \in Scan
      /\ scan'[s] = [scan[s] EXCEPT !.doomed = scan[s].known \ scan[s].found]
  BY Scanner DEF ScanPrune
<1> QED
  BY <1>1, <1>2 DEF ScanPrune, Scan, SameWork

LEMMA PruneReadIs ==
    ASSUME IInv, NEW s \in Scanners, NEW g, PruneRead(s, g)
    PROVE  LET c == scan[s]  k == job'[s] IN
           /\ job[s].at = "prune" /\ g \in c.doomed /\ UNCHANGED <<disk, rows>>
           /\ scan'[s].unlisted = c.unlisted /\ scan'[s].listed = c.listed /\ scan'[s].known = c.known
           /\ scan'[s].todo = c.todo /\ scan'[s].found = c.found
           /\ scan'[s].doomed = c.doomed \ {g}
           /\ \/ rows[g] # NoRow /\ rows[g].corrupted /\ k.at = "hide" /\ k.game = g
              \/ rows[g] # NoRow /\ ~rows[g].corrupted /\ Seen(s, g) /\ k.at = "prune"
              \/ /\ rows[g] # NoRow => ~rows[g].corrupted /\ ~Seen(s, g)
                 /\ k.at = "drop" /\ k.game = g
<1>1. /\ scan[s] \in Scan
      /\ scan'[s] = [scan[s] EXCEPT !.doomed = @ \ {g}]
  BY Scanner DEF PruneRead
<1>2. \/ rows[g] # NoRow /\ rows[g].corrupted /\ job'[s] = [Idle EXCEPT !.at = "hide", !.game = g]
      \/ rows[g] # NoRow /\ ~rows[g].corrupted /\ Seen(s, g) /\ job' = job
      \/ /\ rows[g] # NoRow => ~rows[g].corrupted /\ ~Seen(s, g)
         /\ job'[s] = [Idle EXCEPT !.at = "drop", !.game = g]
  BY Scanner DEF PruneRead
<1>3. job[s].at = "prune" /\ g \in scan[s].doomed /\ UNCHANGED <<disk, rows>>
  BY DEF PruneRead
<1>4. /\ scan'[s].unlisted = scan[s].unlisted /\ scan'[s].listed = scan[s].listed
      /\ scan'[s].known = scan[s].known
      /\ scan'[s].todo = scan[s].todo /\ scan'[s].found = scan[s].found
      /\ scan'[s].doomed = scan[s].doomed \ {g}
  BY <1>1 DEF Scan
<1>5. \/ rows[g] # NoRow /\ rows[g].corrupted /\ job'[s].at = "hide" /\ job'[s].game = g
      \/ rows[g] # NoRow /\ ~rows[g].corrupted /\ Seen(s, g) /\ job'[s].at = "prune"
      \/ /\ rows[g] # NoRow => ~rows[g].corrupted /\ ~Seen(s, g)
         /\ job'[s].at = "drop" /\ job'[s].game = g
  <2>1. CASE /\ rows[g] # NoRow /\ rows[g].corrupted
             /\ job'[s] = [Idle EXCEPT !.at = "hide", !.game = g]
    <3>1. job'[s].at = "hide" /\ job'[s].game = g
      BY <2>1 DEF Idle
    <3> QED
      BY <2>1, <3>1
  <2>2. CASE rows[g] # NoRow /\ ~rows[g].corrupted /\ Seen(s, g) /\ job' = job
    BY <1>3, <2>2
  <2>3. CASE /\ rows[g] # NoRow => ~rows[g].corrupted /\ ~Seen(s, g)
             /\ job'[s] = [Idle EXCEPT !.at = "drop", !.game = g]
    <3>1. job'[s].at = "drop" /\ job'[s].game = g
      BY <2>3 DEF Idle
    <3> QED
      BY <2>3, <3>1
  <2> QED
    BY <1>2, <2>1, <2>2, <2>3
<1> QED
  BY <1>3, <1>4, <1>5

LEMMA PruneWriteIs ==
    ASSUME IInv, NEW s \in Scanners, PruneHide(s) \/ PruneDrop(s)
    PROVE  LET g == job[s].game IN
           /\ job[s].at \in {"hide", "drop"} /\ job'[s].at = "prune" /\ g \in Packages
           /\ UNCHANGED <<disk, scan>>
           /\ \A h \in Packages \ {g} : rows'[h] = rows[h]
           /\ job[s].at = "drop" => rows'[g] = NoRow
           /\ job[s].at = "hide" => IF rows[g] = NoRow THEN rows'[g] = NoRow
                                    ELSE rows'[g] = [rows[g] EXCEPT !.exposed = FALSE, !.stamp = clock]
<1>1. job[s].at \in {"hide", "drop"} /\ UNCHANGED <<disk, scan>> /\ job'[s].at = "prune"
  <2>1. job'[s] = [Idle EXCEPT !.at = "prune"]
    BY Scanner DEF PruneHide, PruneDrop
  <2> QED
    BY <2>1, IdleIs DEF PruneHide, PruneDrop
<1>2. job[s].game \in Packages
  BY <1>1, Scanner DEF Fits, GameStages
<1>3. CASE PruneHide(s)
  BY <1>1, <1>2, <1>3, UpdateIs DEF PruneHide, SetExposed
<1>4. CASE PruneDrop(s)
  BY <1>1, <1>2, <1>4 DEF PruneDrop, IInv, DataOK
<1> QED
  BY <1>1, <1>2, <1>3, <1>4

LEMMA ScanEndIs ==
    ASSUME IInv, NEW s \in Scanners, ScanEnd(s)
    PROVE  job[s].at = "prune" /\ job'[s].at = "idle"
BY Scanner, IdleIs DEF ScanEnd

LEMMA ScanCancelIs ==
    ASSUME IInv, NEW s \in Scanners, ScanCancel(s)
    PROVE  /\ job[s].at \in {"next", "rlock", "rstat", "rwrite"} /\ job'[s].at \in {"idle", "next"}
           /\ job'[s].at = "next" => scan'[s] = scan[s]
           /\ ops' # ops
<1>1. job[s].at \in {"next", "rlock", "rstat", "rwrite"}
  BY DEF ScanCancel, Transacts
<1>2. ops' # ops
  BY DEF ScanCancel, Outside, IInv, DataOK
<1> QED
  BY <1>1, <1>2, Scanner, IdleIs, BackIs DEF ScanCancel

----------------------------------------------------------------------------
(* Files that stay where they are during a rescan. *)

FileJobs == ImportStages \cup RevalidateStages
Pruning == {"prune", "hide", "drop"}

\* A file that was there all along is in a folder that is still to be read or
\* in the listing, then still to be looked at or found; what is pruned was not
\* found.
KeptBy(s) ==
    LET c == scan[s] IN
    /\ steady[s] \subseteq Paths
    /\ job[s].at # "idle" => \A p \in steady[s] : FolderOf[p] \in c.unlisted \/ p \in c.listed
    /\ job[s].at \notin {"idle", "list"} =>
         c.unlisted = {} /\ \A p \in steady[s] : p \in c.todo \/ FoundAt(p) \subseteq c.found
    /\ job[s].at \in Pruning => c.todo = {} /\ c.doomed \cap c.found = {}
    /\ job[s].at \in {"hide", "drop"} => job[s].game \notin c.found
Kept == \A s \in Scanners : KeptBy(s)

\* The file at hand is looked at, and then the rescan goes on.
LEMMA FileWork ==
    ASSUME IInv, NEW s \in Scanners, Import(s) \/ Revalidate(s)
    PROVE  /\ job[s].at \in FileJobs /\ job'[s].at \in FileJobs \cup {"next"}
           /\ UNCHANGED <<disk, scan, ops>>
<1> USE DEF FileJobs, ImportStages, RevalidateStages, CorruptStages, SameWork
<1>1. CASE Import(s)
  <2>1. CASE ImportStat(s) \/ ImportInspect(s)
    BY <1>1, <2>1, FileWorkIs, ImportStatIs, ImportInspectIs
  <2>2. CASE CorruptLock(s) \/ CorruptFlag(s) \/ CorruptUnexpose(s) \/ CorruptStore(s)
    BY <1>1, <2>2, FileWorkIs, CorruptStepIs
  <2>3. CASE ValidLock(s) \/ ImportRefresh(s) \/ ImportInsert(s)
    BY <1>1, <2>3, FileWorkIs, ValidLockIs, ImportRefreshIs, ImportInsertIs
  <2> QED
    BY <1>1, <2>1, <2>2, <2>3 DEF Import
<1>2. CASE Revalidate(s)
  BY <1>2, FileWorkIs, RevalidateLockIs, RevalidateUnchangedIs, RevalidateGoneIs, RevalidateLooksIs,
     RevalidateWriteIs DEF Revalidate
<1> QED
  BY <1>1, <1>2

\* What Record keeps of the files of a rescan in progress.
LEMMA SteadyIs ==
    ASSUME Record, NEW s \in Scanners
    PROVE  /\ job'[s].at = "idle" => steady'[s] = {}
           /\ job[s].at # "idle" => \A p \in steady'[s] : p \in steady[s] /\ disk'[p] = disk[p]
           /\ job[s].at # "idle" \/ job'[s].at # "list" => \A p \in steady'[s] :
                 FolderOf[p] \in scan'[s].unlisted \/ p \in scan'[s].listed
           /\ Starts(s) => \A p \in steady'[s] : p \in Paths
BY DEF Record, Starts, Runs

LEMMA FoundSame == ASSUME NEW p, disk'[p] = disk[p] PROVE FoundAt(p)' = FoundAt(p)
BY DEF FoundAt

LEMMA KeptStays ==
    ASSUME IInv, NEW s \in Scanners, KeptBy(s), HNext
    PROVE  KeptBy(s)'
<1> DEFINE c == scan[s]
<1> USE SteadyIs, FoundSame
<1>0. /\ s \in Workers /\ job[s] \in Job /\ c \in Scan
      /\ job \in [Workers -> Job] /\ scan \in [Scanners -> Scan]
      /\ Record /\ Next
  BY DEF IInv, Coherent, DataOK, Workers, HNext
<1>1. CASE job'[s] = job[s] /\ scan'[s] = scan[s]
  BY <1>0, <1>1 DEF KeptBy, Pruning
<1>2. CASE Crash
  BY <1>0, <1>2 DEF KeptBy, Pruning, Crash, Idle
<1>3. CASE ScanStart(s)
  <2>1. Starts(s) /\ scan'[s].unlisted = Folders
    BY <1>3, ScanStartIs DEF Starts, NoScan
  <2> QED
    BY <1>0, <1>3, <2>1, ScanStartIs, DataAssumption DEF KeptBy, Pruning
<1>4. CASE Import(s) \/ Revalidate(s)
  <2>1. /\ job[s].at \in FileJobs /\ job'[s].at \in FileJobs \cup {"next"} /\ scan'[s] = scan[s]
    BY <1>4, FileWork
  <2>2. job[s].at \notin {"idle", "list"} /\ job'[s].at \notin {"idle", "list", "prune", "hide", "drop"}
    BY <2>1 DEF FileJobs, ImportStages, RevalidateStages
  <2> QED
    BY <1>0, <2>1, <2>2 DEF KeptBy, Pruning
<1>5. CASE ScanCancel(s)
  BY <1>0, <1>5, ScanCancelIs DEF KeptBy, Pruning
<1>6. CASE Rescan(s)
  <2>1. ASSUME NEW f \in Folders, ScanFolder(s, f) PROVE KeptBy(s)'
    BY <1>0, <2>1, ScanFolderIs DEF KeptBy, Pruning
  <2>2. CASE ScanKnown(s)
    BY <1>0, <2>2, ScanKnownIs DEF KeptBy, Pruning
  <2>3. ASSUME NEW p \in Paths, ScanFile(s, p) PROVE KeptBy(s)'
    BY <1>0, <2>3, ScanFileIs DEF KeptBy, Pruning
  <2>4. CASE ScanPrune(s)
    BY <1>0, <2>4, ScanPruneIs DEF KeptBy, Pruning
  <2>5. ASSUME NEW g \in Packages, PruneRead(s, g) PROVE KeptBy(s)'
    BY <1>0, <2>5, PruneReadIs DEF KeptBy, Pruning
  <2>6. CASE PruneHide(s) \/ PruneDrop(s)
    <3>1. job[s].at \in {"hide", "drop"} /\ job'[s].at = "prune" /\ UNCHANGED <<disk, scan>>
      BY <2>6, PruneWriteIs
    <3> QED
      BY <1>0, <3>1 DEF KeptBy, Pruning
  <2>7. CASE ScanEnd(s)
    BY <1>0, <2>7, ScanEndIs DEF KeptBy, Pruning
  <2> QED
    BY <1>6, <2>1, <2>2, <2>3, <2>4, <2>5, <2>6, <2>7 DEF Rescan
<1>7. [Next]_vars
  BY <1>0
<1> QED
  BY <1>1, <1>2, <1>3, <1>4, <1>5, <1>6, <1>7, ScannerSteps DEF ScanStep

LEMMA InitKept == HInit => Kept
BY DEF HInit, Init, Idle, Kept, KeptBy, Pruning, Workers

\* HNext is a step of Library, so what is proved of Library holds.
LEMMA LibrarySteps == [HNext]_hvars => [Next]_vars
BY DEF HNext, hvars, vars

LEMMA KeptNext == IInv /\ Kept /\ [HNext]_hvars => Kept'
<1> SUFFICES ASSUME IInv, Kept, [HNext]_hvars PROVE Kept'
  OBVIOUS
<1>1. CASE HNext
  BY <1>1, KeptStays DEF Kept
<1>2. CASE UNCHANGED hvars
  BY <1>2 DEF Kept, KeptBy, hvars, FoundAt
<1> QED
  BY <1>1, <1>2

LEMMA HistoryInvariant == HSpec => [](IInv /\ Kept)
<1>1. HInit => IInv /\ Kept
  BY InitHolds, InitKept DEF HInit
<1>2. IInv /\ Kept /\ [HNext]_hvars => (IInv /\ Kept)'
  BY KeptNext, LibrarySteps, Inductive
<1> QED
  BY <1>1, <1>2, PTL DEF HSpec

\* However many watchers, requests and rescans run beside it, a rescan deletes no
\* game with a readable APK that stayed where it was since the rescan began, in a
\* folder the rescan could read.
THEOREM SteadyKept == HSpec => []SteadyGamesAreKept
<1>1. IInv /\ Kept => SteadyGamesAreKept
  <2> SUFFICES ASSUME Kept, NEW s \in Scanners, job[s].at = "drop", NEW p \in steady[s],
                      Manifest[p] = job[s].game, disk[p].kind \in Parsed
               PROVE  FALSE
    BY DEF SteadyGamesAreKept
  <2>1. FoundAt(p) \subseteq scan[s].found /\ job[s].game \notin scan[s].found
    BY DEF Kept, KeptBy, Pruning
  <2>2. FoundAt(p) = {Manifest[p]}
    BY DEF FoundAt, Parsed, Broken
  <2> QED
    BY <2>1, <2>2
<1> QED
  BY <1>1, HistoryInvariant, PTL

\* Nor does a rescan turn to deleting the row of a game while the file that the
\* row records, readable or not, has stayed where it was.
THEOREM RecordedSpared == HSpec => RecordedFilesAreSpared
<1>1. IInv /\ Kept /\ [HNext]_hvars =>
        [\A s \in Scanners, p \in Paths :
          job[s].at = "prune" /\ job'[s].at = "drop" /\ p \in steady[s] =>
              rows[job'[s].game] = NoRow \/ rows[job'[s].game].path # p]_hvars
  <2> SUFFICES ASSUME IInv, Kept, HNext, NEW s \in Scanners, NEW p \in Paths,
                      job[s].at = "prune", job'[s].at = "drop", p \in steady[s]
               PROVE  rows[job'[s].game] = NoRow \/ rows[job'[s].game].path # p
    OBVIOUS
  <2>0. s \in Workers /\ job \in [Workers -> Job] /\ [Next]_vars
    BY DEF IInv, Coherent, Workers, HNext
  <2>1. p \in scan[s].listed
    BY DEF Kept, KeptBy
  <2>2. ~Crash /\ ~ScanStart(s) /\ ~ScanCancel(s) /\ job'[s] # job[s]
    BY <2>0, ScanCancelIs DEF Crash, ScanStart, Idle
  <2>3. ~Import(s) /\ ~Revalidate(s)
    BY FileWork DEF FileJobs, ImportStages, RevalidateStages
  <2>4. Rescan(s)
    BY <2>0, <2>2, <2>3, ScannerSteps DEF ScanStep
  <2>5. PICK g \in Packages : PruneRead(s, g)
    BY <2>4, ScanFolderIs, ScanKnownIs, ScanFileIs, ScanPruneIs, PruneWriteIs, ScanEndIs DEF Rescan
  <2>6. job'[s].game = g /\ (rows[g] # NoRow => ~Seen(s, g))
    BY <2>5, PruneReadIs
  <2> QED
    BY <2>1, <2>6 DEF Seen
<1> QED
  BY <1>1, HistoryInvariant, PTL DEF HSpec, RecordedFilesAreSpared

----------------------------------------------------------------------------
(* A row and a job at work name the package of the file they are about: by *)
(* its manifest, or by its name when it could not be read.                 *)

ValidStages == {"lockValid", "refresh", "insert"} \cup RevalidateStages
Names(g, p) == Manifest[p] = g \/ FileName[p] = g

RowsNamed == \A g \in Packages : rows[g] # NoRow /\ rows[g].path # NoPath => Names(g, rows[g].path)
NamedBy(w) ==
    /\ job[w].at \in CorruptStages => job[w].game = FileName[job[w].file]
    /\ job[w].at \in ValidStages => job[w].game = Manifest[job[w].file]
Named == RowsNamed /\ \A w \in Watchers \cup Scanners : NamedBy(w)

LEMMA WriteNamed ==
    ASSUME IInv, RowsNamed, NEW g \in Packages, NEW r, r.path # NoPath => Names(g, r.path),
           Update(g, r) \/ Insert(g, r)
    PROVE  RowsNamed'
BY UpdateIs, InsertIs DEF RowsNamed, Names

LEMMA SamePath ==
    ASSUME IInv, RowsNamed, NEW g \in Packages, NEW r,
           rows[g] # NoRow => r.path = rows[g].path,
           Update(g, r)
    PROVE  RowsNamed'
BY UpdateIs DEF RowsNamed, Names

LEMMA ExposedNamed ==
    ASSUME IInv, RowsNamed, NEW g \in Packages, NEW e, SetExposed(g, e)
    PROVE  RowsNamed'
<1>1. rows[g] # NoRow => [rows[g] EXCEPT !.exposed = e, !.stamp = clock].path = rows[g].path
  BY DEF IInv, DataOK, Row
<1> QED
  BY <1>1, SamePath DEF SetExposed

\* The fields a row write takes its path from.
LEMMA FileNamed ==
    ASSUME IInv, NEW w \in Watchers \cup Scanners, Import(w) \/ Revalidate(w), NamedBy(w), RowsNamed
    PROVE  RowsNamed'
<1> DEFINE g == job[w].game  p == job[w].file
<1>0. /\ Fits(w, job[w]) /\ (g \in Packages /\ rows[g] # NoRow => rows[g] \in Row)
  BY DEF IInv, Coherent, DataOK, Workers
<1> USE DEF GameStages, Critical, ValidStages, RevalidateStages, CorruptStages, Names
<1>1. CASE rows' = rows
  BY <1>1 DEF RowsNamed
<1>2. CASE CorruptFlag(w)
  <2>1. g \in Packages
    BY <1>0, <1>2 DEF Fits, CorruptFlag
  <2>2. rows[g] # NoRow => [rows[g] EXCEPT !.corrupted = TRUE, !.stamp = clock].path = rows[g].path
    BY <1>0, <2>1 DEF Row
  <2> QED
    BY <1>2, <2>1, <2>2, SamePath DEF CorruptFlag
<1>3. CASE CorruptUnexpose(w)
  BY <1>0, <1>3, ExposedNamed DEF CorruptUnexpose, Fits
<1>4. CASE CorruptStore(w)
  BY <1>0, <1>4, WriteNamed DEF CorruptStore, Fits, NamedBy
<1>5. CASE ImportRefresh(w)
  <2>1. g \in Packages /\ g = Manifest[p]
    BY <1>0, <1>5 DEF Fits, ImportRefresh, NamedBy
  <2>2. rows[g] # NoRow => [rows[g] EXCEPT !.exposed = TRUE, !.stamp = clock, !.path = p].path = p
    BY <1>0, <2>1 DEF Row
  <2>3. Update(g, [rows[g] EXCEPT !.exposed = TRUE, !.stamp = clock, !.path = p])
    BY <1>5 DEF ImportRefresh
  <2>4. (rows'[g] # NoRow => rows'[g].path = p) /\ \A h \in Packages \ {g} : rows'[h] = rows[h]
    BY <2>1, <2>2, <2>3, UpdateIs
  <2> QED
    BY <2>1, <2>4 DEF RowsNamed
<1>6. CASE ImportInsert(w)
  BY <1>0, <1>6, WriteNamed DEF ImportInsert, Fits, NamedBy
<1>7. CASE RevalidateUnchanged(w) /\ job[w].row.path = NoPath
  <2>1. g \in Packages /\ g = Manifest[p]
    BY <1>0, <1>7 DEF Fits, RevalidateUnchanged, NamedBy
  <2>2. rows[g] # NoRow => [rows[g] EXCEPT !.path = p, !.stamp = clock].path = p
    BY <1>0, <2>1 DEF Row
  <2>3. Update(g, [rows[g] EXCEPT !.path = p, !.stamp = clock])
    BY <1>7 DEF RevalidateUnchanged
  <2>4. (rows'[g] # NoRow => rows'[g].path = p) /\ \A h \in Packages \ {g} : rows'[h] = rows[h]
    BY <2>1, <2>2, <2>3, UpdateIs
  <2> QED
    BY <2>1, <2>4 DEF RowsNamed
<1>8. CASE RevalidateWrite(w)
  BY <1>0, <1>8, WriteNamed DEF RevalidateWrite, Fits, NamedBy
<1> QED
  BY <1>1, <1>2, <1>3, <1>4, <1>5, <1>6, <1>7, <1>8
  DEF Import, ImportStat, ImportInspect, CorruptLock, ValidLock, Revalidate, RevalidateLock,
      RevalidateUnchanged, RevalidateGone, RevalidateChanged, RevalidateCheck

LEMMA JobNamed ==
    ASSUME IInv, NEW w \in Watchers \cup Scanners, Import(w) \/ Revalidate(w), NamedBy(w)
    PROVE  NamedBy(w)'
<1>0. /\ w \in Workers /\ job[w] \in Job
      /\ \A j : Becomes(w, j) => job'[w] = j
  BY BecomesIs DEF IInv, Coherent, Workers
<1>1. Back(w).at \in {"idle", "next"}
  BY DEF Back, Idle
<1> USE DEF ValidStages, RevalidateStages, CorruptStages
<1>2. CASE job'[w] = Back(w)
  BY <1>1, <1>2 DEF NamedBy
<1>3. CASE ImportStat(w)
  BY <1>0, <1>2, <1>3 DEF ImportStat, NamedBy, Job
<1>4. CASE ImportInspect(w)
  <2>1. CASE Becomes(w, [job[w] EXCEPT !.at = "lockCorrupt", !.game = FileName[job[w].file]])
    BY <1>0, <2>1 DEF NamedBy, Job
  <2>2. CASE Becomes(w, [job[w] EXCEPT !.at = "lockValid", !.game = Manifest[job[w].file],
                                       !.seen = disk[job[w].file]])
    <3>1. /\ job'[w].at = "lockValid" /\ job'[w].file = job[w].file
          /\ job'[w].game = Manifest[job[w].file]
      BY <1>0, <2>2 DEF Job
    <3> QED
      BY <3>1 DEF NamedBy
  <2> QED
    BY <1>0, <1>2, <1>4, <2>1, <2>2 DEF ImportInspect
<1>5. ASSUME NEW a \in CorruptStages, job[w].at \in CorruptStages, Goto(w, a) PROVE NamedBy(w)'
  BY <1>0, <1>5 DEF Goto, NamedBy, Job
<1>6. ASSUME NEW a \in {"refresh", "insert"}, job[w].at = "lockValid", Goto(w, a) PROVE NamedBy(w)'
  BY <1>0, <1>6 DEF Goto, NamedBy, Job
<1>7. CASE Revalidate(w)
  BY <1>0, <1>2, <1>7 DEF Revalidate, RevalidateLock, RevalidateUnchanged, RevalidateGone,
     RevalidateChanged, RevalidateCheck, RevalidateWrite, NamedBy, Job
<1>8. CASE CorruptLock(w) \/ CorruptFlag(w) \/ CorruptUnexpose(w) \/ CorruptStore(w)
  BY <1>0, <1>2, <1>5, <1>8 DEF CorruptLock, CorruptFlag, CorruptUnexpose, CorruptStore
<1>9. CASE ValidLock(w) \/ ImportRefresh(w) \/ ImportInsert(w)
  BY <1>0, <1>2, <1>6, <1>9 DEF ValidLock, ImportRefresh, ImportInsert
<1> QED
  BY <1>3, <1>4, <1>7, <1>8, <1>9 DEF Import

LEMMA NamedSpared ==
    ASSUME Named, NEW x \in Workers, Spares(x), x \in Watchers \cup Scanners => NamedBy(x)', RowsNamed'
    PROVE  Named'
BY DEF Named, NamedBy, Spares, Workers

LEMMA InitNamed == Init => Named
BY DEF Init, Idle, LegacyRow, Named, RowsNamed, NamedBy, CorruptStages, ValidStages, RevalidateStages, Workers

LEMMA NamedNext == IInv /\ Named /\ [Next]_vars => Named'
<1> SUFFICES ASSUME IInv, Named, [Next]_vars PROVE Named'
  OBVIOUS
<1> USE DEF CorruptStages, ValidStages, RevalidateStages
<1>1. CASE Environment \/ UNCHANGED vars
  BY <1>1 DEF Environment, WriteFile, RemoveFile, MoveFile, Tick, vars, Named, RowsNamed, NamedBy
<1>2. ASSUME NEW w \in Watchers \cup Scanners, Import(w) \/ Revalidate(w) PROVE Named'
  BY <1>2, FileNamed, JobNamed, NamedSpared, ImportSpares, RevalidateSpares DEF Named, Workers
<1>3. ASSUME NEW w \in Watchers, NEW p \in Paths, WatchEvent(w, p) PROVE Named'
  <2>1. w \in Workers /\ Spares(w) /\ rows' = rows
    BY <1>3, WatchSpares DEF Workers, WatchEvent
  <2>2. job'[w] = job[w] \/ job'[w] = [Idle EXCEPT !.at = "stat", !.file = p]
    BY <1>3, <2>1, BecomesIs DEF WatchEvent, IInv, Coherent
  <2>3. NamedBy(w)'
    BY <2>2 DEF NamedBy, Named, Idle
  <2> QED
    BY <2>1, <2>3, NamedSpared DEF Named, RowsNamed
<1>4. ASSUME NEW s \in Scanners, Rescan(s) \/ ScanStart(s) \/ ScanCancel(s) PROVE Named'
  <2>1. s \in Workers /\ Spares(s)
    BY <1>4, RescanSpares DEF Workers
  <2>2. NamedBy(s)'
    <3>1. CASE Rescan(s)
      <4>1. CASE job' = job
        BY <4>1 DEF Named, NamedBy
      <4>2. ASSUME NEW p \in Paths, ScanFile(s, p) PROVE NamedBy(s)'
        BY <4>2, ScanFileIs DEF NamedBy
      <4>3. ASSUME NEW g \in Packages, PruneRead(s, g) PROVE NamedBy(s)'
        BY <4>3, PruneReadIs DEF NamedBy
      <4>4. CASE ScanKnown(s) \/ ScanPrune(s) \/ PruneHide(s) \/ PruneDrop(s) \/ ScanEnd(s)
        BY <4>4, ScanKnownIs, ScanPruneIs, PruneWriteIs, ScanEndIs DEF NamedBy
      <4>5. ASSUME NEW f \in Folders, ScanFolder(s, f) PROVE NamedBy(s)'
        BY <4>1, <4>5 DEF ScanFolder
      <4> QED
        BY <3>1, <4>2, <4>3, <4>4, <4>5 DEF Rescan
    <3>2. CASE ScanStart(s) \/ ScanCancel(s)
      BY <3>2, ScanStartIs, ScanCancelIs DEF NamedBy
    <3> QED
      BY <1>4, <3>1, <3>2
  <2>3. RowsNamed'
    <3>1. CASE rows' = rows
      BY <3>1 DEF Named, RowsNamed
    <3>2. CASE PruneHide(s)
      BY <3>2, PruneWriteIs, ExposedNamed DEF PruneHide, Named
    <3>3. CASE PruneDrop(s)
      <4>1. \A g \in Packages : rows'[g] = rows[g] \/ rows'[g] = NoRow
        BY <3>3, PruneWriteIs DEF PruneDrop
      <4> QED
        BY <4>1 DEF Named, RowsNamed
    <3> QED
      BY <1>4, <3>1, <3>2, <3>3 DEF Rescan, ScanFolder, ScanKnown, ScanFile, ScanPrune, PruneRead, ScanEnd,
         ScanStart, ScanCancel
  <2> QED
    BY <2>1, <2>2, <2>3, NamedSpared
<1>5. ASSUME NEW a \in Admins, Manual(a) \/ \E g \in Packages : ManualStart(a, g) PROVE Named'
  <2>1. a \in Workers /\ Spares(a) /\ a \notin Watchers \cup Scanners
    BY <1>5, ManualSpares, WorkersAssumption DEF Workers
  <2>2. RowsNamed'
    <3>0. Fits(a, job[a])
      BY <2>1 DEF IInv, Coherent
    <3>1. CASE rows' = rows
      BY <3>1 DEF Named, RowsNamed
    <3>2. CASE ManualHide(a)
      BY <3>0, <3>2, ExposedNamed DEF ManualHide, Named, Fits, GameStages, ManualStages
    <3>3. CASE ManualWrite(a)
      <4> DEFINE g == job[a].game  f == job[a].seen
                 r == [rows[g] EXCEPT !.exposed = ~IsBad(f), !.corrupted = IsBad(f),
                                      !.ver = IF f.kind = "valid" THEN f.ver ELSE job[a].row.ver,
                                      !.stamp = f.mtime]
      <4>1. g \in Packages /\ Update(g, r)
        BY <3>0, <3>3 DEF ManualWrite, Fits, GameStages, ManualStages
      <4>2. rows[g] # NoRow => r.path = rows[g].path
        BY <4>1 DEF IInv, DataOK, Row
      <4> QED
        BY <4>1, <4>2, SamePath DEF Named
    <3> QED
      BY <1>5, <3>1, <3>2, <3>3 DEF Manual, ManualStat, ManualCheck, ManualStart
  <2> QED
    BY <2>1, <2>2, NamedSpared
<1>6. ASSUME NEW g \in Packages, NEW e \in BOOLEAN, Toggle(g, e) PROVE Named'
  BY <1>6, ExposedNamed DEF Toggle, Named, NamedBy
<1>7. ASSUME NEW g \in Packages, DeleteRequest(g) PROVE Named'
  BY <1>7 DEF DeleteRequest, Named, NamedBy, RowsNamed, IInv, DataOK
<1>8. CASE Crash
  BY <1>8 DEF Crash, Idle, Named, NamedBy, RowsNamed, Workers
<1> QED
  BY <1>1, <1>2, <1>3, <1>4, <1>5, <1>6, <1>7, <1>8 DEF Next, WatchStep, ScanStep, Requests

----------------------------------------------------------------------------
(* A rescan that nobody disturbs: Listing relates its lists to the disk,   *)
(* AtFile the job to the file at hand, and Reconciling the rows to what    *)
(* the rescan has done so far. A row is untouched until the rescan comes   *)
(* to a file of the game, and described by one of its files from then on.  *)

Done(s) == scan[s].listed \ (scan[s].todo \cup IF job[s].at \in FileJobs THEN {job[s].file} ELSE {})
AllValid(g) == \A p \in Files(g) : disk[p].kind = "valid"
Good(g) == Files(g) # {} /\ (AllValid(g) \/ \E p \in Paths : Files(g) = {p} /\ disk[p].kind \in Parsed)
Untouched(s, g) ==
    /\ rows[g] # NoRow <=> g \in scan[s].known
    /\ \A p \in Files(g) : rows[g] # NoRow => rows[g].stamp # disk[p].mtime
Described(g) ==
    /\ rows[g] # NoRow /\ rows[g].path \in Files(g)
    /\ \A p \in Paths : Files(g) = {p} => Agrees(g, p)
    /\ AllValid(g) => rows[g].exposed /\ ~rows[g].corrupted
Gone(g) == rows[g] = NoRow \/ (rows[g].corrupted /\ ~rows[g].exposed)

Listing(s) ==
    LET c == scan[s] IN
    /\ \A p \in c.listed : Exists(p)
    /\ job[s].at = "list" => skipped[s] = Matching /\ c.found = {}
    /\ job[s].at # "list" =>
         /\ c.todo \subseteq c.listed
         /\ \A p \in c.listed : p \in c.todo \/ FoundAt(p) \subseteq c.found
         /\ \A g \in c.found : \E p \in c.listed : g \in FoundAt(p)
    /\ job[s].at \in Pruning => c.todo = {} /\ c.doomed \subseteq c.known \ c.found
    /\ job[s].at \in {"hide", "drop"} => job[s].game \notin c.found

AtFile(s) ==
    LET j == job[s]  p == j.file IN
    j.at \in FileJobs =>
    /\ p \in scan[s].listed /\ p \notin scan[s].todo
    /\ disk[p].kind # "unparsed"
    /\ j.at \in {"stat", "inspect"} => (disk[p].kind \in Parsed => Manifest[p] \notin scan[s].known)
    /\ j.at \in CorruptStages => disk[p].kind \in Broken
    /\ j.at \in ValidStages => disk[p].kind \in Parsed
    /\ j.at \in {"lockValid", "refresh", "insert"} => j.game \notin scan[s].known /\ j.seen = disk[p]
    /\ j.at = "insert" => rows[j.game] = NoRow
    /\ j.at = "refresh" => rows[j.game] # NoRow
    /\ j.at \in RevalidateStages => j.game \in scan[s].known
    /\ j.at \in {"rstat", "rcheck", "rwrite"} => rows[j.game] # NoRow /\ j.row = rows[j.game]
    /\ j.at = "rwrite" => j.seen.kind = disk[p].kind /\ j.seen.ver = disk[p].ver

Without(s, g) ==
    IF job[s].at \in Pruning
    THEN /\ g \in scan[s].doomed \/ (job[s].at # "prune" /\ job[s].game = g) \/ Gone(g)
         /\ job[s].at = "hide" /\ job[s].game = g => rows[g] = NoRow \/ rows[g].corrupted
    ELSE rows[g] # NoRow <=> g \in scan[s].known
With(s, g) == IF Files(g) \cap Done(s) = {} THEN Untouched(s, g) ELSE Described(g)

Reconciling(s) ==
    job[s].at # "list" /\ SawAllFiles(s) =>
        \A g \in Packages : PlainlyNamed(g) =>
            /\ Files(g) = {} => Without(s, g)
            /\ Good(g) /\ g \notin skipped[s] => With(s, g)

Quiet(s) == alone[s] => Listing(s) /\ AtFile(s) /\ Reconciling(s)
AllQuiet == \A s \in Scanners : Quiet(s)


LEMMA FilesAre ==
    ASSUME NEW g
    PROVE  \A p : p \in Files(g) <=> p \in Paths /\ Manifest[p] = g /\ Exists(p)
BY DEF Files

LEMMA DiskSame ==
    ASSUME disk' = disk
    PROVE  /\ \A p : (Exists(p)' <=> Exists(p)) /\ FoundAt(p)' = FoundAt(p)
           /\ \A g : Files(g)' = Files(g)
           /\ \A g : (AllValid(g)' <=> AllValid(g)) /\ (Good(g)' <=> Good(g))
           /\ \A g : PlainlyNamed(g)' <=> PlainlyNamed(g)
<1>1. \A p : (Exists(p)' <=> Exists(p)) /\ FoundAt(p)' = FoundAt(p)
  BY DEF Exists, FoundAt
<1>2. \A g : Files(g)' = Files(g)
  BY <1>1 DEF Files
<1>3. \A g : AllValid(g)' <=> AllValid(g)
  BY <1>2 DEF AllValid
<1>4. \A g : Good(g)' <=> Good(g)
  BY <1>2, <1>3 DEF Good
<1>5. \A g : PlainlyNamed(g)' <=> PlainlyNamed(g)
  BY <1>1 DEF PlainlyNamed
<1> QED
  BY <1>1, <1>2, <1>3, <1>4, <1>5

LEMMA RowSame ==
    ASSUME disk' = disk, NEW g, rows'[g] = rows[g]
    PROVE  /\ Described(g)' <=> Described(g)
           /\ Gone(g)' <=> Gone(g)
<1>1. \A p : Agrees(g, p)' <=> Agrees(g, p)
  BY DEF Agrees, IsBad
<1> QED
  BY <1>1, DiskSame DEF Described, Gone

LEMMA WithSame ==
    ASSUME disk' = disk, NEW s, NEW g, rows'[g] = rows[g], scan'[s].known = scan[s].known,
           \A p \in Files(g) : p \in Done(s)' <=> p \in Done(s),
           With(s, g)
    PROVE  With(s, g)'
<1>1. Untouched(s, g)' <=> Untouched(s, g)
  BY DiskSame DEF Untouched
<1>2. (Files(g) \cap Done(s))' = {} <=> Files(g) \cap Done(s) = {}
  BY DiskSame
<1> QED
  BY <1>1, <1>2, RowSame DEF With

\* A good game has a sound file.
LEMMA GoodIs ==
    ASSUME NEW g, Good(g)
    PROVE  Files(g) # {} /\ \A p \in Files(g) : disk[p].kind \in Parsed
BY DEF Good, AllValid, Parsed

\* The rescan writes to the row of g only while it looks at a file of g.
LEMMA Touches ==
    ASSUME IInv, NEW s \in Scanners, NamedBy(s), Listing(s), AtFile(s), job[s].at \in FileJobs,
           \/ rows' = rows
           \/ /\ job[s].at \in CorruptStages \cup ValidStages
              /\ \A h \in Packages \ {job[s].game} : rows'[h] = rows[h],
           NEW g \in Packages, PlainlyNamed(g), job[s].file \notin Files(g)
    PROVE  rows'[g] = rows[g]
<1>1. job[s].file \in Paths /\ Exists(job[s].file)
  BY Scanner DEF Fits, FileStages, FileJobs, Listing, AtFile
<1> QED
  BY <1>1, FilesAre DEF NamedBy, PlainlyNamed

\* One step of looking at one file.
LEMMA OneFile ==
    ASSUME IInv, NEW s \in Scanners, NamedBy(s), Listing(s), AtFile(s), Reconciling(s),
           disk' = disk, scan' = scan, skipped'[s] = skipped[s],
           job[s].at \in FileJobs, job'[s].at \in FileJobs \cup {"next"},
           job'[s].at \in FileJobs => job'[s].file = job[s].file,
           \/ rows' = rows
           \/ /\ job[s].at \in CorruptStages \cup ValidStages
              /\ \A h \in Packages \ {job[s].game} : rows'[h] = rows[h],
           \A g \in Packages : PlainlyNamed(g) /\ Good(g) /\ job[s].file \in Files(g) /\ With(s, g) =>
               IF job'[s].at \in FileJobs THEN rows'[g] = rows[g] ELSE Described(g)'
    PROVE  Listing(s)' /\ Reconciling(s)'
<1>1. job[s].at \notin {"list", "prune", "hide", "drop"} /\ job'[s].at \notin {"list", "prune", "hide", "drop"}
  BY DEF FileJobs, ImportStages, RevalidateStages
<1>2. Listing(s)'
  BY <1>1, DiskSame DEF Listing, Pruning
<1>3. \A p : p # job[s].file => (p \in Done(s)' <=> p \in Done(s))
  BY <1>1 DEF Done
<1>4. job'[s].at \in FileJobs => Done(s)' = Done(s)
  BY DEF Done
<1>5. job'[s].at \notin FileJobs => job[s].file \in Done(s)'
  BY DEF Done, AtFile
<1>6. ASSUME NEW g \in Packages, PlainlyNamed(g), Files(g) = {}, Without(s, g)
      PROVE  Without(s, g)'
  <2>1. rows'[g] = rows[g]
    BY <1>6, Touches
  <2> QED
    BY <1>1, <1>6, <2>1 DEF Without, Pruning
<1>7. ASSUME NEW g \in Packages, PlainlyNamed(g), Good(g), With(s, g)
      PROVE  With(s, g)'
  <2>1. CASE job[s].file \notin Files(g)
    <3>1. rows'[g] = rows[g]
      BY <1>7, <2>1, Touches
    <3> QED
      BY <1>3, <1>7, <2>1, <3>1, WithSame
  <2>2. CASE job[s].file \in Files(g) /\ job'[s].at \in FileJobs
    BY <1>4, <1>7, <2>2, WithSame
  <2>3. CASE job[s].file \in Files(g) /\ job'[s].at \notin FileJobs
    BY <1>5, <1>7, <2>3, DiskSame DEF With
  <2> QED
    BY <2>1, <2>2, <2>3
<1>8. Reconciling(s)'
  <2>1. SawAllFiles(s)' <=> SawAllFiles(s)
    BY DiskSame DEF SawAllFiles
  <2> QED
    BY <1>1, <1>6, <1>7, <2>1, DiskSame DEF Reconciling
<1> QED
  BY <1>2, <1>8

LEMMA ImportQuiet ==
    ASSUME IInv, NEW s \in Scanners, NamedBy(s), Listing(s), AtFile(s), Reconciling(s),
           skipped'[s] = skipped[s], Import(s)
    PROVE  Listing(s)' /\ AtFile(s)' /\ Reconciling(s)'
<1> DEFINE p == job[s].file
<1>0. /\ disk' = disk /\ scan' = scan
      /\ job[s].at \in FileJobs /\ job'[s].at \in FileJobs \cup {"next"}
  BY FileWork
<1>1. p \in Paths /\ Exists(p)
  BY <1>0, Scanner DEF Fits, FileStages, FileJobs, Listing, AtFile
<1> USE DEF FileJobs, ImportStages, RevalidateStages, CorruptStages, ValidStages
<1>2. CASE ImportStat(s)
  <2>1. job[s].at = "stat" /\ rows' = rows /\ SameWork(s, "inspect")
    BY <1>1, <1>2, ImportStatIs
  <2>2. AtFile(s)'
    BY <1>0, <2>1 DEF AtFile, SameWork
  <2> QED
    BY <1>0, <2>1, <2>2, OneFile DEF SameWork
<1>3. CASE ImportInspect(s)
  <2>1. /\ job[s].at = "inspect" /\ rows' = rows
        /\ \/ disk[p].kind \in Broken /\ job'[s].at = "lockCorrupt" /\ job'[s].file = p
           \/ /\ disk[p].kind \in Parsed /\ job'[s].at = "lockValid" /\ job'[s].file = p
              /\ job'[s].game = Manifest[p] /\ job'[s].seen = disk[p]
    BY <1>0, <1>3, ImportInspectIs DEF AtFile
  <2>2. AtFile(s)'
    BY <1>0, <2>1 DEF AtFile
  <2> QED
    BY <1>0, <2>1, <2>2, OneFile
<1>4. CASE CorruptLock(s) \/ CorruptFlag(s) \/ CorruptUnexpose(s) \/ CorruptStore(s)
  <2>1. /\ job[s].at \in CorruptStages /\ disk[p].kind \in Broken
        /\ \A h \in Packages \ {job[s].game} : rows'[h] = rows[h]
        /\ (\E a \in CorruptStages : SameWork(s, a)) \/ job'[s].at = "next"
    BY <1>4, CorruptStepIs DEF AtFile
  <2>2. AtFile(s)'
    BY <1>0, <2>1 DEF AtFile, SameWork
  <2>3. ASSUME NEW g \in Packages, Good(g) PROVE p \notin Files(g)
    BY <2>1, <2>3, GoodIs DEF Parsed, Broken
  <2> QED
    BY <1>0, <2>1, <2>2, <2>3, OneFile DEF SameWork
<1>5. CASE ValidLock(s)
  <2>1. /\ job[s].at = "lockValid" /\ rows' = rows
        /\ SameWork(s, IF rows[job[s].game] = NoRow THEN "insert" ELSE "refresh")
    BY <1>5, ValidLockIs
  <2>2. AtFile(s)'
    BY <1>0, <2>1 DEF AtFile, SameWork
  <2> QED
    BY <1>0, <2>1, <2>2, OneFile DEF SameWork
<1>6. CASE ImportRefresh(s)
  <2> DEFINE g == job[s].game
  <2>1. /\ job[s].at = "refresh" /\ job'[s].at = "next" /\ g \in Packages
        /\ g = Manifest[p] /\ g \notin scan[s].known /\ rows[g] # NoRow
        /\ \A h \in Packages \ {g} : rows'[h] = rows[h]
        /\ rows'[g] = [rows[g] EXCEPT !.exposed = TRUE, !.stamp = clock, !.path = p]
    BY <1>6, ImportRefreshIs DEF AtFile, NamedBy
  <2>2. rows'[g] # NoRow /\ rows'[g].path = p /\ rows'[g].exposed /\ rows'[g].corrupted = rows[g].corrupted
    <3>1. rows[g] \in Row /\ clock \in Nat
      BY <2>1 DEF IInv, DataOK
    <3>2. rows'[g] \in Row
      BY <1>1, <2>1, <3>1 DEF Row
    <3> QED
      BY <2>1, <3>1, <3>2, NoRowAssumption DEF Row
  <2>3. AtFile(s)'
    BY <2>1 DEF AtFile
  <2>4. ASSUME NEW h \in Packages, PlainlyNamed(h), Good(h), p \in Files(h), With(s, h)
        PROVE  Described(h)'
    <3>1. h = g /\ p \notin Done(s)
      BY <1>0, <2>1, <2>4, FilesAre DEF Done
    <3>2. Described(g)
      BY <2>1, <2>4, <3>1 DEF With, Untouched
    <3>3. \A q : Files(g) # {q}
      BY <2>1, <2>4, <3>1 DEF With, Untouched
    <3>4. AllValid(g) /\ ~rows[g].corrupted
      BY <2>4, <3>1, <3>2, <3>3 DEF Good, Described
    <3> QED
      BY <1>0, <2>2, <2>4, <3>1, <3>3, <3>4, DiskSame DEF Described
  <2> QED
    BY <1>0, <2>1, <2>3, <2>4, OneFile
<1>7. CASE ImportInsert(s)
  <2> DEFINE g == job[s].game  bad == disk[p].kind = "badobb"
  <2>1. /\ job[s].at = "insert" /\ job'[s].at = "next" /\ g \in Packages
        /\ g = Manifest[p] /\ rows[g] = NoRow /\ job[s].seen.ver = disk[p].ver
        /\ disk[p].kind \in Parsed
        /\ \A h \in Packages \ {g} : rows'[h] = rows[h]
        /\ rows'[g] = [exposed |-> ~bad, corrupted |-> bad, ver |-> job[s].seen.ver,
                       path |-> p, stamp |-> clock]
    BY <1>7, ImportInsertIs DEF AtFile, NamedBy
  <2>2. /\ rows'[g] # NoRow /\ rows'[g].path = p
        /\ rows'[g].exposed = ~bad /\ rows'[g].corrupted = bad /\ rows'[g].ver = disk[p].ver
    <3>1. job[s].seen.ver \in Nat /\ clock \in Nat
      BY Scanner DEF Job, File, IInv, DataOK
    <3>2. rows'[g] \in Row
      BY <1>1, <2>1, <3>1 DEF Row
    <3> QED
      BY <2>1, <3>2, NoRowAssumption
  <2>3. AtFile(s)'
    BY <2>1 DEF AtFile
  <2>4. ASSUME NEW h \in Packages, Good(h), p \in Files(h)
        PROVE  Described(h)'
    <3>0. PICK q \in Paths : q = p
      BY <1>1
    <3>1. h = g
      BY <2>1, <2>4, FilesAre
    <3>2. IsBad(disk[q]) <=> bad
      BY <2>1, <3>0 DEF IsBad, Parsed, Broken
    <3>3. /\ rows'[h] # NoRow /\ rows'[h].path = q /\ rows'[h].ver = disk[q].ver
          /\ rows'[h].corrupted = IsBad(disk[q]) /\ rows'[h].exposed = ~IsBad(disk[q])
      BY <2>2, <3>0, <3>1, <3>2 DEF IsBad
    <3>4. Agrees(h, q)'
      BY <1>0, <3>3 DEF Agrees, IsBad
    <3>5. AllValid(h) => rows'[h].exposed /\ ~rows'[h].corrupted
      BY <2>4, <3>0, <3>3 DEF AllValid, IsBad, Broken
    <3> QED
      BY <1>0, <2>4, <3>0, <3>3, <3>4, <3>5, DiskSame DEF Described
  <2> QED
    BY <1>0, <2>1, <2>3, <2>4, OneFile
<1> QED
  BY <1>2, <1>3, <1>4, <1>5, <1>6, <1>7 DEF Import

LEMMA RevalidateQuiet ==
    ASSUME IInv, NEW s \in Scanners, NamedBy(s), Listing(s), AtFile(s), Reconciling(s),
           skipped'[s] = skipped[s], Revalidate(s)
    PROVE  Listing(s)' /\ AtFile(s)' /\ Reconciling(s)'
<1>0. /\ disk' = disk /\ scan' = scan
      /\ job[s].at \in FileJobs /\ job'[s].at \in FileJobs \cup {"next"}
  BY FileWork
<1>1. PICK p \in Paths : p = job[s].file /\ Exists(p)
  BY <1>0, Scanner DEF Fits, FileStages, FileJobs, Listing, AtFile
<1> USE DEF FileJobs, ImportStages, RevalidateStages, CorruptStages, ValidStages
<1>2. job[s].at \in RevalidateStages
  BY DEF Revalidate, RevalidateLock, RevalidateUnchanged, RevalidateGone, RevalidateChanged,
         RevalidateCheck, RevalidateWrite
<1>3. PICK g \in Packages : g = job[s].game /\ g = Manifest[p] /\ g \in scan[s].known /\ disk[p].kind \in Parsed
  BY <1>1, <1>2, Scanner DEF Fits, GameStages, Critical, NamedBy, AtFile
<1>4. p \notin Done(s)
  BY <1>0, <1>1 DEF Done
<1>5. ASSUME NEW h \in Packages, p \in Files(h) PROVE h = g
  BY <1>3, <1>5, FilesAre
<1>6. With(s, g) => rows[g] # NoRow
  BY <1>3 DEF With, Untouched, Described
<1>7. ASSUME job'[s].at = "next", \A h \in Packages \ {g} : rows'[h] = rows[h],
             PlainlyNamed(g) /\ Good(g) /\ p \in Files(g) /\ With(s, g) => Described(g)'
      PROVE  Listing(s)' /\ AtFile(s)' /\ Reconciling(s)'
  BY <1>0, <1>1, <1>2, <1>3, <1>5, <1>7, OneFile DEF AtFile
<1>8. CASE RevalidateLock(s)
  <2>1. /\ job[s].at = "rlock" /\ rows' = rows
        /\ \/ rows[g] = NoRow /\ job'[s].at = "next"
           \/ /\ rows[g] # NoRow /\ job'[s].at = "rstat" /\ job'[s].file = p
              /\ job'[s].game = g /\ job'[s].row = rows[g]
    BY <1>1, <1>3, <1>8, RevalidateLockIs
  <2>2. CASE rows[g] = NoRow
    BY <1>6, <1>7, <2>1, <2>2
  <2>3. CASE rows[g] # NoRow
    <3>1. AtFile(s)'
      BY <1>0, <1>1, <1>3, <2>1, <2>3 DEF AtFile
    <3> QED
      BY <1>0, <1>1, <2>1, <2>3, <3>1, OneFile
  <2> QED
    BY <2>2, <2>3
<1>9. CASE RevalidateUnchanged(s)
  <2>1. /\ job[s].at = "rstat" /\ job'[s].at = "next" /\ rows[g] # NoRow
        /\ disk[p].mtime = rows[g].stamp
        /\ \A h \in Packages \ {g} : rows'[h] = rows[h]
        /\ rows[g].path # NoPath => rows' = rows
    <3>1. job[s].at = "rstat" /\ rows[g] # NoRow /\ job[s].row = rows[g]
      BY <1>3, <1>9, RevalidateUnchangedIs DEF AtFile
    <3> QED
      BY <1>1, <1>3, <1>9, <3>1, RevalidateUnchangedIs
  <2>2. ASSUME p \in Files(g), With(s, g) PROVE Described(g)'
    <3>1. Described(g)
      BY <2>1, <2>2 DEF With, Untouched
    <3>2. rows' = rows
      BY <2>1, <3>1, FilesAre, NullAssumption DEF Described
    <3> QED
      BY <1>0, <3>1, <3>2, RowSame
  <2> QED
    BY <1>7, <2>1, <2>2
<1>10. CASE RevalidateGone(s)
  BY <1>1, <1>10, RevalidateGoneIs
<1>11. CASE RevalidateChanged(s) \/ RevalidateCheck(s)
  <2>1. /\ rows' = rows /\ job'[s].file = p /\ job'[s].game = g /\ job'[s].row = job[s].row
        /\ \/ job[s].at = "rstat" /\ job'[s].at = "rcheck"
           \/ /\ job[s].at = "rcheck" /\ job'[s].at = "rwrite"
              /\ job'[s].seen.kind = disk[p].kind /\ job'[s].seen.ver = disk[p].ver
    BY <1>1, <1>3, <1>11, RevalidateLooksIs
  <2>2. AtFile(s)'
    BY <1>0, <1>1, <1>3, <2>1 DEF AtFile
  <2> QED
    BY <1>0, <1>1, <2>1, <2>2, OneFile
<1>12. CASE RevalidateWrite(s)
  <2> DEFINE f == job[s].seen
  <2>1. /\ job[s].at = "rwrite" /\ job'[s].at = "next" /\ rows[g] # NoRow /\ job[s].row = rows[g]
        /\ f.kind = disk[p].kind /\ f.ver = disk[p].ver
        /\ \A h \in Packages \ {g} : rows'[h] = rows[h]
        /\ rows'[g] = [exposed |-> ~IsBad(f), corrupted |-> IsBad(f), ver |-> VersionAfter(s),
                       path |-> p, stamp |-> f.mtime]
    BY <1>1, <1>3, <1>12, RevalidateWriteIs DEF AtFile
  <2>2. IsBad(f) = IsBad(disk[p])
    BY <2>1 DEF IsBad
  <2>3. disk[p].kind = "valid" => VersionAfter(s) = disk[p].ver
    BY <1>3, <2>1 DEF VersionAfter
  <2>4. rows'[g] # NoRow
    <3>1. rows[g] \in Row /\ f \in File
      BY <2>1, Scanner DEF IInv, DataOK, Job
    <3>2. VersionAfter(s) \in Nat
      BY <1>3, <3>1 DEF VersionAfter, Row, File
    <3>3. rows'[g] \in Row
      BY <2>1, <3>1, <3>2 DEF Row, File, IsBad
    <3> QED
      BY <3>3, NoRowAssumption
  <2>5. /\ rows'[g].path = p /\ rows'[g].exposed = ~IsBad(disk[p]) /\ rows'[g].corrupted = IsBad(disk[p])
        /\ disk[p].kind = "valid" => rows'[g].ver = disk[p].ver
    BY <2>1, <2>2, <2>3
  <2>6. Agrees(g, p)'
    BY <1>0, <2>4, <2>5 DEF Agrees, IsBad
  <2>7. p \in Files(g) /\ AllValid(g) => rows'[g].exposed /\ ~rows'[g].corrupted
    BY <2>5 DEF AllValid, IsBad, Broken
  <2>8. p \in Files(g) => Described(g)'
    BY <1>0, <2>4, <2>5, <2>6, <2>7, DiskSame DEF Described
  <2> QED
    BY <1>7, <2>1, <2>8
<1> QED
  BY <1>8, <1>9, <1>10, <1>11, <1>12 DEF Revalidate

LEMMA RescanQuiet ==
    ASSUME IInv, NEW s \in Scanners, RowsNamed, Listing(s), AtFile(s), Reconciling(s),
           skipped'[s] = skipped[s], Rescan(s), job'[s].at # "idle"
    PROVE  Listing(s)' /\ AtFile(s)' /\ Reconciling(s)'
<1> DEFINE c == scan[s]
<1>0. c.listed \subseteq Paths /\ c.todo \subseteq Paths /\ c.found \subseteq Packages
  BY Scanner DEF Scan
<1> USE DEF FileJobs, ImportStages, RevalidateStages, CorruptStages, ValidStages, Pruning
<1>1. ASSUME NEW f \in Folders, ScanFolder(s, f) PROVE Listing(s)' /\ AtFile(s)' /\ Reconciling(s)'
  <2>1. /\ job[s].at = "list" /\ job'[s].at = "list" /\ disk' = disk /\ rows' = rows
        /\ scan'[s].found = c.found
        /\ \A p \in scan'[s].listed : Exists(p)
    BY <1>1, ScanFolderIs DEF Listing
  <2>2. Matching' = Matching
    BY <2>1, DiskSame DEF Matching
  <2> QED
    BY <2>1, <2>2, DiskSame DEF Listing, AtFile, Reconciling
<1>2. CASE ScanKnown(s)
  <2>1. /\ job[s].at = "list" /\ job'[s].at = "next" /\ disk' = disk /\ rows' = rows
        /\ scan'[s].listed = c.listed /\ scan'[s].todo = c.listed /\ scan'[s].found = c.found
        /\ scan'[s].known = {g \in Packages : rows[g] # NoRow}
    BY <1>2, ScanKnownIs
  <2>2. Listing(s)' /\ AtFile(s)'
    BY <2>1, DiskSame DEF Listing, AtFile
  <2>3. Done(s)' = {}
    BY <2>1 DEF Done
  <2>4. ASSUME NEW g \in Packages PROVE Without(s, g)'
    BY <2>1, <2>4 DEF Without
  <2>5. ASSUME NEW g \in Packages, g \notin skipped[s] PROVE With(s, g)'
    <3>1. \A p \in Files(g) : rows[g] # NoRow => rows[g].stamp # disk[p].mtime
      BY <2>1, <2>5, FilesAre DEF Listing, Matching
    <3>2. Untouched(s, g)'
      BY <2>1, <3>1, DiskSame DEF Untouched
    <3> QED
      BY <2>3, <3>2 DEF With
  <2> QED
    BY <2>2, <2>4, <2>5 DEF Reconciling
<1>3. ASSUME NEW p \in Paths, ScanFile(s, p) PROVE Listing(s)' /\ AtFile(s)' /\ Reconciling(s)'
  <2>1. /\ job[s].at = "next" /\ p \in c.todo /\ p \in c.listed /\ disk' = disk /\ rows' = rows
        /\ scan'[s].listed = c.listed /\ scan'[s].known = c.known
        /\ scan'[s].todo = c.todo \ {p} /\ scan'[s].found = c.found \cup FoundAt(p)
        /\ \/ disk[p].kind = "unparsed" /\ job'[s].at = "next"
           \/ /\ disk[p].kind \in Parsed /\ Manifest[p] \in c.known
              /\ job'[s].at = "rlock" /\ job'[s].file = p /\ job'[s].game = Manifest[p]
           \/ /\ disk[p].kind # "unparsed" /\ (disk[p].kind \in Parsed => Manifest[p] \notin c.known)
              /\ job'[s].at = "stat" /\ job'[s].file = p
    BY <1>3, ScanFileIs DEF Listing
  <2>2. Listing(s)'
    BY <2>1, DiskSame DEF Listing
  <2>3. AtFile(s)'
    BY <2>1 DEF AtFile, Parsed
  <2>4. \A q : disk[q].kind \in Parsed => (q \in Done(s)' <=> q \in Done(s))
    BY <2>1 DEF Done, Parsed
  <2>5. ASSUME NEW g \in Packages, Good(g), With(s, g) PROVE With(s, g)'
    BY <2>1, <2>4, <2>5, GoodIs, WithSame
  <2>6. ASSUME NEW g \in Packages, Without(s, g) PROVE Without(s, g)'
    BY <2>1, <2>6 DEF Without
  <2>7. SawAllFiles(s)' <=> SawAllFiles(s)
    BY <2>1, DiskSame DEF SawAllFiles
  <2> QED
    BY <2>1, <2>2, <2>3, <2>5, <2>6, <2>7, DiskSame DEF Reconciling
<1>4. CASE ScanPrune(s)
  <2>1. /\ job[s].at = "next" /\ job'[s].at = "prune" /\ c.todo = {} /\ disk' = disk /\ rows' = rows
        /\ scan'[s].listed = c.listed /\ scan'[s].known = c.known
        /\ scan'[s].todo = c.todo /\ scan'[s].found = c.found
        /\ scan'[s].doomed = c.known \ c.found
    BY <1>4, ScanPruneIs
  <2>2. Listing(s)' /\ AtFile(s)'
    BY <2>1, DiskSame DEF Listing, AtFile
  <2>3. \A p : p \in Done(s)' <=> p \in Done(s)
    BY <2>1 DEF Done
  <2>4. ASSUME NEW g \in Packages, With(s, g) PROVE With(s, g)'
    BY <2>1, <2>3, <2>4, WithSame
  <2>5. ASSUME NEW g \in Packages, PlainlyNamed(g), Files(g) = {}, Without(s, g) PROVE Without(s, g)'
    <3>1. g \notin c.found
      <4> SUFFICES ASSUME NEW p \in c.listed, g \in FoundAt(p) PROVE FALSE
        BY <2>1 DEF Listing
      <4> QED
        BY <1>0, <2>5, FilesAre DEF FoundAt, PlainlyNamed, Listing
    <3>2. rows[g] # NoRow <=> g \in c.known
      BY <2>1, <2>5 DEF Without
    <3>3. g \in scan'[s].doomed \/ Gone(g)
      BY <2>1, <3>1, <3>2 DEF Gone
    <3> QED
      BY <2>1, <3>3, RowSame DEF Without
  <2>6. SawAllFiles(s)' <=> SawAllFiles(s)
    BY <2>1, DiskSame DEF SawAllFiles
  <2> QED
    BY <2>1, <2>2, <2>4, <2>5, <2>6, DiskSame DEF Reconciling
<1>5. ASSUME NEW h \in Packages, PruneRead(s, h) PROVE Listing(s)' /\ AtFile(s)' /\ Reconciling(s)'
  <2>1. /\ job[s].at = "prune" /\ h \in c.doomed /\ disk' = disk /\ rows' = rows
        /\ scan'[s].listed = c.listed /\ scan'[s].known = c.known
        /\ scan'[s].todo = c.todo /\ scan'[s].found = c.found
        /\ scan'[s].doomed = c.doomed \ {h}
        /\ \/ rows[h] # NoRow /\ rows[h].corrupted /\ job'[s].at = "hide" /\ job'[s].game = h
           \/ rows[h] # NoRow /\ ~rows[h].corrupted /\ Seen(s, h) /\ job'[s].at = "prune"
           \/ /\ rows[h] # NoRow => ~rows[h].corrupted /\ ~Seen(s, h)
              /\ job'[s].at = "drop" /\ job'[s].game = h
    BY <1>5, PruneReadIs
  <2>2. Listing(s)' /\ AtFile(s)'
    BY <2>1, DiskSame DEF Listing, AtFile
  <2>3. \A p : p \in Done(s)' <=> p \in Done(s)
    BY <2>1 DEF Done
  <2>4. ASSUME NEW g \in Packages, With(s, g) PROVE With(s, g)'
    BY <2>1, <2>3, <2>4, WithSame
  <2>5. ASSUME NEW g \in Packages, PlainlyNamed(g), Files(g) = {}, Without(s, g) PROVE Without(s, g)'
    <3>1. rows[g] # NoRow => ~Seen(s, g)
      BY <1>0, <2>5, FilesAre, NullAssumption DEF Seen, RowsNamed, Names, PlainlyNamed, Listing
    <3> QED
      BY <2>1, <2>5, <3>1, RowSame DEF Without
  <2>6. SawAllFiles(s)' <=> SawAllFiles(s)
    BY <2>1, DiskSame DEF SawAllFiles
  <2> QED
    BY <2>1, <2>2, <2>4, <2>5, <2>6, DiskSame DEF Reconciling
<1>6. CASE PruneHide(s) \/ PruneDrop(s)
  <2>1. PICK h \in Packages : h = job[s].game
    BY <1>6, PruneWriteIs
  <2>2. /\ job[s].at \in {"hide", "drop"} /\ job'[s].at = "prune" /\ disk' = disk /\ scan' = scan
        /\ \A g \in Packages \ {h} : rows'[g] = rows[g]
        /\ job[s].at = "drop" => rows'[h] = NoRow
        /\ job[s].at = "hide" => IF rows[h] = NoRow THEN rows'[h] = NoRow
                                 ELSE rows'[h] = [rows[h] EXCEPT !.exposed = FALSE, !.stamp = clock]
    BY <1>6, <2>1, PruneWriteIs
  <2>3. h \notin c.found
    BY <2>1, <2>2 DEF Listing
  <2>4. Listing(s)' /\ AtFile(s)'
    BY <2>2, DiskSame DEF Listing, AtFile
  <2>5. \A p : p \in Done(s)' <=> p \in Done(s)
    BY <2>2 DEF Done
  <2>6. ASSUME NEW g \in Packages, SawAllFiles(s), Good(g), With(s, g) PROVE With(s, g)'
    <3>1. PICK p \in Files(g) : disk[p].kind \in Parsed
      BY <2>6, GoodIs
    <3>2. p \in Paths /\ p \in c.listed /\ Manifest[p] = g
      BY <2>6, <3>1, FilesAre DEF SawAllFiles
    <3>3. g \in c.found
      BY <2>2, <3>1, <3>2 DEF Listing, FoundAt, Parsed, Broken
    <3>4. rows'[g] = rows[g]
      BY <2>2, <2>3, <3>3
    <3> QED
      BY <2>2, <2>5, <2>6, <3>4, WithSame
  <2>7. ASSUME NEW g \in Packages, Without(s, g) PROVE Without(s, g)'
    <3>1. CASE g # h
      BY <2>1, <2>2, <2>7, <3>1, RowSame DEF Without
    <3>2. CASE g = h
      <4>1. rows[h] \in Row \cup {NoRow}
        BY DEF IInv, DataOK
      <4>2. Gone(g)'
        BY <2>1, <2>2, <2>7, <3>2, <4>1 DEF Without, Gone, Row
      <4> QED
        BY <2>2, <4>2 DEF Without
    <3> QED
      BY <3>1, <3>2
  <2>8. SawAllFiles(s)' <=> SawAllFiles(s)
    BY <2>2, DiskSame DEF SawAllFiles
  <2> QED
    BY <2>2, <2>4, <2>6, <2>7, <2>8, DiskSame DEF Reconciling
<1>7. ~ScanEnd(s)
  BY ScanEndIs
<1> QED
  BY <1>1, <1>2, <1>3, <1>4, <1>5, <1>6, <1>7 DEF Rescan

LEMMA OutsideCounts ==
    ASSUME IInv, [Next]_vars, ops' = ops
    PROVE  /\ disk' = disk
           /\ \A s \in Scanners : ~ScanStart(s) /\ ~ScanCancel(s)
           /\ ~Crash
<1>0. ~Outside
  BY DEF Outside, IInv, DataOK
<1>1. ~(\E p \in Paths, k \in Kinds \ {"absent"}, v \in Versions, t \in 0..clock : WriteFile(p, k, v, t))
  BY <1>0 DEF WriteFile
<1>2. Environment => disk' = disk
  BY <1>0, <1>1 DEF Environment, RemoveFile, MoveFile, Tick
<1>3. ASSUME NEW w \in Watchers, WatchStep(w) PROVE disk' = disk
  BY <1>3, FileWorkIs DEF WatchStep, WatchEvent
<1>4. ASSUME NEW s \in Scanners, ScanStep(s) PROVE disk' = disk
  BY <1>4, FileWorkIs DEF ScanStep, Rescan, ScanFolder, ScanKnown, ScanFile, ScanPrune, PruneRead,
     PruneHide, PruneDrop, ScanEnd
<1>5. ASSUME NEW a \in Admins, Manual(a) PROVE disk' = disk
  BY <1>5 DEF Manual, ManualHide, ManualStat, ManualCheck, ManualWrite
<1>6. ~Requests
  BY <1>0 DEF Requests, ScanStart, ScanCancel, ManualStart, Toggle, DeleteRequest
<1> QED
  BY <1>0, <1>2, <1>3, <1>4, <1>5, <1>6 DEF Next, vars, Crash, ScanStart, ScanCancel

LEMMA QuietStays ==
    ASSUME IInv, Named, HNext, NEW s \in Scanners, Quiet(s)
    PROVE  Quiet(s)'
<1> SUFFICES ASSUME alone'[s] PROVE Listing(s)' /\ AtFile(s)' /\ Reconciling(s)'
  BY DEF Quiet
<1>0. Record /\ [Next]_vars
  BY DEF HNext
<1>1. CASE Starts(s)
  <2>1. ScanStart(s)
    <3>1. job[s].at = "idle" /\ job'[s].at = "list"
      BY <1>1 DEF Starts
    <3>2. ~Crash
      BY <3>1, Scanner DEF Crash, Idle
    <3>3. ~Import(s) /\ ~Revalidate(s)
      BY <3>1, FileWork DEF FileJobs, ImportStages, RevalidateStages
    <3>4. ~Rescan(s)
      BY <3>1 DEF Rescan, ScanFolder, ScanKnown, ScanFile, ScanPrune, PruneRead, PruneHide, PruneDrop, ScanEnd
    <3>5. ~ScanCancel(s)
      BY <3>1, ScanCancelIs
    <3> QED
      BY <1>0, <3>1, <3>2, <3>3, <3>4, <3>5, ScannerSteps DEF ScanStep
  <2>2. /\ job'[s].at = "list" /\ disk' = disk /\ rows' = rows
        /\ scan'[s].listed = {} /\ scan'[s].found = {}
    BY <2>1, ScanStartIs DEF NoScan
  <2>3. skipped'[s] = Matching /\ Matching' = Matching
    BY <1>0, <1>1, <2>2, DiskSame DEF Record, Matching
  <2> QED
    BY <2>2, <2>3 DEF Listing, AtFile, Reconciling, Pruning, FileJobs, ImportStages, RevalidateStages
<1>2. CASE ~Starts(s)
  <2>1. /\ Runs(s) /\ alone[s] /\ ops' = ops /\ (Acts(s) \/ rows' = rows)
        /\ skipped'[s] = skipped[s]
    BY <1>0, <1>2 DEF Record
  <2>2. Listing(s) /\ AtFile(s) /\ Reconciling(s) /\ RowsNamed /\ NamedBy(s)
    BY <2>1 DEF Quiet, Named
  <2>3. disk' = disk
    BY <1>0, <2>1, OutsideCounts
  <2>4. CASE Import(s) \/ Revalidate(s)
    BY <2>1, <2>2, <2>4, ImportQuiet, RevalidateQuiet
  <2>5. CASE Rescan(s)
    BY <2>1, <2>2, <2>5, RescanQuiet DEF Runs
  <2>6. CASE job'[s] = job[s] /\ scan'[s] = scan[s]
    <3>1. rows' = rows
      BY <2>1, <2>6 DEF Acts
    <3>2. Matching' = Matching
      BY <2>3, <3>1, DiskSame DEF Matching
    <3>3. Listing(s)' /\ AtFile(s)'
      BY <2>1, <2>2, <2>3, <2>6, <3>1, <3>2, DiskSame DEF Listing, AtFile
    <3>4. \A p : p \in Done(s)' <=> p \in Done(s)
      BY <2>6 DEF Done
    <3>5. \A g \in Packages : With(s, g) => With(s, g)'
      BY <2>3, <2>6, <3>1, <3>4, WithSame
    <3>6. \A g \in Packages : Without(s, g) => Without(s, g)'
      BY <2>3, <2>6, <3>1, RowSame DEF Without
    <3>7. SawAllFiles(s)' <=> SawAllFiles(s)
      BY <2>3, <2>6, DiskSame DEF SawAllFiles
    <3> QED
      BY <2>1, <2>2, <2>3, <2>6, <3>3, <3>5, <3>6, <3>7, DiskSame DEF Reconciling
  <2> QED
    BY <1>0, <2>1, <2>4, <2>5, <2>6, OutsideCounts, ScannerSteps DEF ScanStep
<1> QED
  BY <1>1, <1>2

LEMMA InitQuiet == HInit => Named /\ AllQuiet
BY InitNamed DEF HInit, AllQuiet, Quiet

LEMMA QuietNext == IInv /\ Named /\ AllQuiet /\ [HNext]_hvars => AllQuiet'
<1> SUFFICES ASSUME IInv, Named, AllQuiet, [HNext]_hvars PROVE AllQuiet'
  OBVIOUS
<1>1. CASE HNext
  BY <1>1, QuietStays DEF AllQuiet
<1>2. CASE UNCHANGED hvars
  <2> SUFFICES ASSUME NEW s \in Scanners, Quiet(s) PROVE Quiet(s)'
    BY DEF AllQuiet
  <2>1. /\ disk' = disk /\ rows' = rows /\ job' = job /\ scan' = scan
        /\ alone' = alone /\ skipped' = skipped
    BY <1>2 DEF hvars
  <2>2. Matching' = Matching
    BY <2>1, DiskSame DEF Matching
  <2>3. (Listing(s)' <=> Listing(s)) /\ (AtFile(s)' <=> AtFile(s))
    BY <2>1, <2>2, DiskSame DEF Listing, AtFile
  <2>4. \A p : p \in Done(s)' <=> p \in Done(s)
    BY <2>1 DEF Done
  <2>5. \A g \in Packages : With(s, g) => With(s, g)'
    BY <2>1, <2>4, WithSame
  <2>6. \A g \in Packages : Without(s, g) => Without(s, g)'
    BY <2>1, RowSame DEF Without
  <2>7. SawAllFiles(s)' <=> SawAllFiles(s)
    BY <2>1, DiskSame DEF SawAllFiles
  <2> QED
    BY <2>1, <2>3, <2>5, <2>6, <2>7, DiskSame DEF Quiet, Reconciling
<1> QED
  BY <1>1, <1>2

\* However large the library, a rescan that nobody disturbs and that read every
\* folder with files ends with the table in agreement with the disk.
THEOREM QuietReconciles == HSpec => []QuietRescanReconciles
<1>1. HInit => IInv /\ Named /\ AllQuiet
  BY InitHolds, InitQuiet DEF HInit
<1>2. IInv /\ Named /\ AllQuiet /\ [HNext]_hvars => (IInv /\ Named /\ AllQuiet)'
  BY LibrarySteps, Inductive, NamedNext, QuietNext
<1>3. IInv /\ AllQuiet => QuietRescanReconciles
  <2> SUFFICES ASSUME IInv, NEW s \in Scanners, Quiet(s), Ended(s), alone[s], SawAllFiles(s),
                      NEW g \in Packages, PlainlyNamed(g)
               PROVE  /\ Files(g) = {} => rows[g] = NoRow \/ (rows[g].corrupted /\ ~rows[g].exposed)
                      /\ \A p \in Paths :
                            Files(g) = {p} /\ disk[p].kind \in Parsed => Agrees(g, p) \/ g \in skipped[s]
                      /\ Files(g) # {} /\ (\A p \in Files(g) : disk[p].kind = "valid") /\ g \notin skipped[s]
                         => rows[g] # NoRow /\ rows[g].path \in Files(g) /\ rows[g].exposed /\ ~rows[g].corrupted
    BY DEF QuietRescanReconciles, AllQuiet
  <2>1. job[s].at = "prune" /\ scan[s].doomed = {} /\ scan[s].todo = {}
    BY DEF Ended, Quiet, Listing, Pruning
  <2>2. /\ Files(g) = {} => Without(s, g)
        /\ Good(g) /\ g \notin skipped[s] => With(s, g)
    BY <2>1 DEF Quiet, Reconciling
  <2>3. Files(g) = {} => Gone(g)
    BY <2>1, <2>2 DEF Without, Pruning
  <2>4. \A p \in Files(g) : p \in Done(s)
    BY <2>1, FilesAre DEF SawAllFiles, Done, FileJobs, ImportStages, RevalidateStages
  <2>5. Good(g) /\ g \notin skipped[s] => Described(g)
    BY <2>2, <2>4, GoodIs DEF With
  <2> QED
    BY <2>3, <2>5 DEF Gone, Good, AllValid, Described
<1> QED
  BY <1>1, <1>2, <1>3, PTL DEF HSpec

----------------------------------------------------------------------------
(* Where the stamps of rows come from. *)

Stamped(g) ==
    \/ rows'[g] = rows[g] \/ rows'[g] = NoRow \/ rows'[g].stamp = clock
    \/ \E w \in Workers : /\ job[w].at \in {"rwrite", "mwrite"} /\ job'[w] # job[w] /\ job[w].game = g
                          /\ rows'[g].stamp = job[w].seen.mtime

LEMMA UpdateStamped ==
    ASSUME IInv, NEW h \in Packages, NEW r, rows[h] # NoRow => r.stamp = clock, Update(h, r)
    PROVE  \A g \in Packages : Stamped(g)
BY UpdateIs DEF Stamped

LEMMA InsertStamped ==
    ASSUME IInv, NEW h \in Packages, NEW r, r.stamp = clock, Insert(h, r)
    PROVE  \A g \in Packages : Stamped(g)
BY InsertIs DEF Stamped

LEMMA ExposedStamped ==
    ASSUME IInv, NEW h \in Packages, NEW e, SetExposed(h, e)
    PROVE  \A g \in Packages : Stamped(g)
<1>1. rows[h] # NoRow => [rows[h] EXCEPT !.exposed = e, !.stamp = clock].stamp = clock
  BY DEF IInv, DataOK, Row
<1> QED
  BY <1>1, UpdateStamped DEF SetExposed

LEMMA FileStamped ==
    ASSUME IInv, NEW w \in Watchers \cup Scanners, Import(w) \/ Revalidate(w)
    PROVE  \A g \in Packages : Stamped(g)
<1> DEFINE h == job[w].game
<1>0. /\ w \in Workers /\ Fits(w, job[w]) /\ \A j : Becomes(w, j) => job'[w] = j
      /\ h \in Packages /\ rows[h] # NoRow => rows[h] \in Row
  BY BecomesIs DEF IInv, Coherent, DataOK, Workers
<1> USE DEF GameStages, Critical
<1>1. CASE rows' = rows
  BY <1>1 DEF Stamped
<1>2. CASE CorruptFlag(w)
  <2>1. h \in Packages
    BY <1>0, <1>2 DEF CorruptFlag, Fits
  <2>2. rows[h] # NoRow => [rows[h] EXCEPT !.corrupted = TRUE, !.stamp = clock].stamp = clock
    BY <1>0, <2>1 DEF Row
  <2> QED
    BY <1>2, <2>1, <2>2, UpdateStamped DEF CorruptFlag
<1>3. CASE CorruptUnexpose(w)
  BY <1>0, <1>3, ExposedStamped DEF CorruptUnexpose, Fits
<1>4. CASE CorruptStore(w)
  BY <1>0, <1>4, InsertStamped DEF CorruptStore, Fits
<1>5. CASE ImportRefresh(w)
  <2>1. h \in Packages
    BY <1>0, <1>5 DEF ImportRefresh, Fits
  <2>2. rows[h] # NoRow =>
          [rows[h] EXCEPT !.exposed = TRUE, !.stamp = clock, !.path = job[w].file].stamp = clock
    BY <1>0, <2>1 DEF Row
  <2> QED
    BY <1>5, <2>1, <2>2, UpdateStamped DEF ImportRefresh
<1>6. CASE ImportInsert(w)
  BY <1>0, <1>6, InsertStamped DEF ImportInsert, Fits
<1>7. CASE RevalidateUnchanged(w)
  <2>1. h \in Packages
    BY <1>0, <1>7 DEF RevalidateUnchanged, Fits
  <2>2. rows[h] # NoRow => [rows[h] EXCEPT !.path = job[w].file, !.stamp = clock].stamp = clock
    BY <1>0, <2>1 DEF Row
  <2> QED
    BY <1>1, <1>7, <2>1, <2>2, UpdateStamped DEF RevalidateUnchanged
<1>8. CASE RevalidateWrite(w)
  <2>1. job'[w] # job[w]
    BY <1>0, <1>8 DEF RevalidateWrite, Back, Idle
  <2>2. h \in Packages
    BY <1>0, <1>8 DEF RevalidateWrite, Fits
  <2>3. /\ \A g \in Packages \ {h} : rows'[g] = rows[g]
        /\ rows'[h] = NoRow \/ rows'[h].stamp = job[w].seen.mtime
    BY <1>8, <2>2, UpdateIs DEF RevalidateWrite
  <2> QED
    BY <1>0, <1>8, <2>1, <2>3 DEF RevalidateWrite, Stamped
<1> QED
  BY <1>1, <1>2, <1>3, <1>4, <1>5, <1>6, <1>7, <1>8
  DEF Import, ImportStat, ImportInspect, CorruptLock, ValidLock, Revalidate, RevalidateLock,
      RevalidateGone, RevalidateChanged, RevalidateCheck

LEMMA Stamping == ASSUME IInv, [Next]_vars PROVE \A g \in Packages : Stamped(g)
<1>0. CASE rows' = rows
  BY <1>0 DEF Stamped
<1>1. CASE Environment \/ Crash \/ UNCHANGED vars
  BY <1>0, <1>1 DEF Environment, WriteFile, RemoveFile, MoveFile, Tick, Crash, vars
<1>2. ASSUME NEW w \in Watchers, WatchStep(w) PROVE \A g \in Packages : Stamped(g)
  BY <1>0, <1>2, FileStamped DEF WatchStep, WatchEvent
<1>3. ASSUME NEW s \in Scanners, ScanStep(s) PROVE \A g \in Packages : Stamped(g)
  <2>1. CASE PruneHide(s)
    BY <2>1, PruneWriteIs, ExposedStamped DEF PruneHide
  <2>2. CASE PruneDrop(s)
    BY <2>2, PruneWriteIs DEF PruneDrop, Stamped
  <2> QED
    BY <1>0, <1>3, <2>1, <2>2, FileStamped DEF ScanStep, Rescan, ScanFolder, ScanKnown, ScanFile, ScanPrune,
       PruneRead, ScanEnd
<1>4. ASSUME NEW a \in Admins, Manual(a) PROVE \A g \in Packages : Stamped(g)
  <2> DEFINE h == job[a].game
  <2>1. a \in Workers /\ Fits(a, job[a]) /\ \A j : Becomes(a, j) => job'[a] = j
    BY BecomesIs DEF IInv, Coherent, Workers
  <2>2. CASE ManualHide(a)
    BY <2>1, <2>2, ExposedStamped DEF ManualHide, Fits, GameStages, ManualStages
  <2>3. CASE ManualWrite(a)
    <3>1. job'[a] # job[a]
      BY <2>1, <2>3 DEF ManualWrite, Idle
    <3>2. h \in Packages
      BY <2>1, <2>3 DEF ManualWrite, Fits, GameStages, ManualStages
    <3>3. rows[h] \in Row \cup {NoRow}
      BY <3>2 DEF IInv, DataOK
    <3> DEFINE f == job[a].seen
               r == [rows[h] EXCEPT !.exposed = ~IsBad(f), !.corrupted = IsBad(f),
                                    !.ver = IF f.kind = "valid" THEN f.ver ELSE job[a].row.ver,
                                    !.stamp = f.mtime]
    <3>4. Update(h, r) /\ (rows[h] # NoRow => r.stamp = job[a].seen.mtime)
      BY <2>3, <3>3 DEF ManualWrite, Row
    <3>5. /\ \A g \in Packages \ {h} : rows'[g] = rows[g]
          /\ rows'[h] = NoRow \/ rows'[h].stamp = job[a].seen.mtime
      BY <3>2, <3>4, UpdateIs
    <3> QED
      BY <2>1, <2>3, <3>1, <3>5 DEF ManualWrite, Stamped
  <2> QED
    BY <1>0, <1>4, <2>2, <2>3 DEF Manual, ManualStat, ManualCheck
<1>5. CASE Requests
  <2>1. ASSUME NEW g \in Packages, NEW e \in BOOLEAN, Toggle(g, e) PROVE \A h \in Packages : Stamped(h)
    BY <2>1, ExposedStamped DEF Toggle
  <2>2. ASSUME NEW g \in Packages, DeleteRequest(g) PROVE \A h \in Packages : Stamped(h)
    BY <2>2 DEF DeleteRequest, Stamped, IInv, DataOK
  <2> QED
    BY <1>0, <1>5, <2>1, <2>2 DEF Requests, ScanStart, ScanCancel, ManualStart
<1> QED
  BY <1>1, <1>2, <1>3, <1>4, <1>5 DEF Next

\* Where the mtime in a job comes from: a file that is there now, or no file.
SeenBy(w) ==
    \/ job'[w].seen.mtime = job[w].seen.mtime
    \/ job'[w].seen.mtime = 0
    \/ \E p \in Paths : job'[w].seen.mtime = disk[p].mtime

LEMMA FreshJob ==
    /\ Idle.seen.mtime = 0
    /\ \A w : Back(w).seen.mtime = 0
    /\ \A a : [Idle EXCEPT !.at = a].seen.mtime = 0
    /\ \A a, g : [Idle EXCEPT !.at = a, !.game = g].seen.mtime = 0
    /\ \A a, p : [Idle EXCEPT !.at = a, !.file = p].seen.mtime = 0
    /\ \A a, p, g : [Idle EXCEPT !.at = a, !.file = p, !.game = g].seen.mtime = 0
    /\ \A a, p, g, r : [Idle EXCEPT !.at = a, !.game = g, !.file = p, !.row = r].seen.mtime = 0
BY DEF Back, Idle, Nothing

LEMMA FileSeen ==
    ASSUME IInv, NEW w \in Watchers \cup Scanners, Import(w) \/ Revalidate(w)
    PROVE  SeenBy(w)
<1> DEFINE p == job[w].file
<1>0. /\ w \in Workers /\ Fits(w, job[w]) /\ job[w] \in Job /\ disk \in [Paths -> File]
      /\ \A j : Becomes(w, j) => job'[w] = j
  BY BecomesIs DEF IInv, Coherent, DataOK, Workers
<1> USE DEF FileStages, ImportStages, RevalidateStages
<1>1. CASE job'[w] = Back(w)
  BY <1>1, FreshJob DEF SeenBy
<1>2. ASSUME NEW a, Goto(w, a) PROVE SeenBy(w)
  BY <1>0, <1>2 DEF Goto, Job, SeenBy
<1>3. CASE ImportStat(w)
  BY <1>0, <1>1, <1>3 DEF ImportStat, Job, SeenBy
<1>4. CASE ImportInspect(w)
  <2>1. p \in Paths
    BY <1>0, <1>4 DEF ImportInspect, Fits
  <2>2. CASE Becomes(w, [job[w] EXCEPT !.at = "lockCorrupt", !.game = FileName[p]])
    BY <1>0, <2>2 DEF Job, SeenBy
  <2>3. CASE Becomes(w, [job[w] EXCEPT !.at = "lockValid", !.game = Manifest[p], !.seen = disk[p]])
    <3>1. job'[w].seen = disk[p]
      BY <1>0, <2>3 DEF Job
    <3> QED
      BY <2>1, <3>1 DEF SeenBy
  <2> QED
    BY <1>0, <1>1, <1>4, <2>2, <2>3 DEF ImportInspect
<1>5. CASE Import(w)
  BY <1>0, <1>1, <1>2, <1>3, <1>4, <1>5 DEF Import, CorruptLock, CorruptFlag, CorruptUnexpose, CorruptStore,
     ValidLock, ImportRefresh, ImportInsert
<1>6. CASE RevalidateLock(w)
  <2>1. CASE Becomes(w, [job[w] EXCEPT !.at = "rstat", !.row = rows[job[w].game]])
    BY <1>0, <2>1 DEF Job, SeenBy
  <2> QED
    BY <1>0, <1>1, <1>6, <2>1 DEF RevalidateLock
<1>7. CASE RevalidateChanged(w)
  <2>1. p \in Paths
    BY <1>0, <1>7 DEF RevalidateChanged, Fits
  <2>2. job'[w].seen = [Nothing EXCEPT !.mtime = disk[p].mtime]
    BY <1>0, <1>7 DEF RevalidateChanged, Job
  <2>3. job'[w].seen.mtime = disk[p].mtime
    BY <2>2 DEF Nothing
  <2> QED
    BY <2>1, <2>3 DEF SeenBy
<1>8. CASE RevalidateCheck(w)
  <2>1. p \in Paths
    BY <1>0, <1>8 DEF RevalidateCheck, Fits
  <2>2. job'[w].seen = Verdict(w)
    BY <1>0, <1>8 DEF RevalidateCheck, Job
  <2>3. Verdict(w).mtime = job[w].seen.mtime
    BY <1>0, <2>1 DEF Verdict, File
  <2> QED
    BY <2>2, <2>3 DEF SeenBy
<1> QED
  BY <1>0, <1>1, <1>5, <1>6, <1>7, <1>8 DEF Revalidate, RevalidateUnchanged, RevalidateGone, RevalidateWrite

LEMMA Seeing == ASSUME IInv, [Next]_vars PROVE \A y \in Workers : SeenBy(y)
<1>0. CASE job' = job
  BY <1>0 DEF SeenBy
<1>1. ASSUME NEW x \in Workers, Spares(x), SeenBy(x) PROVE \A y \in Workers : SeenBy(y)
  BY <1>1 DEF Spares, SeenBy
<1>2. ASSUME NEW w \in Watchers \cup Scanners, Import(w) \/ Revalidate(w) PROVE \A y \in Workers : SeenBy(y)
  BY <1>1, <1>2, FileSeen, ImportSpares, RevalidateSpares DEF Workers
<1>3. ASSUME NEW w \in Watchers, NEW p \in Paths, WatchEvent(w, p) PROVE \A y \in Workers : SeenBy(y)
  <2>1. w \in Workers /\ Spares(w)
    BY <1>3, WatchSpares DEF Workers
  <2>2. job' = job \/ job'[w] = [Idle EXCEPT !.at = "stat", !.file = p]
    BY <1>3, <2>1, BecomesIs DEF WatchEvent, IInv, Coherent
  <2>3. ASSUME job'[w] = [Idle EXCEPT !.at = "stat", !.file = p] PROVE SeenBy(w)
    BY <2>3, FreshJob DEF SeenBy
  <2> QED
    BY <1>0, <1>1, <2>1, <2>2, <2>3
<1>4. ASSUME NEW s \in Scanners, Rescan(s) \/ ScanStart(s) \/ ScanCancel(s) PROVE \A y \in Workers : SeenBy(y)
  <2>1. s \in Workers /\ Spares(s) /\ \A j : Becomes(s, j) => job'[s] = j
    BY <1>4, RescanSpares, Scanner DEF Workers
  <2>2. ASSUME NEW a, Goto(s, a) PROVE SeenBy(s)
    BY <2>2, GotoIs DEF SameWork, SeenBy
  <2>3. ASSUME NEW p \in Paths, ScanFile(s, p) PROVE job' = job \/ SeenBy(s)
    <3>1. CASE job'[s] = [Idle EXCEPT !.at = "rlock", !.file = p, !.game = Manifest[p]]
      BY <3>1, FreshJob DEF SeenBy
    <3>2. CASE job'[s] = [Idle EXCEPT !.at = "stat", !.file = p]
      BY <3>2, FreshJob DEF SeenBy
    <3> QED
      BY <2>1, <2>3, <3>1, <3>2 DEF ScanFile
  <2>4. ASSUME NEW g, PruneRead(s, g) PROVE job' = job \/ SeenBy(s)
    <3>1. CASE job'[s] = [Idle EXCEPT !.at = "hide", !.game = g]
      BY <3>1, FreshJob DEF SeenBy
    <3>2. CASE job'[s] = [Idle EXCEPT !.at = "drop", !.game = g]
      BY <3>2, FreshJob DEF SeenBy
    <3> QED
      BY <2>1, <2>4, <3>1, <3>2 DEF PruneRead
  <2>5. ASSUME PruneHide(s) \/ PruneDrop(s) PROVE SeenBy(s)
    <3>1. job'[s] = [Idle EXCEPT !.at = "prune"]
      BY <2>1, <2>5 DEF PruneHide, PruneDrop
    <3> QED
      BY <3>1 DEF SeenBy, Idle, Nothing
  <2>6. ASSUME ScanEnd(s) \/ ScanCancel(s) PROVE SeenBy(s)
    <3>1. job'[s] = Idle \/ job'[s] = Back(s)
      BY <2>1, <2>6 DEF ScanEnd, ScanCancel
    <3> QED
      BY <3>1 DEF SeenBy, Back, Idle, Nothing
  <2>7. job' = job \/ SeenBy(s)
    <3>1. ASSUME ScanKnown(s) \/ ScanPrune(s) \/ ScanStart(s) PROVE SeenBy(s)
      BY <2>2, <3>1 DEF ScanKnown, ScanPrune, ScanStart
    <3> QED
      BY <1>4, <2>3, <2>4, <2>5, <2>6, <3>1 DEF Rescan, ScanFolder
  <2> QED
    BY <1>0, <1>1, <2>1, <2>7
<1>5. ASSUME NEW a \in Admins, Manual(a) \/ \E g \in Packages : ManualStart(a, g)
      PROVE  \A y \in Workers : SeenBy(y)
  <2>1. /\ a \in Workers /\ Spares(a) /\ Fits(a, job[a]) /\ job[a] \in Job /\ disk \in [Paths -> File]
        /\ \A j : Becomes(a, j) => job'[a] = j
    BY <1>5, ManualSpares, BecomesIs DEF IInv, Coherent, DataOK, Workers
  <2>2. ASSUME NEW g \in Packages, ManualStart(a, g) PROVE SeenBy(a)
    <3>1. \/ job'[a] = [Idle EXCEPT !.at = "mhide", !.game = g]
          \/ \E p : job'[a] = [Idle EXCEPT !.at = "mstat", !.game = g, !.file = p, !.row = rows[g]]
      BY <2>1, <2>2 DEF ManualStart
    <3>2. job'[a].seen = Nothing
      BY <3>1 DEF Idle
    <3> QED
      BY <3>2 DEF SeenBy, Nothing
  <2>3. ASSUME job'[a] = Idle PROVE SeenBy(a)
    BY <2>3 DEF SeenBy, Idle, Nothing
  <2>4. ASSUME ManualStat(a) PROVE SeenBy(a)
    <3> DEFINE p == job[a].file
    <3>1. p \in Paths
      BY <2>1, <2>4 DEF ManualStat, Fits, FileStages
    <3>2. job'[a] = Idle \/ job'[a].seen = [Nothing EXCEPT !.mtime = disk[p].mtime]
      BY <2>1, <2>4 DEF ManualStat, Job
    <3>3. job'[a] = Idle \/ job'[a].seen.mtime = disk[p].mtime
      BY <3>2 DEF Nothing
    <3> QED
      BY <2>3, <3>1, <3>3 DEF SeenBy
  <2>5. ASSUME ManualCheck(a) PROVE SeenBy(a)
    <3>1. job[a].file \in Paths
      BY <2>1, <2>5 DEF ManualCheck, Fits, FileStages
    <3>2. job'[a].seen = Verdict(a)
      BY <2>1, <2>5 DEF ManualCheck, Job
    <3>3. Verdict(a).mtime = job[a].seen.mtime
      BY <2>1, <3>1 DEF Verdict, File
    <3> QED
      BY <3>2, <3>3 DEF SeenBy
  <2>6. SeenBy(a)
    BY <1>5, <2>1, <2>2, <2>3, <2>4, <2>5 DEF Manual, ManualHide, ManualWrite
  <2> QED
    BY <1>1, <2>1, <2>6
<1>6. CASE Crash
  BY <1>6, FreshJob DEF Crash, SeenBy
<1>7. CASE Environment \/ UNCHANGED vars
  BY <1>0, <1>7 DEF Environment, WriteFile, RemoveFile, MoveFile, Tick, vars
<1>8. ASSUME NEW g \in Packages, DeleteRequest(g) \/ \E e \in BOOLEAN : Toggle(g, e)
      PROVE  \A y \in Workers : SeenBy(y)
  BY <1>0, <1>8 DEF DeleteRequest, Toggle
<1> QED
  BY <1>2, <1>3, <1>4, <1>5, <1>6, <1>7, <1>8 DEF Next, WatchStep, ScanStep, Requests

\* No file, job or row carries a date later than the clock.
Dates ==
    /\ \A p \in Paths : disk[p].mtime <= clock
    /\ \A y \in Workers : job[y].seen.mtime <= clock
    /\ \A g \in Packages : rows[g] # NoRow => rows[g].stamp <= clock

LEMMA ClockStep ==
    ASSUME IInv, Dates, [Next]_vars
    PROVE  /\ clock' \in Nat /\ clock <= clock'
           /\ \A p \in Paths : disk'[p].mtime <= clock
<1>0. clock \in Nat /\ disk \in [Paths -> File] /\ \A p \in Paths : disk[p].mtime \in Nat /\ disk[p].mtime <= clock
  BY DEF IInv, DataOK, File, Dates
<1>1. CASE disk' = disk /\ (clock' = clock \/ clock' = clock + 1)
  BY <1>0, <1>1
<1>2. ASSUME NEW p \in Paths, NEW k \in Kinds \ {"absent"}, NEW v \in Versions, NEW t \in 0..clock, WriteFile(p, k, v, t)
      PROVE  clock' = clock /\ \A q \in Paths : disk'[q].mtime <= clock
  BY <1>0, <1>2 DEF WriteFile
<1>3. ASSUME NEW p \in Paths, RemoveFile(p) PROVE clock' = clock /\ \A q \in Paths : disk'[q].mtime <= clock
  BY <1>0, <1>3 DEF RemoveFile, Nothing
<1>4. ASSUME NEW p \in Paths, NEW q \in Paths, MoveFile(p, q)
      PROVE  clock' = clock /\ \A r \in Paths : disk'[r].mtime <= clock
  BY <1>0, <1>4 DEF MoveFile, Nothing
<1>5. ASSUME NEW w \in Watchers, WatchStep(w) PROVE UNCHANGED <<disk, clock>>
  BY <1>5, FileWorkIs DEF WatchStep, WatchEvent
<1>6. ASSUME NEW s \in Scanners, ScanStep(s) PROVE UNCHANGED <<disk, clock>>
  BY <1>6, FileWorkIs DEF ScanStep, Rescan, ScanFolder, ScanKnown, ScanFile, ScanPrune, PruneRead,
     PruneHide, PruneDrop, ScanEnd
<1>7. ASSUME NEW a \in Admins, Manual(a) PROVE UNCHANGED <<disk, clock>>
  BY <1>7 DEF Manual, ManualHide, ManualStat, ManualCheck, ManualWrite
<1>8. Requests \/ Crash => UNCHANGED <<disk, clock>>
  BY DEF Requests, ScanStart, ScanCancel, ManualStart, Toggle, DeleteRequest, Crash
<1> QED
  BY <1>0, <1>1, <1>2, <1>3, <1>4, <1>5, <1>6, <1>7, <1>8 DEF Next, Environment, Tick, vars

LEMMA DatesNext == IInv /\ Dates /\ [Next]_vars => Dates'
<1> SUFFICES ASSUME IInv, Dates, [Next]_vars PROVE Dates'
  OBVIOUS
<1>0. /\ clock \in Nat /\ clock' \in Nat /\ clock <= clock'
      /\ \A p \in Paths : disk'[p].mtime <= clock /\ disk'[p].mtime \in Nat
      /\ \A y \in Workers : job'[y].seen.mtime \in Nat /\ job[y].seen.mtime \in Nat
      /\ \A g \in Packages : rows'[g] # NoRow => rows'[g].stamp \in Nat
  <2>1. IInv'
    BY Inductive
  <2> QED
    BY <2>1, ClockStep DEF IInv, DataOK, Coherent, File, Job, Row
<1>1. \A y \in Workers : job'[y].seen.mtime <= clock
  BY <1>0, Seeing DEF SeenBy, Dates
<1>2. \A g \in Packages : rows'[g] # NoRow => rows'[g].stamp <= clock
  BY <1>0, Stamping DEF Stamped, Dates
<1> QED
  BY <1>0, <1>1, <1>2 DEF Dates

----------------------------------------------------------------------------
(* Numbers. *)

\* The least element of a set of naturals, and the greatest of a bounded one.
LEMMA Least ==
    ASSUME NEW T \in SUBSET Nat, T # {}
    PROVE  \E m \in T : \A k \in T : m <= k
<1> DEFINE Below == OpToRel(<, Nat)
<1>1. \A y, x \in Nat : <<y, x>> \in Below <=> y < x
  BY DEF OpToRel
<1>2. \E x \in T : \A y \in T : ~(<<y, x>> \in Below)
  <2>1. IsWellFoundedOn(Below, Nat)
    BY NatLessThanWellFounded
  <2> HIDE DEF Below
  <2> QED
    BY <2>1, WFMin
<1> HIDE DEF Below
<1>3. PICK m \in T : \A y \in T : ~(<<y, m>> \in Below)
  BY <1>2
<1>4. ASSUME NEW k \in T PROVE m <= k
  <2>1. m \in Nat /\ k \in Nat
    OBVIOUS
  <2>2. ~(k < m)
    BY <1>1, <1>3, <2>1
  <2> QED
    BY <2>1, <2>2
<1> QED
  BY <1>4

LEMMA Greatest ==
    ASSUME NEW S, NEW b \in Nat, S \subseteq 0 .. b, S # {}
    PROVE  MaxOf(S) \in S /\ \A m \in S : m <= MaxOf(S)
<1> DEFINE T == {u \in Nat : \A m \in S : m <= u}
<1>1. b \in T
  OBVIOUS
<1>2. PICK u \in T : \A k \in T : u <= k
  BY <1>1, Least
<1>3. u \in S
  <2> SUFFICES ASSUME u \notin S PROVE FALSE
    OBVIOUS
  <2>1. PICK m \in S : TRUE
    OBVIOUS
  <2>2. \A k \in S : k < u
    OBVIOUS
  <2>3. u - 1 \in Nat /\ \A k \in S : k <= u - 1
    BY <2>1, <2>2
  <2>4. u - 1 \in T
    BY <2>3
  <2> QED
    BY <1>2, <2>4
<1>4. \E n \in S : \A m \in S : m <= n
  BY <1>3
<1> QED
  BY <1>4 DEF MaxOf

----------------------------------------------------------------------------
(* The catalog: a list that was read and the table that has moved on since,
   and the list a client holds beside the one that is being served. *)

Newest(l) == CatalogTag(l).newest
Reading(l) == DOMAIN l \subseteq Packages /\ \A g \in DOMAIN l : l[g].stamp \in 0..clock
Follows(l) ==
    \A g \in DOMAIN l : rows[g] # NoRow =>
        rows[g].ver = l[g].ver \/ g \in dated \/ Newest(l) <= rows[g].stamp
Caught(c) ==
    \A g \in (DOMAIN list[c]) \cap DOMAIN copy[c].games :
        \/ list[c][g].ver = copy[c].games[g].ver
        \/ list[c][g].dated
        \/ Newest(copy[c].games) <= list[c][g].stamp
Catalogs ==
    /\ DOMAIN copy = Clients /\ DOMAIN list = Clients
    /\ \A c \in Clients : copy[c] # NoCopy =>
          /\ Reading(copy[c].games) /\ Follows(copy[c].games)
          /\ copy[c].tag = CatalogTag(copy[c].games)
    /\ \A c \in Clients : list[c] # NoList => Reading(list[c]) /\ Follows(list[c])
    /\ \A c \in Clients : copy[c] # NoCopy /\ list[c] # NoList => Caught(c)

LEMMA NewestIs ==
    ASSUME IInv, NEW l, Reading(l)
    PROVE  Newest(l) \in 0..clock /\ \A g \in DOMAIN l : l[g].stamp <= Newest(l)
<1> DEFINE S == {0} \cup Stamps(l)
<1>1. S \subseteq 0..clock /\ S # {} /\ clock \in Nat
  BY DEF Reading, Stamps, IInv, DataOK
<1>2. Newest(l) = MaxOf(S)
  BY DEF Newest, CatalogTag
<1>3. \A g \in DOMAIN l : l[g].stamp \in S
  BY DEF Stamps
<1> HIDE DEF S
<1> QED
  BY <1>1, <1>2, <1>3, Greatest

LEMMA LibraryMoves ==
    CNext => /\ [Next]_vars
             /\ Restamp \/ (rows' = rows /\ dated' = dated)
BY DEF CNext, Operate, Alone, Next, Crash, vars

LEMMA ReadingStays ==
    ASSUME IInv, Dates, CNext, NEW l, Reading(l), Follows(l)
    PROVE  Reading(l)' /\ Follows(l)'
<1>1. Reading(l)'
  BY LibraryMoves, ClockStep DEF Reading, IInv, DataOK
<1>2. ASSUME NEW g \in DOMAIN l, rows'[g] # NoRow
      PROVE  rows'[g].ver = l[g].ver \/ g \in dated' \/ Newest(l) <= rows'[g].stamp
  <2>0. g \in Packages /\ Newest(l) <= clock
    BY NewestIs DEF Reading
  <2>1. CASE rows'[g] = rows[g]
    BY <1>2, <2>0, <2>1, LibraryMoves DEF Follows, Restamp
  <2>2. CASE rows'[g].stamp = clock
    BY <2>0, <2>2
  <2>3. ASSUME NEW w \in Workers, job[w].at \in {"rwrite", "mwrite"}, job'[w] # job[w], job[w].game = g,
               rows'[g] # rows[g]
        PROVE  g \in dated'
    BY <2>0, <2>3, LibraryMoves DEF Restamp
  <2> QED
    BY <1>2, <2>0, <2>1, <2>2, <2>3, LibraryMoves, Stamping DEF Stamped
<1>3. Follows(l)'
  BY <1>2 DEF Follows, Newest, CatalogTag, Stamps
<1> QED
  BY <1>1, <1>3

LEMMA VisibleIs ==
    ASSUME IInv, Dates
    PROVE  /\ Reading(Visible) /\ Follows(Visible)
           /\ \A g \in DOMAIN Visible :
                 /\ g \in Packages /\ rows[g] # NoRow
                 /\ Visible[g].ver = rows[g].ver /\ Visible[g].stamp = rows[g].stamp
                 /\ Visible[g].dated <=> g \in dated
<1>1. \A g \in DOMAIN Visible :
         /\ g \in Packages /\ rows[g] # NoRow
         /\ Visible[g].ver = rows[g].ver /\ Visible[g].stamp = rows[g].stamp
         /\ Visible[g].dated <=> g \in dated
  BY DEF Visible
<1>2. \A g \in Packages : rows[g] # NoRow => rows[g].stamp \in 0..clock
  BY DEF IInv, DataOK, Row, Dates
<1> HIDE DEF Visible
<1> QED
  BY <1>1, <1>2 DEF Reading, Follows

LEMMA CatalogsInit == CInit => Dates /\ Catalogs
<1> SUFFICES ASSUME CInit PROVE Dates /\ Catalogs
  OBVIOUS
<1>1. Dates
  BY DEF CInit, Init, Dates, Idle, Nothing, LegacyRow
<1>2. Catalogs
  BY DEF CInit, Catalogs
<1> QED
  BY <1>1, <1>2

LEMMA CatalogsNext == IInv /\ Dates /\ Catalogs /\ [CNext]_cvars => Catalogs'
<1> SUFFICES ASSUME IInv, Dates, Catalogs, [CNext]_cvars PROVE Catalogs'
  OBVIOUS
<1>1. CASE UNCHANGED cvars
  BY <1>1 DEF cvars, Catalogs, Reading, Follows, Caught, Newest, CatalogTag, Stamps
<1> SUFFICES ASSUME CNext PROVE Catalogs'
  BY <1>1
<1>2. \A c \in Clients : \A l : copy[c] # NoCopy /\ l = copy[c].games => Reading(l)' /\ Follows(l)'
  BY ReadingStays DEF Catalogs
<1>3. \A c \in Clients : \A l : list[c] # NoList /\ l = list[c] => Reading(l)' /\ Follows(l)'
  BY ReadingStays DEF Catalogs
\* Nobody gets anything.
<1>4. CASE copy' = copy /\ DOMAIN list' = Clients /\ \A c \in Clients : list'[c] \in {NoList, list[c]}
  <2>1. ASSUME NEW c \in Clients, copy[c] # NoCopy
        PROVE  Reading(copy[c].games)' /\ Follows(copy[c].games)'
    BY <1>2, <1>4, <2>1
  <2>2. ASSUME NEW c \in Clients, list'[c] # NoList
        PROVE  list'[c] = list[c] /\ list[c] # NoList /\ Reading(list[c])' /\ Follows(list[c])'
    BY <1>3, <1>4, <2>2
  <2> QED
    BY <1>4, <2>1, <2>2 DEF Catalogs, Caught, Newest, CatalogTag, Stamps
<1>5. ASSUME NEW c \in Clients, CatalogRead(c), Alone PROVE Catalogs'
  <2>1. /\ DOMAIN list' = Clients /\ copy' = copy
        /\ \A d \in Clients \ {c} : list'[d] = list[d]
        /\ list'[c] = Visible
    BY <1>5 DEF Catalogs, CatalogRead
  <2>2. PICK v : v = Visible
    OBVIOUS
  <2>3. Reading(v)' /\ Follows(v)'
    BY <2>2, VisibleIs, ReadingStays
  <2>4. ASSUME NEW d \in Clients, copy[d] # NoCopy
        PROVE  Reading(copy[d].games)' /\ Follows(copy[d].games)'
    BY <1>2, <2>1, <2>4
  <2>5. ASSUME NEW d \in Clients, list'[d] # NoList
        PROVE  Reading(list[d])' /\ Follows(list[d])'
    BY <1>3, <2>1, <2>2, <2>3, <2>5
  <2>6. ASSUME NEW d \in Clients, copy[d] # NoCopy, list'[d] # NoList PROVE Caught(d)'
    <3>1. CASE d = c
      <4>1. PICK l : l = copy[c].games
        OBVIOUS
      <4>2. ASSUME NEW g \in (DOMAIN v) \cap DOMAIN l
            PROVE  v[g].ver = l[g].ver \/ v[g].dated \/ Newest(l) <= v[g].stamp
        BY <2>2, <2>6, <3>1, <4>1, <4>2, VisibleIs DEF Catalogs, Follows
      <4>3. list'[d] = v /\ copy'[d].games = l
        BY <2>1, <2>2, <3>1, <4>1
      <4> QED
        BY <4>2, <4>3 DEF Caught
    <3>2. CASE d # c
      BY <2>1, <2>6, <3>2 DEF Catalogs, Caught, Newest, CatalogTag, Stamps
    <3> QED
      BY <3>1, <3>2
  <2> QED
    BY <2>1, <2>4, <2>5, <2>6 DEF Catalogs, CatalogTag, Stamps
<1>6. ASSUME NEW c \in Clients, CatalogServed(c) PROVE Catalogs'
  <2>1. PICK l : l = list[c]
    OBVIOUS
  <2>2. /\ DOMAIN list' = Clients /\ DOMAIN copy' = Clients
        /\ \A d \in Clients \ {c} : list'[d] = list[d] /\ copy'[d] = copy[d]
        /\ list'[c] = NoList /\ l # NoList
        /\ copy'[c] = [games |-> l, tag |-> CatalogTag(l), date |-> LastModified(l)]
    BY <1>6, <2>1 DEF Catalogs, CatalogServed
  <2>3. copy'[c].games = l /\ copy'[c].tag = CatalogTag(l)
    BY <2>2
  <2>4. ASSUME NEW d \in Clients, copy'[d] # NoCopy
        PROVE  /\ Reading(copy[d].games)' /\ Follows(copy[d].games)'
               /\ (copy[d].tag = CatalogTag(copy[d].games))'
    <3>1. CASE d = c
      BY <1>3, <2>1, <2>2, <2>3, <3>1
    <3>2. CASE d # c
      BY <1>2, <2>2, <2>4, <3>2 DEF Catalogs, CatalogTag, Stamps
    <3> QED
      BY <3>1, <3>2
  <2>5. ASSUME NEW d \in Clients, list'[d] # NoList
        PROVE  d # c /\ Reading(list[d])' /\ Follows(list[d])'
    BY <1>3, <2>2, <2>5
  <2>6. ASSUME NEW d \in Clients, copy'[d] # NoCopy, list'[d] # NoList PROVE Caught(d)'
    BY <2>2, <2>5, <2>6 DEF Catalogs, Caught, Newest, CatalogTag, Stamps
  <2> QED
    BY <2>2, <2>4, <2>5, <2>6 DEF Catalogs
<1>7. ASSUME NEW c \in Clients, NotModified(c) \/ CatalogFails(c) PROVE Catalogs'
  BY <1>4, <1>7 DEF NotModified, CatalogFails, Catalogs
<1>8. CASE Crash /\ list' = [c \in Clients |-> NoList] /\ copy' = copy
  BY <1>4, <1>8
<1>9. CASE copy' = copy /\ list' = list
  BY <1>4, <1>9 DEF Catalogs
<1> QED
  BY <1>5, <1>6, <1>7, <1>8, <1>9 DEF CNext, Handle

LEMMA CatalogInvariant == CSpec => [](IInv /\ Dates /\ Catalogs)
<1>1. CInit => IInv /\ Dates /\ Catalogs
  BY InitHolds, CatalogsInit DEF CInit
<1>2. [CNext]_cvars => [Next]_vars
  BY LibraryMoves DEF cvars, vars
<1>3. IInv /\ Dates /\ Catalogs /\ [CNext]_cvars => (IInv /\ Dates /\ Catalogs)'
  BY <1>2, Inductive, DatesNext, CatalogsNext
<1> QED
  BY <1>1, <1>3, PTL DEF CSpec

\* A client whose tag still matches holds an old version of a game only if the
\* row was last written by a revalidation, which stamps the mtime of a file, or in
\* the second of the newest stamp of its copy.
THEOREM TagMissesOnlyDated == CSpec => []TagMissesOnlyDatedChanges
<1>1. IInv /\ Catalogs => TagMissesOnlyDatedChanges
  <2> SUFFICES ASSUME IInv, Catalogs, NEW c \in TagClients, list[c] # NoList, Matches(c),
                      NEW g \in DOMAIN list[c]
               PROVE  \/ list[c][g].ver = copy[c].games[g].ver
                      \/ list[c][g].dated
                      \/ list[c][g].stamp = copy[c].tag.newest
    BY DEF TagMissesOnlyDatedChanges
  <2>1. c \in Clients /\ copy[c] # NoCopy /\ copy[c].tag = CatalogTag(list[c])
    BY DEF Matches, Clients
  <2>2. /\ Reading(list[c]) /\ Caught(c)
        /\ copy[c].tag = CatalogTag(copy[c].games)
    BY <2>1 DEF Catalogs
  <2>3. DOMAIN copy[c].games = DOMAIN list[c] /\ Newest(copy[c].games) = Newest(list[c])
    BY <2>1, <2>2 DEF CatalogTag, Newest
  <2>4. list[c][g].stamp \in Nat /\ Newest(list[c]) \in Nat /\ list[c][g].stamp <= Newest(list[c])
    BY <2>2, NewestIs DEF Reading, IInv, DataOK
  <2>5. copy[c].tag.newest = Newest(list[c])
    BY <2>1 DEF Newest
  <2> QED
    BY <2>2, <2>3, <2>4, <2>5 DEF Caught
<1> QED
  BY <1>1, CatalogInvariant, PTL
=============================================================================
