--------------------------- MODULE SessionsProofs ---------------------------
(***************************************************************************)
(* Proofs about Sessions, for any identifiers, requests, lifetime, cap and *)
(* bound on the clock.                                                     *)
(*                                                                         *)
(* A request is described by Sane. Its core: a session that lapsed, that   *)
(* is, left the store or was seen past its expiry, has lapsed for good,    *)
(* since a renewal looks at the clock first and identifiers are not used   *)
(* twice. So a request that began late or was cut cannot pass the second   *)
(* lookup. Bounded and Dated carry the cap and the expiry times.           *)
(* These also make every step one of SessionLife, or none of its own.      *)
(***************************************************************************)
EXTENDS Sessions, FiniteSetTheorems, TLAPS

Lapsed(i, t) == sessions[i] = NoSession \/ t > sessions[i].expires

Sane(q) ==
    /\ req[q].at = "create" => req[q].id \in issued \ Known
    /\ req[q].at \in OnWay => req[q].id \in Known
    /\ req[q].at \in {"drop", "dropfresh"} => req[q].t \in 0 .. now /\ Lapsed(req[q].id, req[q].t)
    /\ req[q].at \in OnWay /\ req[q].late => req[q].at \in {"get", "drop"} /\ Lapsed(req[q].id, now)
    /\ req[q].at \in OnWay /\ req[q].cut => req[q].id \in gone
    /\ req[q].at = "serving" => ~req[q].late /\ ~req[q].cut

\* No session is back in the store that was logged out, evicted, swept or wiped.
GoneStaysGone == gone \cap Stored = {}

Distinct ==
    \A q, r \in Requests :
        q # r /\ req[q].at = "create" /\ req[r].at = "create" => req[q].id # req[r].id

Dated ==
    /\ \A i \in Stored : sessions[i].expires = touched[i] + Lifetime
    /\ janitor.t <= now

Bounded ==
    /\ IsFiniteSet(Stored) /\ Cardinality(Stored) <= MaxSessions
    /\ stop # "none" => closed
    /\ stop = "returned" => Stored = {}

Inv ==
    /\ TypeOK
    /\ Known \subseteq issued
    /\ GoneStaysGone
    /\ \A q \in Requests : Sane(q)
    /\ Distinct
    /\ Dated
    /\ Bounded

----------------------------------------------------------------------------

LEMMA InitHolds == Init => Inv
<1> SUFFICES ASSUME Init PROVE Inv
  OBVIOUS
<1>1. Stored = {} /\ Known = {} /\ gone = {}
  BY DEF Init, Stored, Known
<1>2. Idle \in Request /\ Waits \in Scan /\ 0 \in Times
  BY SessionAssumption DEF Idle, Request, Stages, Waits, Scan, Times
<1>3. TypeOK
  <2>1. req \in [Requests -> Request]
    BY <1>2 DEF Init
  <2>2. sessions \in [Ids -> Entry \cup {NoSession}] /\ touched \in [Ids -> Times]
    BY <1>2 DEF Init
  <2> QED
    BY <1>2, <2>1, <2>2 DEF Init, TypeOK
<1>4. \A q \in Requests : req[q].at = "idle"
  BY DEF Init, Idle
<1>5. (\A q \in Requests : Sane(q)) /\ Distinct
  BY <1>4 DEF Sane, Distinct, OnWay
<1>6. Dated
  BY <1>1 DEF Init, Dated, Waits
<1>7. Bounded
  BY <1>1, FS_EmptySet, SessionAssumption DEF Init, Bounded
<1> QED
  BY <1>1, <1>3, <1>5, <1>6, <1>7 DEF Inv, GoneStaysGone

LEMMA StutterKeeps == Inv /\ UNCHANGED vars => Inv'
BY DEF Inv, TypeOK, GoneStaysGone, Stored, Known, Sane, Lapsed, Distinct, Dated, Bounded, vars, history

----------------------------------------------------------------------------
(* Requests that a step leaves where they are. *)

\* What a step does to the store, as far as other requests can tell.
Ages ==
    /\ now \in Nat /\ now' \in Nat /\ now <= now'
    /\ issued \subseteq issued'
    /\ Known \subseteq Known' /\ gone \subseteq gone'
    /\ \A i \in Known : \A t \in 0 .. now : Lapsed(i, t) => Lapsed(i, t)'
    /\ \A i \in Known : Lapsed(i, now) => Lapsed(i, now)'

\* At most, a request on its way is marked, because its session was deleted.
Stays(q) ==
    /\ req'[q].at = req[q].at /\ req'[q].id = req[q].id
    /\ req'[q].t = req[q].t /\ req'[q].late = req[q].late
    /\ req'[q].cut = req[q].cut \/ (req[q].at \in OnWay /\ req[q].id \in gone')

LEMMA StaysSane ==
    ASSUME Inv, Ages, NEW q \in Requests, Stays(q),
           req[q].at = "create" => req[q].id \notin Known'
    PROVE  Sane(q)'
<1>1. Sane(q)
  BY DEF Inv
<1>2. req[q].at \in {"drop", "dropfresh"} => req'[q].t \in 0 .. now' /\ Lapsed(req[q].id, req[q].t)'
  BY <1>1 DEF Sane, Ages, Stays, OnWay, Lapsed
<1>3. req[q].at \in OnWay /\ req[q].late => req[q].at \in {"get", "drop"} /\ Lapsed(req[q].id, now)'
  BY <1>1 DEF Sane, Ages, Stays, OnWay, Lapsed
<1>4. req'[q].at \in OnWay /\ req'[q].cut => req'[q].id \in gone'
  BY <1>1 DEF Sane, Ages, Stays
<1>5. req'[q].at = "serving" => ~req'[q].late /\ ~req'[q].cut
  BY <1>1 DEF Sane, Stays, OnWay
<1> QED
  BY <1>1, <1>2, <1>3, <1>4, <1>5 DEF Sane, Ages, Stays, Lapsed

----------------------------------------------------------------------------
(* Sessions that leave the store. *)

LEMMA RemovedFacts ==
    ASSUME Inv, NEW is, Removed(is), UNCHANGED <<now, issued>>
    PROVE  /\ sessions' \in [Ids -> Entry \cup {NoSession}] /\ gone' \subseteq Ids
           /\ touched' \in [Ids -> Times]
           /\ Stored' = Stored \ is /\ Known' = Known
           /\ GoneStaysGone' /\ (Known \subseteq issued)'
           /\ Ages
           /\ \A i \in Stored' : sessions'[i].expires = touched'[i] + Lifetime
           /\ IsFiniteSet(Stored') /\ Cardinality(Stored') <= MaxSessions
<1>0. sessions \in [Ids -> Entry \cup {NoSession}] /\ gone \subseteq Ids /\ now \in Nat
  BY DEF Inv, TypeOK, Times
<1>1. /\ sessions' = [i \in Ids |-> IF i \in is THEN NoSession ELSE sessions[i]]
      /\ gone' = gone \cup (is \cap Stored)
  BY DEF Removed
<1>2. sessions' \in [Ids -> Entry \cup {NoSession}] /\ gone' \subseteq Ids
  BY <1>0, <1>1 DEF Stored
<1>9. touched' \in [Ids -> Times] /\ \A i \in Ids \ is : touched'[i] = touched[i]
  BY SessionAssumption DEF Removed, Inv, TypeOK, Times
<1>3. Stored' = Stored \ is
  BY <1>1 DEF Stored
<1>4. Known' = Known
  BY <1>1, <1>3 DEF Known
<1>5. GoneStaysGone'
  BY <1>1, <1>3 DEF Inv, GoneStaysGone
<1>6. Ages
  BY <1>0, <1>1, <1>4 DEF Ages, Lapsed, Stored, Known
<1>7. \A i \in Stored' : sessions'[i].expires = touched'[i] + Lifetime
  BY <1>1, <1>3, <1>9 DEF Inv, Dated, Stored
<1>8. IsFiniteSet(Stored') /\ Cardinality(Stored') <= MaxSessions
  <2>1. IsFiniteSet(Stored) /\ Cardinality(Stored) <= MaxSessions /\ Stored' \subseteq Stored
    BY <1>3 DEF Inv, Bounded
  <2>2. IsFiniteSet(Stored') /\ Cardinality(Stored') <= Cardinality(Stored)
    BY <2>1, FS_Subset
  <2>3. Cardinality(Stored') \in Nat /\ Cardinality(Stored) \in Nat
    BY <2>1, <2>2, FS_CardinalityType
  <2> QED
    BY <2>1, <2>2, <2>3, SessionAssumption
<1> QED
  BY <1>2, <1>3, <1>4, <1>5, <1>6, <1>7, <1>8, <1>9 DEF Inv

LEMMA CutFacts ==
    ASSUME TypeOK, NEW is
    PROVE  /\ Cut(is) \in [Requests -> Request]
           /\ \A q \in Requests :
                /\ Cut(is)[q].at = req[q].at /\ Cut(is)[q].id = req[q].id
                /\ Cut(is)[q].t = req[q].t /\ Cut(is)[q].late = req[q].late
                /\ \/ Cut(is)[q].cut = req[q].cut
                   \/ req[q].at \in OnWay /\ req[q].id \in is
<1>1. \A q \in Requests : req[q] \in Request
  BY DEF TypeOK
<1>2. ASSUME NEW q \in Requests
      PROVE  /\ Cut(is)[q] \in Request
             /\ Cut(is)[q].at = req[q].at /\ Cut(is)[q].id = req[q].id
             /\ Cut(is)[q].t = req[q].t /\ Cut(is)[q].late = req[q].late
             /\ \/ Cut(is)[q].cut = req[q].cut
                \/ req[q].at \in OnWay /\ req[q].id \in is
  <2>1. CASE req[q].at \in OnWay /\ req[q].id \in is
    <3>1. Cut(is)[q] = [req[q] EXCEPT !.cut = TRUE]
      BY <2>1 DEF Cut
    <3> QED
      BY <1>1, <2>1, <3>1 DEF Request
  <2>2. CASE ~(req[q].at \in OnWay /\ req[q].id \in is)
    <3>1. Cut(is)[q] = req[q]
      BY <2>2 DEF Cut
    <3> QED
      BY <1>1, <3>1
  <2> QED
    BY <2>1, <2>2
<1>3. Cut(is) \in [Requests -> Request]
  <2>1. Cut(is) = [q \in Requests |-> Cut(is)[q]]
    BY DEF Cut
  <2> QED
    BY <1>2, <2>1
<1> QED
  BY <1>2, <1>3

\* A session a request on its way carries, once removed, is among the gone.
LEMMA CutStays ==
    ASSUME Inv, NEW is, Removed(is), UNCHANGED <<now, issued>>,
           NEW q \in Requests, req'[q] = Cut(is)[q]
    PROVE  Stays(q) /\ Sane(q)'
<1>1. req[q].at \in OnWay /\ req[q].id \in is => req[q].id \in gone'
  BY DEF Inv, Sane, Removed, Known
<1>2. Stays(q)
  BY <1>1, CutFacts DEF Inv, Stays
<1>3. req[q].at = "create" => req[q].id \notin Known'
  BY RemovedFacts DEF Inv, Sane
<1> QED
  BY <1>2, <1>3, RemovedFacts, StaysSane

LEMMA StaysDistinct ==
    ASSUME Distinct, NEW r \in Requests, \A q \in Requests \ {r} : Stays(q),
           req'[r].at = "create" => req[r].at = "create" /\ req'[r].id = req[r].id
    PROVE  Distinct'
BY DEF Distinct, Stays

LEMMA RemovalKeeps ==
    ASSUME Inv, NEW is, Removed(is), req' = Cut(is), UNCHANGED <<now, closed, issued>>,
           janitor' \in Scan, janitor'.t <= now, stop' \in {"none", "waiting", "returned"},
           stop' # "none" => closed, stop' = "returned" => Stored' = {}
    PROVE  Inv'
<1>1. \A q \in Requests : Stays(q) /\ Sane(q)'
  BY CutStays
<1>2. Distinct'
  BY <1>1 DEF Inv, Distinct, Stays
<1>3. TypeOK'
  BY RemovedFacts, CutFacts DEF Inv, TypeOK
<1>4. Dated' /\ Bounded'
  BY RemovedFacts DEF Dated, Bounded
<1> QED
  BY <1>1, <1>2, <1>3, <1>4, RemovedFacts DEF Inv

LEMMA LogoutKeeps == Inv /\ Logout => Inv'
<1> SUFFICES ASSUME Inv, Logout PROVE Inv'
  OBVIOUS
<1>1. PICK i \in Known : Removed({i}) /\ req' = Cut({i})
  BY DEF Logout
<1>2. UNCHANGED <<now, closed, stop, issued, janitor>>
  BY DEF Logout
<1>3. stop' = "returned" => Stored' = {}
  BY <1>1, <1>2, RemovedFacts DEF Inv, Bounded
<1> QED
  BY <1>1, <1>2, <1>3, RemovalKeeps DEF Inv, TypeOK, Dated, Bounded

LEMMA JanitorSweepKeeps == Inv /\ JanitorSweep => Inv'
<1> SUFFICES ASSUME Inv, JanitorSweep PROVE Inv'
  OBVIOUS
<1> DEFINE is == {i \in janitor.ids : Expired(i, janitor.t)}
<1>1. /\ Removed(is) /\ req' = Cut(is) /\ janitor' = Waits
      /\ UNCHANGED <<now, closed, stop, issued>>
  BY DEF JanitorSweep
<1> HIDE DEF is
<1>2. stop' = "returned" => Stored' = {}
  BY <1>1, RemovedFacts DEF Inv, Bounded
<1>3. janitor' \in Scan /\ janitor'.t <= now
  BY <1>1, SessionAssumption DEF Waits, Scan, Inv, TypeOK, Times
<1> QED
  BY <1>1, <1>2, <1>3, RemovalKeeps DEF Inv, TypeOK, Bounded

LEMMA StopWipesKeeps == Inv /\ StopWipes => Inv'
<1> SUFFICES ASSUME Inv, StopWipes PROVE Inv'
  OBVIOUS
<1>1. /\ stop = "waiting" /\ stop' = "returned" /\ Removed(Ids) /\ req' = Cut(Ids)
      /\ UNCHANGED <<now, closed, issued, janitor>>
  BY DEF StopWipes
<1>2. Stored' = {}
  BY <1>1, RemovedFacts DEF Stored
<1> QED
  BY <1>1, <1>2, RemovalKeeps DEF Inv, TypeOK, Dated, Bounded

----------------------------------------------------------------------------
(* Steps that leave the store alone. *)

LEMMA QuietKeeps ==
    ASSUME Inv, UNCHANGED <<sessions, issued, req, history>>,
           now' \in Times, now <= now',
           closed' \in BOOLEAN, stop' \in {"none", "waiting", "returned"},
           stop' # "none" => closed', stop' = "returned" => stop = "returned",
           janitor' \in Scan, janitor'.t <= now'
    PROVE  Inv'
<1>1. Stored' = Stored /\ Known' = Known
  BY DEF Stored, Known, history
<1>2. Ages
  <2>1. \A i \in Known : sessions[i] = NoSession \/ sessions[i].expires \in Nat
    BY DEF Inv, TypeOK, Entry, Times, Known, Stored
  <2> QED
    BY <1>1, <2>1 DEF Ages, Lapsed, Inv, TypeOK, Times, history
<1>3. \A q \in Requests : Stays(q)
  BY DEF Stays
<1>4. \A q \in Requests : Sane(q)'
  BY <1>1, <1>2, <1>3, StaysSane DEF Inv, Sane
<1>5. TypeOK'
  BY DEF Inv, TypeOK, history
<1>6. Distinct' /\ Dated' /\ Bounded'
  BY <1>1 DEF Inv, Distinct, Dated, Bounded, history
<1> QED
  BY <1>1, <1>4, <1>5, <1>6 DEF Inv, GoneStaysGone, history

LEMMA TickKeeps == Inv /\ Tick => Inv'
BY QuietKeeps, SessionAssumption DEF Tick, Inv, TypeOK, Times, Dated, Bounded, Scan

LEMMA JanitorScanKeeps == Inv /\ JanitorScan => Inv'
BY QuietKeeps DEF JanitorScan, Inv, TypeOK, Times, Dated, Bounded, Scan

LEMMA JanitorReturnsKeeps == Inv /\ JanitorReturns => Inv'
<1> SUFFICES ASSUME Inv, JanitorReturns PROVE Inv'
  OBVIOUS
<1>1. janitor' = [at |-> "returned", t |-> 0, ids |-> {}]
  BY DEF JanitorReturns, Waits
<1>2. janitor' \in Scan /\ janitor'.t <= now
  BY <1>1, SessionAssumption DEF Scan, Inv, TypeOK, Times
<1> QED
  BY <1>2, QuietKeeps DEF JanitorReturns, Inv, TypeOK, Times, Bounded

LEMMA StopKeeps == Inv /\ Stop => Inv'
BY QuietKeeps DEF Stop, Inv, TypeOK, Times, Dated, Bounded, Scan

\* A step of one request.
LEMMA RequestKeeps ==
    ASSUME Inv, NEW r \in Requests, NEW x \in Request, req' = [req EXCEPT ![r] = x],
           UNCHANGED <<now, closed, stop, sessions, janitor, history>>,
           issued \subseteq issued', issued' \subseteq Ids,
           Sane(r)',
           x.at = "create" => x.id \notin issued
    PROVE  Inv'
<1>1. Stored' = Stored /\ Known' = Known
  BY DEF Stored, Known, history
<1>2. Ages
  BY <1>1 DEF Ages, Lapsed, Inv, TypeOK, Times, history
<1>3. req' \in [Requests -> Request] /\ req'[r] = x /\ \A q \in Requests \ {r} : req'[q] = req[q]
  BY DEF Inv, TypeOK
<1>4. \A q \in Requests \ {r} : Stays(q) /\ Sane(q)'
  BY <1>1, <1>2, <1>3, StaysSane DEF Inv, Sane, Stays
<1>5. Distinct'
  BY <1>3 DEF Inv, Distinct, Sane
<1>6. TypeOK' /\ Dated' /\ Bounded'
  BY <1>1, <1>3 DEF Inv, TypeOK, Dated, Bounded, history
<1> QED
  BY <1>1, <1>4, <1>5, <1>6 DEF Inv, GoneStaysGone, history

LEMMA IdleIs == Idle \in Request /\ Idle.at = "idle"
BY SessionAssumption DEF Idle, Request, Stages, Times

\* A request that ends, whatever the answer.
LEMMA EndKeeps ==
    ASSUME Inv, NEW r \in Requests, req' = [req EXCEPT ![r] = Idle],
           UNCHANGED <<now, closed, stop, sessions, issued, janitor, history>>
    PROVE  Inv'
<1>1. req'[r].at = "idle"
  BY IdleIs DEF Inv, TypeOK
<1>2. Sane(r)'
  BY <1>1 DEF Sane, OnWay
<1> QED
  BY <1>2, IdleIs, RequestKeeps DEF Inv, TypeOK

LEMMA LoginKeeps == ASSUME Inv, NEW r \in Requests, Login(r) PROVE Inv'
<1>1. PICK i \in Ids \ issued :
        /\ issued' = issued \cup {i}
        /\ req' = [req EXCEPT ![r] = [Idle EXCEPT !.at = "create", !.id = i, !.t = now]]
  BY DEF Login
<1>2. UNCHANGED <<now, closed, stop, sessions, janitor, history>>
  BY DEF Login
<1> DEFINE x == [Idle EXCEPT !.at = "create", !.id = i, !.t = now]
<1>3. x \in Request /\ x.at = "create" /\ x.id = i
  BY DEF Idle, Request, Stages, Inv, TypeOK
<1>4. req'[r] = x
  BY <1>1 DEF Inv, TypeOK
<1> HIDE DEF x
<1>5. Known' = Known
  BY <1>2 DEF Known, Stored, history
<1>6. Sane(r)'
  BY <1>1, <1>3, <1>4, <1>5 DEF Inv, Sane, OnWay
<1> QED
  BY <1>1, <1>2, <1>3, <1>4, <1>6, RequestKeeps DEF x, Inv, TypeOK

LEMMA ArriveKeeps == ASSUME Inv, NEW r \in Requests, Arrive(r) PROVE Inv'
<1> DEFINE x(i) == [at |-> "get", id |-> i, t |-> 0, cut |-> FALSE,
                    late |-> sessions[i] = NoSession \/ Expired(i, now)]
<1>1. PICK i \in Known : req' = [req EXCEPT ![r] = x(i)]
  BY DEF Arrive
<1>2. UNCHANGED <<now, closed, stop, sessions, issued, janitor, history>>
  BY DEF Arrive
<1>3. /\ x(i) \in Request /\ x(i).at = "get" /\ x(i).id = i
      /\ x(i).cut = FALSE /\ (x(i).late => Lapsed(i, now))
  <2>1. i \in Ids /\ 0 \in Times /\ "get" \in Stages
    BY SessionAssumption DEF Known, Stored, Inv, TypeOK, Times, Stages
  <2>2. (sessions[i] = NoSession \/ Expired(i, now)) \in BOOLEAN
    OBVIOUS
  <2>3. (sessions[i] = NoSession \/ Expired(i, now)) => Lapsed(i, now)
    BY DEF Lapsed, Expired
  <2> DEFINE b == sessions[i] = NoSession \/ Expired(i, now)
  <2>4. b \in BOOLEAN /\ (b => Lapsed(i, now))
    BY <2>2, <2>3
  <2> HIDE DEF b
  <2>5. x(i) = [at |-> "get", id |-> i, t |-> 0, cut |-> FALSE, late |-> b]
    BY DEF b
  <2> HIDE DEF x
  <2> QED
    BY <2>1, <2>4, <2>5 DEF Request
<1> HIDE DEF x
<1>4. req'[r] = x(i)
  BY <1>1 DEF Inv, TypeOK
<1>5. Known' = Known /\ (Lapsed(i, now) => Lapsed(i, now)')
  BY <1>2 DEF Known, Stored, Lapsed, history
<1>6. /\ req'[r].at = "get" /\ req'[r].id = i /\ req'[r].cut = FALSE
      /\ req'[r].late => Lapsed(i, now)'
  BY <1>3, <1>4, <1>5
<1>7. Sane(r)'
  BY <1>5, <1>6 DEF Sane, OnWay, Lapsed
<1> QED
  BY <1>1, <1>2, <1>3, <1>7, RequestKeeps DEF Inv, TypeOK

LEMMA ServedKeeps == ASSUME Inv, NEW r \in Requests, Served(r) PROVE Inv'
BY EndKeeps DEF Served

----------------------------------------------------------------------------
(* The two lookups and the renewal. *)

\* A request goes to another stage.
LEMMA MovesKeeps ==
    ASSUME Inv, NEW r \in Requests, NEW x \in Request, req' = [req EXCEPT ![r] = x],
           x.id = req[r].id, x.late = req[r].late, x.cut = req[r].cut, x.at # "create",
           UNCHANGED <<now, closed, stop, sessions, issued, janitor, history>>,
           req[r].id \in Known,
           x.at \in {"drop", "dropfresh"} => x.t <= now /\ Lapsed(req[r].id, x.t),
           req[r].late => x.at = "drop" /\ Lapsed(req[r].id, now),
           req[r].cut => x.at # "serving" /\ req[r].id \in gone
    PROVE  Inv'
<1>1. req'[r] = x
  BY DEF Inv, TypeOK
<1>2. Known' = Known /\ now' = now /\ gone' = gone
  BY DEF Known, Stored, history
<1>3. x.at \in {"drop", "dropfresh"} => x.t \in 0 .. now /\ Lapsed(req[r].id, req[r].t)'
  BY <1>1 DEF Lapsed, Request, Times
<1>4. req[r].late => Lapsed(req[r].id, now)'
  BY <1>1, <1>2 DEF Lapsed
<1>5. Sane(r)'
  BY <1>1, <1>2, <1>3, <1>4 DEF Sane, Lapsed
<1> QED
  BY <1>5, RequestKeeps DEF Inv, TypeOK

\* A lookup finds the session, ends the request, or goes on to delete.
LEMMA LookKeeps ==
    ASSUME Inv, NEW r \in Requests, NEW found, NEW dropping, Look(r, found, dropping),
           \/ req[r].at = "get" /\ found = "touch" /\ dropping = "drop"
           \/ req[r].at = "fresh" /\ found = "serving" /\ dropping = "dropfresh"
    PROVE  Inv'
<1>1. UNCHANGED <<now, closed, stop, sessions, issued, janitor, history>>
  BY DEF Look
<1>2. /\ req[r] \in Request /\ now \in Times
      /\ req[r].id \in Known /\ (req[r].cut => req[r].id \in gone)
      /\ req[r].late => req[r].at = "get" /\ Lapsed(req[r].id, now)
  BY DEF Inv, TypeOK, Sane, OnWay
<1>3. CASE sessions[req[r].id] = NoSession /\ req' = [req EXCEPT ![r] = Idle]
  BY <1>1, <1>3, EndKeeps
<1>4. CASE sessions[req[r].id] # NoSession /\ ~Expired(req[r].id, now) /\ Goto(r, found)
  <2>1. ~Lapsed(req[r].id, now) /\ req[r].id \notin gone
    BY <1>2, <1>4 DEF Lapsed, Expired, Inv, TypeOK, GoneStaysGone, Stored, Known
  <2>2. ~req[r].late /\ ~req[r].cut
    BY <1>2, <2>1
  <2> DEFINE x == [req[r] EXCEPT !.at = found]
  <2>3. req' = [req EXCEPT ![r] = x]
    BY <1>4 DEF Goto
  <2>4. found \in Stages /\ found \notin {"create", "drop", "dropfresh"}
    BY DEF Stages
  <2>5. x \in Request /\ x.at = found /\ x.id = req[r].id /\ x.late = req[r].late /\ x.cut = req[r].cut
    BY <1>2, <2>4 DEF Request
  <2> HIDE DEF x
  <2> QED
    BY <1>1, <1>2, <2>2, <2>3, <2>4, <2>5, MovesKeeps
<1>5. CASE Expired(req[r].id, now) /\ req' = [req EXCEPT ![r].at = dropping, ![r].t = now]
  <2> DEFINE x == [req[r] EXCEPT !.at = dropping, !.t = now]
  <2>1. req' = [req EXCEPT ![r] = x]
    BY <1>2, <1>5 DEF Inv, TypeOK
  <2>2. /\ dropping \in Stages \ {"create", "serving"} /\ Lapsed(req[r].id, now) /\ now <= now
        /\ req[r].late => dropping = "drop"
    BY <1>2, <1>5 DEF Stages, Expired, Lapsed, Times
  <2>3. /\ x \in Request /\ x.at = dropping /\ x.t = now
        /\ x.id = req[r].id /\ x.late = req[r].late /\ x.cut = req[r].cut
    BY <1>2, <2>2 DEF Request
  <2> HIDE DEF x
  <2> QED
    BY <1>1, <1>2, <2>1, <2>2, <2>3, MovesKeeps
<1> QED
  BY <1>3, <1>4, <1>5 DEF Look

\* A request ends with the removal of sessions.
LEMMA RemovalEnds ==
    ASSUME Inv, NEW r \in Requests, NEW is, Removed(is), req' = [Cut(is) EXCEPT ![r] = Idle],
           UNCHANGED <<now, closed, stop, issued, janitor>>
    PROVE  Inv'
<1>1. /\ req' \in [Requests -> Request] /\ req'[r].at = "idle"
      /\ \A q \in Requests \ {r} : req'[q] = Cut(is)[q]
  BY CutFacts, IdleIs DEF Inv
<1>2. \A q \in Requests \ {r} : Stays(q) /\ Sane(q)'
  BY <1>1, CutStays
<1>3. Sane(r)'
  BY <1>1 DEF Sane, OnWay
<1>4. Distinct'
  BY <1>1, <1>2, StaysDistinct DEF Inv
<1>5. TypeOK' /\ Dated' /\ Bounded'
  BY <1>1, RemovedFacts DEF Inv, TypeOK, Dated, Bounded
<1> QED
  BY <1>2, <1>3, <1>4, <1>5, RemovedFacts DEF Inv

\* Where a lookup saw the session expired it has lapsed for good, so the
\* request ends.
LEMMA DropKeeps ==
    ASSUME Inv, NEW r \in Requests, NEW found, Drop(r, found), req[r].at \in {"drop", "dropfresh"}
    PROVE  Inv'
<1> DEFINE i == req[r].id
           is == IF Expired(i, req[r].t) THEN {i} ELSE {}
<1>1. /\ Removed(is)
      /\ req' = [Cut(is) EXCEPT ![r] =
            IF sessions[i] = NoSession \/ is = {i} THEN Idle ELSE [req[r] EXCEPT !.at = found]]
      /\ UNCHANGED <<now, closed, stop, issued, janitor>>
  BY DEF Drop
<1>2. sessions[i] = NoSession \/ Expired(i, req[r].t)
  BY DEF Inv, Sane, Lapsed, Expired
<1>3. sessions[i] = NoSession \/ is = {i}
  BY <1>2
<1>4. req' = [Cut(is) EXCEPT ![r] = Idle]
  BY <1>1, <1>3
<1> HIDE DEF is
<1> QED
  BY <1>1, <1>4, RemovalEnds

\* A renewal finds a session that has not lapsed, so it revives none.
LEMMA TouchKeeps == ASSUME Inv, NEW r \in Requests, Touch(r) PROVE Inv'
<1> DEFINE i == req[r].id
<1>1. req[r].at = "touch" /\ UNCHANGED <<now, closed, stop, issued, janitor>>
  BY DEF Touch
<1>2. CASE sessions[i] = NoSession /\ req' = [req EXCEPT ![r] = Idle] /\ UNCHANGED <<sessions, history>>
  BY <1>1, <1>2, EndKeeps
<1>3. CASE Removed({i}) /\ req' = [Cut({i}) EXCEPT ![r] = Idle]
  BY <1>1, <1>3, RemovalEnds
<1>4. CASE /\ sessions[i] # NoSession /\ ~Expired(i, now)
           /\ sessions' = [sessions EXCEPT ![i].expires = now + Lifetime]
           /\ touched' = [touched EXCEPT ![i] = now]
           /\ Goto(r, "fresh") /\ gone' = gone
  <2>1. /\ req[r] \in Request /\ i \in Ids /\ now \in Times
        /\ sessions \in [Ids -> Entry \cup {NoSession}] /\ touched \in [Ids -> Times]
    BY <1>1 DEF Inv, TypeOK, Sane, OnWay, Known, Stored
  <2>2. i \in Stored /\ i \notin gone /\ ~req[r].late /\ ~req[r].cut
    BY <1>1, <1>4, <2>1 DEF Inv, Sane, OnWay, Stored, GoneStaysGone
  <2>3. sessions[i] \in Entry /\ now + Lifetime \in 0 .. MaxClock + Lifetime
    BY <2>1, <2>2, SessionAssumption DEF Stored, Times
  <2>4. /\ sessions'[i] \in Entry /\ sessions'[i] # NoSession /\ sessions'[i].expires = now + Lifetime
        /\ \A j \in Ids \ {i} : sessions'[j] = sessions[j]
        /\ sessions' \in [Ids -> Entry \cup {NoSession}]
        /\ touched' \in [Ids -> Times] /\ touched'[i] = now
        /\ \A j \in Ids \ {i} : touched'[j] = touched[j]
    <3> DEFINE e == [sessions[i] EXCEPT !.expires = now + Lifetime]
    <3>1. e \in Entry /\ e.expires = now + Lifetime /\ e # NoSession
      BY <2>3, SessionAssumption DEF Entry, Times
    <3>2. sessions' = [sessions EXCEPT ![i] = e]
      BY <1>4
    <3> HIDE DEF e
    <3> QED
      BY <1>4, <2>1, <3>1, <3>2
  <2>5. Stored' = Stored /\ Known' = Known
    BY <1>4, <2>2, <2>4 DEF Stored, Known
  <2> DEFINE x == [req[r] EXCEPT !.at = "fresh"]
  <2>6. /\ x \in Request /\ x.at = "fresh" /\ x.id = i /\ x.late = req[r].late /\ x.cut = req[r].cut
    BY <2>1 DEF Request, Stages
  <2>7. req' = [req EXCEPT ![r] = x]
    BY <1>4 DEF Goto
  <2> HIDE DEF x
  <2>8. /\ req' \in [Requests -> Request] /\ req'[r] = x
        /\ \A q \in Requests \ {r} : req'[q] = req[q]
    BY <2>6, <2>7 DEF Inv, TypeOK
  <2>9. Ages
    <3>1. \A t \in 0 .. now : ~Lapsed(i, t)
      BY <1>4, <2>1, <2>3 DEF Lapsed, Expired, Entry, Times
    <3>2. now \in 0 .. now
      BY <2>1 DEF Times
    <3>3. \A j \in Ids \ {i} : \A t : Lapsed(j, t) => Lapsed(j, t)'
      BY <2>4 DEF Lapsed
    <3>4. \A j \in Ids \ {i} : Lapsed(j, now) => Lapsed(j, now)'
      BY <1>1, <2>4 DEF Lapsed
    <3>5. Known \subseteq Ids
      BY DEF Known, Stored, Inv, TypeOK
    <3> QED
      BY <1>1, <1>4, <2>1, <2>5, <3>1, <3>2, <3>3, <3>4, <3>5 DEF Ages, Times
  <2>10. \A q \in Requests \ {r} : Stays(q) /\ Sane(q)'
    BY <2>5, <2>8, <2>9, StaysSane DEF Inv, Sane, Stays
  <2>11. Sane(r)'
    BY <2>2, <2>5, <2>6, <2>8, <1>1, <1>4 DEF Inv, Sane, OnWay
  <2>12. Distinct'
    BY <2>6, <2>8, <2>10, StaysDistinct DEF Inv
  <2>13. TypeOK'
    BY <1>1, <1>4, <2>4, <2>8 DEF Inv, TypeOK
  <2>14. Dated' /\ Bounded'
    BY <1>1, <2>1, <2>4, <2>5 DEF Inv, Dated, Bounded, Stored
  <2> QED
    BY <1>1, <1>4, <2>5, <2>10, <2>11, <2>12, <2>13, <2>14 DEF Inv, GoneStaysGone
<1> QED
  BY <1>2, <1>3, <1>4 DEF Touch

----------------------------------------------------------------------------
(* A login under the lock. *)

\* The session of request r is added, those of is make room for it.
Adding(r, is) ==
    LET i == req[r].id IN
    /\ req[r].at = "create" /\ ~closed
    /\ is \subseteq Stored /\ Cardinality(Stored \ is) < MaxSessions
    /\ sessions' \in [Ids -> Entry \cup {NoSession}]
    /\ \A j \in Ids \ (is \cup {i}) : sessions'[j] = sessions[j]
    /\ \A j \in is : sessions'[j] = NoSession
    /\ sessions'[i] \in Entry /\ sessions'[i].expires = req[r].t + Lifetime
    /\ gone' = gone \cup is
    /\ touched' \in [Ids -> Times] /\ touched'[i] = req[r].t
    /\ \A j \in Ids \ (is \cup {i}) : touched'[j] = touched[j]
    /\ req' = [Cut(is) EXCEPT ![r] = Idle]
    /\ UNCHANGED <<now, closed, stop, issued, janitor>>

LEMMA AddKeeps == ASSUME Inv, NEW r \in Requests, NEW is, Adding(r, is) PROVE Inv'
<1> USE DEF Adding
<1> DEFINE i == req[r].id
<1>1. /\ i \in issued /\ i \in Ids /\ i \notin Known /\ req[r].t \in Times
      /\ touched \in [Ids -> Times] /\ Stored \subseteq Ids /\ gone \subseteq Ids
  BY DEF Inv, TypeOK, Sane, Request, Stored
<1>2. Stored' = (Stored \ is) \cup {i}
  BY <1>1, SessionAssumption DEF Stored, Entry, Times, Known
<1>3. Known' = Known \cup {i}
  BY <1>2 DEF Known
<1>4. GoneStaysGone' /\ (Known \subseteq issued)'
  BY <1>1, <1>2, <1>3 DEF Inv, GoneStaysGone, Known
<1>5. Ages
  <2>1. \A j \in Known : j \in Ids /\ j # i
    BY <1>1 DEF Known
  <2>2. \A j \in Known : \A t : Lapsed(j, t) => Lapsed(j, t)'
    BY <2>1 DEF Lapsed
  <2>3. \A j \in Known : Lapsed(j, now) => Lapsed(j, now)'
    BY <2>1 DEF Lapsed
  <2> QED
    BY <1>3, <2>2, <2>3 DEF Ages, Inv, TypeOK, Times
<1>6. /\ req' \in [Requests -> Request] /\ req'[r].at = "idle"
      /\ \A q \in Requests \ {r} : req'[q] = Cut(is)[q]
  BY CutFacts, IdleIs DEF Inv
<1>7. \A q \in Requests \ {r} : Stays(q)
  BY <1>6, CutFacts DEF Inv, Stays
<1>8. \A q \in Requests \ {r} : req[q].at = "create" => req[q].id \notin Known'
  BY <1>3 DEF Inv, Sane, Distinct
<1>9. \A q \in Requests \ {r} : Sane(q)'
  BY <1>5, <1>7, <1>8, StaysSane
<1>10. Sane(r)'
  BY <1>6 DEF Sane, OnWay
<1>11. Distinct'
  BY <1>6, <1>7, StaysDistinct DEF Inv
<1>12. TypeOK'
  BY <1>1, <1>6 DEF Inv, TypeOK
<1>13. Dated'
  BY <1>1, <1>2 DEF Inv, Dated, Known, Stored
<1>14. Bounded'
  <2>1. IsFiniteSet(Stored \ is)
    BY FS_Subset DEF Inv, Bounded
  <2>2. i \notin Stored \ is
    BY <1>1 DEF Known
  <2>3. IsFiniteSet(Stored') /\ Cardinality(Stored') = Cardinality(Stored \ is) + 1
    BY <1>2, <2>1, <2>2, FS_AddElement
  <2>4. Cardinality(Stored \ is) \in Nat
    BY <2>1, FS_CardinalityType
  <2>5. Cardinality(Stored') <= MaxSessions
    BY <2>3, <2>4, SessionAssumption
  <2>6. stop = "none"
    BY DEF Inv, Bounded
  <2> QED
    BY <2>3, <2>5, <2>6 DEF Bounded
<1> QED
  BY <1>4, <1>9, <1>10, <1>11, <1>12, <1>13, <1>14 DEF Inv

LEMMA NoneCut == TypeOK => Cut({}) = req
BY DEF TypeOK, Cut

\* A login that the store takes adds its session and evicts at most one.
LEMMA CreateAdds ==
    ASSUME Inv, NEW r \in Requests, Create(r)
    PROVE  \/ /\ req[r].at = "create" /\ req' = [req EXCEPT ![r] = Idle]
              /\ UNCHANGED <<now, closed, stop, issued, janitor, sessions, history>>
           \/ Adding(r, {})
           \/ \E old \in Stored : Adding(r, {old})
<1> DEFINE i == req[r].id
           e == [created |-> req[r].t, expires |-> req[r].t + Lifetime]
<1>1. req[r].at = "create" /\ UNCHANGED <<now, closed, stop, issued, janitor>>
  BY DEF Create
<1>2. /\ i \in Ids /\ i \notin Stored /\ req[r].t \in Times
      /\ sessions \in [Ids -> Entry \cup {NoSession}] /\ closed \in BOOLEAN
      /\ touched \in [Ids -> Times] /\ 0 \in Times
  BY <1>1, SessionAssumption DEF Inv, TypeOK, Sane, Request, Known, Times
<1>3. e \in Entry /\ e.expires = req[r].t + Lifetime
  BY <1>2, SessionAssumption DEF Entry, Times
<1>4. CASE closed /\ req' = [req EXCEPT ![r] = Idle] /\ UNCHANGED <<sessions, history>>
  BY <1>1, <1>4
<1>5. CASE /\ ~closed /\ Cardinality(Stored) < MaxSessions
           /\ Added(i, req[r].t) /\ req' = [req EXCEPT ![r] = Idle]
  <2>1. /\ sessions' = [sessions EXCEPT ![i] = e] /\ gone' = gone \cup {}
        /\ touched' = [touched EXCEPT ![i] = req[r].t]
    BY <1>5 DEF Added
  <2> HIDE DEF e
  <2>2. /\ sessions' \in [Ids -> Entry \cup {NoSession}] /\ sessions'[i] = e
        /\ \A j \in Ids \ ({} \cup {i}) : sessions'[j] = sessions[j]
    BY <1>2, <1>3, <2>1
  <2>3. Stored \ {} = Stored /\ Cut({}) = req
    BY NoneCut DEF Inv
  <2>4. sessions'[i] \in Entry /\ sessions'[i].expires = req[r].t + Lifetime
    BY <1>3, <2>2
  <2>5. req' = [Cut({}) EXCEPT ![r] = Idle] /\ Cardinality(Stored \ {}) < MaxSessions
    BY <1>5, <2>3
  <2> QED
    BY <1>1, <1>2, <1>5, <2>1, <2>2, <2>4, <2>5 DEF Adding
<1>6. ASSUME ~closed, NEW old \in Oldest,
             sessions' = [sessions EXCEPT ![old] = NoSession, ![i] = e],
             gone' = gone \cup {old}, touched' = [touched EXCEPT ![old] = 0, ![i] = req[r].t],
             req' = [Cut({old}) EXCEPT ![r] = Idle]
      PROVE  Adding(r, {old}) /\ old \in Stored
  <2>1. old \in Stored /\ old \in Ids /\ old # i
    BY <1>2 DEF Oldest, Stored
  <2> HIDE DEF e
  <2>2. /\ sessions' \in [Ids -> Entry \cup {NoSession}] /\ sessions'[i] = e
        /\ \A j \in Ids \ ({old} \cup {i}) : sessions'[j] = sessions[j]
        /\ sessions'[old] = NoSession
    BY <1>2, <1>3, <1>6, <2>1
  <2>3. Cardinality(Stored \ {old}) < MaxSessions
    <3>1. /\ IsFiniteSet(Stored) /\ Cardinality(Stored) <= MaxSessions
          /\ Cardinality(Stored) \in Nat
      BY FS_CardinalityType DEF Inv, Bounded
    <3>2. Cardinality(Stored \ {old}) = Cardinality(Stored) - 1
      BY <2>1, <3>1, FS_RemoveElement
    <3> QED
      BY <3>1, <3>2, SessionAssumption
  <2>4. sessions'[i] \in Entry /\ sessions'[i].expires = req[r].t + Lifetime
    BY <1>3, <2>2
  <2>5. /\ touched' \in [Ids -> Times] /\ touched'[i] = req[r].t
        /\ \A j \in Ids \ ({old} \cup {i}) : touched'[j] = touched[j]
    BY <1>2, <1>6
  <2> QED
    BY <1>1, <1>6, <2>1, <2>2, <2>3, <2>4, <2>5 DEF Adding
<1> QED
  BY <1>2, <1>4, <1>5, <1>6 DEF Create

LEMMA CreateKeeps == ASSUME Inv, NEW r \in Requests, Create(r) PROVE Inv'
BY CreateAdds, AddKeeps, EndKeeps

----------------------------------------------------------------------------
(* What expiry takes away. *)

LEMMA ExpiryIsLate ==
    ASSUME Inv, NEW i \in Stored, NEW t \in Times, t <= now, Expired(i, t)
    PROVE  now > touched[i] + Lifetime
<1>1. /\ now \in Nat /\ t \in Nat /\ Lifetime \in Nat /\ i \in Ids
      /\ touched \in [Ids -> Times] /\ sessions[i].expires = touched[i] + Lifetime
  BY SessionAssumption DEF Inv, TypeOK, Dated, Stored, Times
<1>2. touched[i] \in Nat
  BY <1>1 DEF Times
<1>3. t > touched[i] + Lifetime
  BY <1>1 DEF Expired
<1> QED
  BY <1>1, <1>2, <1>3

LEMMA SweepIsLate ==
    ASSUME Inv, JanitorSweep, NEW i \in Stored, sessions'[i] = NoSession
    PROVE  now > touched[i] + Lifetime
<1>1. sessions[i] # NoSession /\ i \in Ids
  BY DEF Stored
<1>2. Expired(i, janitor.t)
  BY <1>1 DEF JanitorSweep, Removed
<1>3. janitor.t \in Times /\ janitor.t <= now
  BY DEF Inv, TypeOK, Scan, Dated
<1> QED
  BY <1>2, <1>3, ExpiryIsLate

LEMMA DropIsLate ==
    ASSUME Inv, NEW r \in Requests, req[r].at \in {"drop", "dropfresh"},
           NEW found, Drop(r, found), NEW i \in Stored, sessions'[i] = NoSession
    PROVE  now > touched[i] + Lifetime
<1>1. sessions[i] # NoSession /\ i \in Ids
  BY DEF Stored
<1>2. i = req[r].id /\ Expired(i, req[r].t)
  BY <1>1 DEF Drop, Removed
<1>3. req[r].t \in Times /\ req[r].t \in 0 .. now
  BY DEF Inv, TypeOK, Request, Sane
<1>4. req[r].t <= now
  BY <1>3
<1> QED
  BY <1>2, <1>3, <1>4, ExpiryIsLate

LEMMA TouchIsLate ==
    ASSUME Inv, NEW r \in Requests, Touch(r), NEW i \in Stored, sessions'[i] = NoSession
    PROVE  now > touched[i] + Lifetime
<1>1. /\ sessions[i] # NoSession /\ i \in Ids /\ now \in Times /\ now <= now
      /\ sessions \in [Ids -> Entry \cup {NoSession}]
  BY DEF Stored, Inv, TypeOK, Times
<1>2. CASE sessions' = sessions
  BY <1>1, <1>2
<1>3. CASE Removed({req[r].id}) /\ Expired(req[r].id, now)
  <2>1. i = req[r].id
    BY <1>1, <1>3 DEF Removed
  <2> QED
    BY <1>1, <1>3, <2>1, ExpiryIsLate
<1>4. CASE /\ sessions[req[r].id] # NoSession
           /\ sessions' = [sessions EXCEPT ![req[r].id].expires = now + Lifetime]
  <2>1. i # req[r].id
    <3>1. sessions[req[r].id] \in Entry /\ now + Lifetime \in Nat
      BY <1>1, <1>4, SessionAssumption DEF Entry, Times, Inv, TypeOK, Request
    <3> DEFINE e == [sessions[req[r].id] EXCEPT !.expires = now + Lifetime]
    <3>2. e \in [created : Nat, expires : Nat]
      BY <3>1 DEF Entry, Times
    <3>3. e # NoSession
      BY <3>2, SessionAssumption
    <3>4. i = req[r].id => sessions'[i] = e
      BY <1>1, <1>4
    <3> QED
      BY <3>3, <3>4
  <2> QED
    BY <1>1, <1>4, <2>1
<1> QED
  BY <1>2, <1>3, <1>4 DEF Touch

----------------------------------------------------------------------------
(* The theorems. *)

LEMMA NextKeeps == Inv /\ [Next]_vars => Inv'
<1> SUFFICES ASSUME Inv, [Next]_vars PROVE Inv'
  OBVIOUS
<1>1. ASSUME NEW r \in Requests, Serve(r) PROVE Inv'
  <2>1. CASE Get(r) \/ GetFresh(r)
    BY <2>1, LookKeeps DEF Get, GetFresh
  <2>2. CASE GetDrop(r) \/ GetFreshDrop(r)
    BY <2>2, DropKeeps DEF GetDrop, GetFreshDrop
  <2> QED
    BY <1>1, <2>1, <2>2, LoginKeeps, CreateKeeps, ArriveKeeps, TouchKeeps, ServedKeeps DEF Serve
<1> QED
  BY <1>1, StutterKeeps, TickKeeps, LogoutKeeps, JanitorScanKeeps, JanitorSweepKeeps,
     JanitorReturnsKeeps, StopKeeps, StopWipesKeeps DEF Next

\* Every reachable state is well typed and satisfies what the theorems below
\* follow from, for any number of sessions and requests.
THEOREM SessionInvariant == Spec => []Inv
BY InitHolds, NextKeeps, PTL DEF Spec

\* No Touch or Get in flight brings back a session that was logged out,
\* evicted, swept or wiped.
THEOREM GoneForGood == Spec => []GoneStaysGone
<1>1. Inv => GoneStaysGone
  BY DEF Inv
<1> QED
  BY <1>1, SessionInvariant, PTL

\* The middleware lets no request through whose session had lapsed when it
\* began or was deleted before the second lookup.
THEOREM StaleNeverServed == Spec => []StaleIsRefused
<1>1. Inv => StaleIsRefused
  BY DEF Inv, Sane, StaleIsRefused
<1> QED
  BY <1>1, SessionInvariant, PTL

\* The cap holds for any number of concurrent logins, and nothing is stored
\* after Stop has returned.
THEOREM CapHolds == Spec => []StoreIsBounded
<1>1. Inv => StoreIsBounded
  BY DEF Inv, Bounded, StoreIsBounded
<1> QED
  BY <1>1, SessionInvariant, PTL

\* Expiry takes no session that was created or renewed less than a lifetime
\* ago, whatever the janitor and the requests saw before they locked the store.
THEOREM ActiveSurvives == Spec => ActiveIsKept
<1> DEFINE Expiring == JanitorSweep \/ (\E r \in Requests : GetDrop(r) \/ Touch(r) \/ GetFreshDrop(r))
           Late == \A i \in Stored : sessions'[i] = NoSession => now > touched[i] + Lifetime
<1>1. Inv /\ [Next]_vars => [Expiring => Late]_vars
  <2>1. ASSUME Inv, Expiring PROVE Late
    BY <2>1, SweepIsLate, DropIsLate, TouchIsLate DEF GetDrop, GetFreshDrop
  <2> QED
    BY <2>1
<1> QED
  BY <1>1, SessionInvariant, PTL DEF Spec, ActiveIsKept

----------------------------------------------------------------------------
(* Sessions implements SessionLife. *)

lvars == <<Live, Over, Admitted>>

LEMMA InitLives == Init => Life!Init
<1> SUFFICES ASSUME Init PROVE Life!Init
  OBVIOUS
<1>1. Live = {} /\ Over = {}
  BY DEF Init, Live, Over, Stored, Expired
<1>2. Admitted = [r \in Requests |-> NoId]
  BY DEF Init, Admitted, Idle
<1> QED
  BY <1>1, <1>2 DEF Life!Init

\* Requests that stay where they are, or move among the stages before the last,
\* are not let through.
LEMMA SameAdmitted ==
    ASSUME \A q \in Requests :
              /\ req'[q].at = "serving" <=> req[q].at = "serving"
              /\ req[q].at = "serving" => req'[q].id = req[q].id
    PROVE  Admitted' = Admitted
BY DEF Admitted

\* The end of a request, with sessions of others cut or not.
LEMMA EndAdmits ==
    ASSUME Inv, NEW r \in Requests, NEW is, req[r].at # "serving",
           req' = Cut(is) \/ req' = [Cut(is) EXCEPT ![r] = Idle]
    PROVE  Admitted' = Admitted
<1>1. req'[r].at # "serving" /\ \A q \in Requests \ {r} : req'[q] = Cut(is)[q]
  BY CutFacts, IdleIs DEF Inv
<1>2. \A q \in Requests : Cut(is)[q].at = req[q].at /\ Cut(is)[q].id = req[q].id
  BY CutFacts DEF Inv
<1> QED
  BY <1>1, <1>2, SameAdmitted

LEMMA CutAdmits ==
    ASSUME Inv, NEW is, req' = Cut(is)
    PROVE  Admitted' = Admitted
<1>1. \A q \in Requests : req'[q].at = req[q].at /\ req'[q].id = req[q].id
  BY CutFacts DEF Inv
<1> QED
  BY <1>1, SameAdmitted

LEMMA SameLives ==
    ASSUME UNCHANGED <<now, sessions, gone>>
    PROVE  Live' = Live /\ Over' = Over
BY DEF Live, Over, Stored, Expired

\* A removal ends the sessions among its own that were alive.
LEMMA RemovedLives ==
    ASSUME Inv, NEW is, Removed(is), now' = now
    PROVE  Live' = Live \ is /\ Over' = Over \cup (is \cap Live)
<1>1. /\ sessions' = [i \in Ids |-> IF i \in is THEN NoSession ELSE sessions[i]]
      /\ gone' = gone \cup (is \cap Stored)
  BY DEF Removed
<1>2. Live' = Live \ is
  BY <1>1 DEF Live, Stored, Expired
<1>3. \A i \in Ids : Expired(i, now)' <=> Expired(i, now) /\ i \notin is
  BY <1>1 DEF Expired
<1>4. Stored = Live \cup {i \in Ids : Expired(i, now)}
  BY DEF Live, Stored, Expired
<1>5. Over' = gone' \cup {i \in Ids : Expired(i, now) /\ i \notin is}
  BY <1>3 DEF Over
<1> QED
  BY <1>1, <1>2, <1>4, <1>5 DEF Over

LEMMA RemovalEndsLives ==
    ASSUME Inv, NEW is, Removed(is), now' = now, Admitted' = Admitted
    PROVE  Life!End
<1>1. Live' = Live \ (is \cap Live) /\ Over' = Over \cup (is \cap Live)
  BY RemovedLives
<1> QED
  BY <1>1 DEF Life!End

\* The removal of sessions that have expired takes none that was alive.
LEMMA ExpiryTakesNone ==
    ASSUME Inv, NEW is, Removed(is), now' = now,
           \A i \in is \cap Stored : \E t \in 0 .. now : Expired(i, t)
    PROVE  Live' = Live /\ Over' = Over
<1>1. ASSUME NEW i \in is \cap Stored PROVE Expired(i, now)
  <2>1. PICK t \in 0 .. now : Expired(i, t)
    BY <1>1
  <2>2. now \in Nat /\ sessions[i].expires \in Nat
    BY SessionAssumption DEF Inv, TypeOK, Entry, Times, Stored
  <2> QED
    BY <2>1, <2>2 DEF Expired
<1>2. is \cap Live = {}
  BY <1>1 DEF Live
<1> QED
  BY <1>2, RemovedLives

LEMMA TickLives == ASSUME Inv, Tick PROVE Life!End
<1>1. /\ UNCHANGED <<sessions, gone, req>> /\ now \in Nat /\ now' = now + 1
      /\ \A i \in Stored : sessions[i].expires \in Nat
  BY SessionAssumption DEF Tick, history, Inv, TypeOK, Times, Entry, Stored
<1>2. \A i \in Stored : Expired(i, now) => Expired(i, now)'
  BY <1>1 DEF Expired
<1>3. Stored' = Stored
  BY <1>1 DEF Stored
<1>4. Live' = Live \ (Live \ Live')
  BY <1>1, <1>2, <1>3 DEF Live
<1>5. Over' = Over \cup (Live \ Live')
  <2>1. Over = gone \cup (Stored \ Live) /\ Over' = gone' \cup (Stored' \ Live')
    BY DEF Over, Live, Stored, Expired
  <2>2. Live \subseteq Stored /\ Live' \subseteq Live /\ gone' = gone
    BY <1>1, <1>4 DEF Live
  <2> QED
    BY <1>3, <2>1, <2>2
<1>6. Admitted' = Admitted
  BY <1>1 DEF Admitted
<1> QED
  BY <1>4, <1>5, <1>6 DEF Life!End

LEMMA LifeCounts == \A S : Life!Cardinality(S) = Cardinality(S)
BY DEF Life!Cardinality, Cardinality

LEMMA OneCounts == \A S : S = {} \/ (\E o : S = {o}) => Cardinality(S) <= 1
<1>1. TAKE S
<1>2. CASE S = {}
  BY <1>2, FS_EmptySet
<1>3. ASSUME NEW o, S = {o} PROVE Cardinality(S) <= 1
  <2>1. Cardinality({o}) = 1
    BY FS_Singleton, Zenon
  <2>2. Cardinality(S) = 1
    BY <1>3, <2>1, Zenon
  <2> QED
    BY <2>2
<1> QED
  BY <1>2, <1>3

\* An eviction may take a session that has expired but was not swept: then
\* fewer are alive than the cap allows.
LEMMA AddLives ==
    ASSUME Inv, NEW r \in Requests, NEW is, Adding(r, is),
           is = {} \/ \E old : is = {old}
    PROVE  Life!Open
<1> USE DEF Adding
<1>0. PICK i : i = req[r].id
  OBVIOUS
<1> DEFINE old == is \cap Live
<1>1. /\ i \in Ids /\ i \notin Known /\ now \in Nat /\ req[r].t \in Nat /\ Lifetime \in Nat
      /\ Stored \subseteq Ids /\ gone \subseteq Ids /\ i \notin Stored /\ i \notin gone
  BY <1>0, SessionAssumption DEF Inv, TypeOK, Sane, Request, Stored, Known, Times
<1>2. i \in Ids \ (Live \cup Over)
  BY <1>1 DEF Live, Over, Stored, Expired
<1>3. Admitted' = Admitted
  BY EndAdmits
<1>4. old \in SUBSET Live /\ Cardinality(old) <= 1
  <2>1. old = {} \/ \E o : old = {o}
    OBVIOUS
  <2> QED
    BY <2>1, OneCounts, Zenon
<1>5. old = {} => Cardinality(Live) < MaxSessions
  <2>1. IsFiniteSet(Stored \ is)
    BY FS_Subset DEF Inv, Bounded
  <2>2. old = {} => Live \subseteq Stored \ is
    BY DEF Live
  <2>3. old = {} => /\ Cardinality(Live) <= Cardinality(Stored \ is)
                    /\ Cardinality(Live) \in Nat /\ Cardinality(Stored \ is) \in Nat
    BY <2>1, <2>2, FS_Subset, FS_CardinalityType
  <2> QED
    BY <2>3, SessionAssumption
<1>6. /\ sessions'[i] # NoSession
      /\ \A j \in Ids \ {i} : sessions'[j] = IF j \in is THEN NoSession ELSE sessions[j]
      /\ now' = now
  BY <1>0, <1>1, SessionAssumption DEF Entry, Times
<1>7. \A j \in Ids \ {i} : /\ j \in Stored' <=> j \in Stored \ is
                           /\ j \in Live' <=> j \in Live \ is
                           /\ j \in Over' <=> j \in Over \cup old
  BY <1>1, <1>6 DEF Stored, Live, Over, Expired
<1>8. i \in Stored' /\ i \notin gone'
  BY <1>1, <1>6 DEF Stored
<1>9. CASE ~Expired(i, now)'
  <2>1. i \in Live' /\ i \notin Over'
    BY <1>8, <1>9 DEF Live, Over
  <2>2. Live' = (Live \ old) \cup {i}
    BY <1>2, <1>7, <2>1 DEF Live, Stored
  <2>3. Over' = Over \cup old
    BY <1>2, <1>7, <2>1 DEF Live, Over, Stored
  <2> HIDE DEF old
  <2> QED
    BY <1>2, <1>3, <1>4, <1>5, <2>2, <2>3, LifeCounts DEF Life!Open
<1>10. CASE Expired(i, now)'
  <2>1. i \notin Live' /\ i \in Over'
    BY <1>1, <1>8, <1>10 DEF Live, Over
  <2>2. Live' = Live \ old
    BY <1>2, <1>7, <2>1 DEF Live, Stored
  <2>3. Over' = Over \cup old \cup {i}
    BY <1>2, <1>7, <2>1 DEF Live, Over, Stored
  <2> HIDE DEF old
  <2> QED
    BY <1>2, <1>3, <1>4, <1>5, <2>2, <2>3, LifeCounts DEF Life!Open
<1> QED
  BY <1>9, <1>10

\* A lookup under the read lock; the second one lets the request through.
LEMMA LookLives ==
    ASSUME Inv, NEW r \in Requests, NEW found, NEW dropping, Look(r, found, dropping),
           \/ req[r].at = "get" /\ found = "touch" /\ dropping = "drop"
           \/ req[r].at = "fresh" /\ found = "serving" /\ dropping = "dropfresh"
    PROVE  Life!Admit \/ UNCHANGED lvars
<1>1. Live' = Live /\ Over' = Over
  BY SameLives DEF Look, history
<1>2. req \in [Requests -> Request] /\ \A q \in Requests \ {r} : req'[q] = req[q]
  BY DEF Inv, TypeOK, Look, Goto
<1>3. CASE req'[r].at # "serving"
  <2>1. Admitted' = Admitted
    BY <1>2, <1>3, SameAdmitted
  <2> QED
    BY <1>1, <2>1 DEF lvars
<1>4. CASE req'[r].at = "serving"
  <2>1. sessions[req[r].id] # NoSession /\ ~Expired(req[r].id, now) /\ Goto(r, found)
    <3>1. CASE req' = [req EXCEPT ![r] = Idle]
      BY <1>2, <1>4, <3>1, IdleIs
    <3>2. CASE req' = [req EXCEPT ![r].at = dropping, ![r].t = now]
      <4>1. req'[r].at = dropping
        BY <1>2, <3>2 DEF Request
      <4> QED
        BY <1>4, <4>1
    <3> QED
      BY <3>1, <3>2 DEF Look
  <2>2. req'[r].id = req[r].id
    BY <1>2, <2>1 DEF Goto, Request
  <2>3. req[r].id \in Ids
    BY <1>2, <2>1, SessionAssumption DEF Inv, Sane, OnWay, Known, Stored, TypeOK
  <2>4. req[r].id \in Live
    BY <2>1, <2>3 DEF Live, Stored
  <2>5. Admitted[r] = NoId
    BY DEF Admitted
  <2>6. Admitted' = [Admitted EXCEPT ![r] = req[r].id]
    BY <1>2, <1>4, <2>2 DEF Admitted
  <2> QED
    BY <1>1, <2>4, <2>5, <2>6 DEF Life!Admit
<1> QED
  BY <1>3, <1>4

\* The second half of a lookup ends the request, and what it removes had
\* expired when the first half saw it.
LEMMA DropLives ==
    ASSUME Inv, NEW r \in Requests, NEW found, Drop(r, found), req[r].at \in {"drop", "dropfresh"}
    PROVE  UNCHANGED lvars
<1> DEFINE i == req[r].id
           is == IF Expired(i, req[r].t) THEN {i} ELSE {}
<1>1. sessions[i] = NoSession \/ is = {i}
  BY DEF Inv, Sane, Lapsed, Expired
<1>2. Removed(is) /\ req' = [Cut(is) EXCEPT ![r] = Idle] /\ now' = now
  BY <1>1 DEF Drop
<1>3. \A j \in is \cap Stored : \E t \in 0 .. now : Expired(j, t)
  BY DEF Inv, Sane
<1> HIDE DEF is
<1>4. Live' = Live /\ Over' = Over
  BY <1>2, <1>3, ExpiryTakesNone
<1>5. Admitted' = Admitted
  BY <1>2, EndAdmits
<1> QED
  BY <1>4, <1>5 DEF lvars

LEMMA TouchLives ==
    ASSUME Inv, NEW r \in Requests, Touch(r)
    PROVE  UNCHANGED lvars
<1> DEFINE i == req[r].id
<1>1. req[r].at = "touch" /\ now' = now /\ now \in Nat /\ now \in 0 .. now
  BY DEF Touch, Inv, TypeOK, Times
<1>2. CASE sessions[i] = NoSession /\ req' = [req EXCEPT ![r] = Idle] /\ UNCHANGED <<sessions, history>>
  <2>1. req' = [Cut({}) EXCEPT ![r] = Idle]
    BY <1>2, NoneCut DEF Inv
  <2> QED
    BY <1>1, <1>2, <2>1, EndAdmits, SameLives DEF history, lvars
<1>3. CASE Expired(i, now) /\ Removed({i}) /\ req' = [Cut({i}) EXCEPT ![r] = Idle]
  <2>1. Live' = Live /\ Over' = Over
    BY <1>1, <1>3, ExpiryTakesNone
  <2> QED
    BY <1>1, <1>3, <2>1, EndAdmits DEF lvars
<1>4. CASE /\ sessions[i] # NoSession /\ ~Expired(i, now)
           /\ sessions' = [sessions EXCEPT ![i].expires = now + Lifetime]
           /\ Goto(r, "fresh") /\ gone' = gone
  <2>1. i \in Ids /\ sessions \in [Ids -> Entry \cup {NoSession}] /\ Lifetime \in Nat
    BY <1>1, <1>4, SessionAssumption DEF Inv, TypeOK, Sane, OnWay, Known, Stored
  <2> DEFINE e == [sessions[i] EXCEPT !.expires = now + Lifetime]
  <2>2. e \in [created : Nat, expires : Nat] /\ e.expires = now + Lifetime
    BY <1>1, <1>4, <2>1 DEF Entry, Times
  <2>3. sessions'[i] = e /\ \A j \in Ids \ {i} : sessions'[j] = sessions[j]
    BY <1>4, <2>1
  <2> HIDE DEF e
  <2>4. sessions'[i] # NoSession /\ ~(now' > sessions'[i].expires)
    <3>1. ~(now > now + Lifetime)
      BY <1>1, <2>1
    <3> QED
      BY <1>1, <2>2, <2>3, <3>1, SessionAssumption
  <2>5. \A j \in Ids : /\ j \in Stored' <=> j \in Stored
                       /\ Expired(j, now)' <=> Expired(j, now)
    BY <1>1, <1>4, <2>3, <2>4 DEF Stored, Expired
  <2>6. Live' = Live /\ Over' = Over
    BY <1>4, <2>5 DEF Live, Over, Stored
  <2>7. Admitted' = Admitted
    <3>1. \A q \in Requests \ {r} : req'[q] = req[q]
      BY <1>4 DEF Goto, Inv, TypeOK
    <3>2. req'[r].at = "fresh"
      BY <1>4 DEF Goto, Inv, TypeOK, Request
    <3> QED
      BY <1>1, <3>1, <3>2, SameAdmitted
  <2> QED
    BY <2>6, <2>7 DEF lvars
<1> QED
  BY <1>2, <1>3, <1>4 DEF Touch

\* The steps of a request that leave the store alone.
LEMMA OutsideLives ==
    ASSUME Inv, NEW r \in Requests, Login(r) \/ Arrive(r)
    PROVE  UNCHANGED lvars
<1>1. Live' = Live /\ Over' = Over
  BY SameLives DEF Login, Arrive, history
<1>2. /\ \A q \in Requests \ {r} : req'[q] = req[q]
      /\ req[r].at # "serving" /\ req'[r].at # "serving"
  <2>1. req \in [Requests -> Request]
    BY DEF Inv, TypeOK
  <2>2. CASE Login(r)
    BY <2>1, <2>2 DEF Login, Idle
  <2>3. CASE Arrive(r)
    BY <2>1, <2>3 DEF Arrive
  <2> QED
    BY <2>2, <2>3
<1>3. Admitted' = Admitted
  BY <1>2, SameAdmitted
<1> QED
  BY <1>1, <1>3 DEF lvars

LEMMA ServedLives == ASSUME Inv, NEW r \in Requests, Served(r) PROVE Life!Leave
<1>1. Live' = Live /\ Over' = Over
  BY SameLives DEF Served, history
<1>2. req' = [req EXCEPT ![r] = Idle] /\ req \in [Requests -> Request]
  BY DEF Served, Inv, TypeOK
<1>3. Admitted' = [Admitted EXCEPT ![r] = NoId]
  BY <1>2, IdleIs DEF Admitted
<1> QED
  BY <1>1, <1>3 DEF Life!Leave

LEMMA ServeLives ==
    ASSUME Inv, NEW r \in Requests, Serve(r)
    PROVE  [Life!Next]_lvars
<1>1. CASE Create(r)
  <2>1. CASE /\ req[r].at = "create" /\ req' = [req EXCEPT ![r] = Idle]
             /\ UNCHANGED <<now, sessions, history>>
    <3>1. req' = [Cut({}) EXCEPT ![r] = Idle]
      BY <2>1, NoneCut DEF Inv
    <3> QED
      BY <2>1, <3>1, EndAdmits, SameLives DEF history, lvars
  <2> QED
    BY <1>1, <2>1, CreateAdds, AddLives DEF Life!Next
<1>2. CASE Get(r) \/ GetFresh(r)
  BY <1>2, LookLives DEF Get, GetFresh, Life!Next
<1>3. CASE GetDrop(r) \/ GetFreshDrop(r)
  BY <1>3, DropLives DEF GetDrop, GetFreshDrop
<1> QED
  BY <1>1, <1>2, <1>3, OutsideLives, TouchLives, ServedLives DEF Serve, Life!Next

LEMMA JanitorLives ==
    ASSUME Inv, JanitorScan \/ JanitorSweep \/ JanitorReturns \/ Stop
    PROVE  UNCHANGED lvars
<1>1. CASE JanitorScan \/ JanitorReturns \/ Stop
  BY <1>1, SameLives DEF JanitorScan, JanitorReturns, Stop, history, Admitted, lvars
<1>2. CASE JanitorSweep
  <2> DEFINE is == {i \in janitor.ids : Expired(i, janitor.t)}
  <2>1. Removed(is) /\ req' = Cut(is) /\ now' = now
    BY <1>2 DEF JanitorSweep
  <2>2. janitor.t \in 0 .. now
    BY DEF Inv, TypeOK, Scan, Dated, Times
  <2>3. \A i \in is \cap Stored : \E t \in 0 .. now : Expired(i, t)
    BY <2>2
  <2> HIDE DEF is
  <2> QED
    BY <2>1, <2>3, ExpiryTakesNone, CutAdmits DEF lvars
<1> QED
  BY <1>1, <1>2

LEMMA LogoutLives == ASSUME Inv, Logout \/ StopWipes PROVE Life!End
<1>1. PICK is : Removed(is) /\ req' = Cut(is) /\ now' = now
  BY DEF Logout, StopWipes
<1> QED
  BY <1>1, CutAdmits, RemovalEndsLives

LEMMA NextLives == Inv /\ [Next]_vars => [Life!Next]_lvars
<1> SUFFICES ASSUME Inv, [Next]_vars PROVE [Life!Next]_lvars
  OBVIOUS
<1>1. CASE UNCHANGED vars
  BY <1>1, SameLives DEF vars, history, Admitted, lvars
<1>2. CASE Tick \/ Logout \/ StopWipes
  BY <1>2, TickLives, LogoutLives DEF Life!Next
<1>3. CASE JanitorScan \/ JanitorSweep \/ JanitorReturns \/ Stop
  BY <1>3, JanitorLives
<1>4. CASE \E r \in Requests : Serve(r)
  BY <1>4, ServeLives
<1> QED
  BY <1>1, <1>2, <1>3, <1>4 DEF Next

\* For any number of sessions and requests, any cap, lifetime and clock: the
\* three lookups of the middleware let a request through as one step would that
\* finds its session alive, and no session lives twice.
THEOREM SessionsRefine == Spec => SessionsLiveOnce
<1>1. Inv /\ [Next]_vars => [Life!Next]_lvars
  BY NextLives
<1> QED
  BY InitLives, <1>1, SessionInvariant, PTL DEF Spec, SessionsLiveOnce, Life!Spec, lvars
=============================================================================
