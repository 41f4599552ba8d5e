------------------------------- MODULE Sessions -------------------------------
(***************************************************************************)
(* The admin sessions: the store with its cap and its sliding expiry, the  *)
(* logins and logouts, the middleware that looks a session up, renews it   *)
(* and looks it up again before it lets a request through, the janitor     *)
(* that scans and then sweeps, and the shutdown that waits for it.         *)
(*                                                                         *)
(* Whatever runs under the store's lock is one step; the clock and the     *)
(* other goroutines can move between two steps. Random identifiers never   *)
(* repeat. Left out: the cookie's form, the CSRF token, the password, and  *)
(* the copy of the session a request is given (nothing reads its times).   *)
(***************************************************************************)
EXTENDS Naturals, FiniteSets

CONSTANTS
    Ids,            \* session identifiers
    Requests,       \* requests served at once
    Lifetime,       \* sessionLifetime, a touch extends a session by it
    MaxSessions,    \* maxSessions, the cap of the store
    MaxClock,       \* bound on the clock
    NoSession, NoId

ASSUME SessionAssumption ==
    /\ Lifetime \in Nat /\ MaxClock \in Nat /\ MaxSessions \in Nat \ {0}
    /\ NoId \notin Ids /\ NoSession \notin [created : Nat, expires : Nat]

VARIABLES
    now,
    closed,     \* SessionStore.closed
    stop,       \* how far Stop has come
    sessions,   \* SessionStore.sessions
    issued,     \* identifiers generated so far
    janitor,    \* the scan it made, or that it waits or has returned
    req,        \* the request each goroutine serves
    gone,       \* history: sessions that were in the store and no longer are
    touched     \* history: when each stored session was created or last renewed

history == <<gone, touched>>
vars == <<now, closed, stop, sessions, issued, janitor, req, history>>

Times == 0 .. MaxClock
\* A session carries the time its login began and the time it expires.
Entry == [created : Times, expires : 0 .. MaxClock + Lifetime]

\* late: when the request began, its session was gone or had expired.
\* cut: its session was deleted before the request was let through.
Stages == {"idle", "create", "get", "drop", "touch", "fresh", "dropfresh", "serving"}
Request == [at : Stages, id : Ids \cup {NoId}, t : Times, late : BOOLEAN, cut : BOOLEAN]
Idle == [at |-> "idle", id |-> NoId, t |-> 0, late |-> FALSE, cut |-> FALSE]

Scan == [at : {"waits", "scanned", "returned"}, t : Times, ids : SUBSET Ids]
Waits == [at |-> "waits", t |-> 0, ids |-> {}]

TypeOK ==
    /\ now \in Times
    /\ closed \in BOOLEAN
    /\ stop \in {"none", "waiting", "returned"}
    /\ sessions \in [Ids -> Entry \cup {NoSession}]
    /\ issued \subseteq Ids
    /\ janitor \in Scan
    /\ req \in [Requests -> Request]
    /\ gone \subseteq Ids
    /\ touched \in [Ids -> Times]

Init ==
    /\ now = 0
    /\ closed = FALSE /\ stop = "none"
    /\ sessions = [i \in Ids |-> NoSession]
    /\ issued = {}
    /\ janitor = Waits
    /\ req = [r \in Requests |-> Idle]
    /\ gone = {} /\ touched = [i \in Ids |-> 0]

----------------------------------------------------------------------------

Stored == {i \in Ids : sessions[i] # NoSession}
\* The identifiers a browser may hold.
Known == Stored \cup gone
Expired(i, t) == sessions[i] # NoSession /\ t > sessions[i].expires

\* The sessions of is leave the store; of the requests on their way with one
\* of them, those not let through yet are marked.
Removed(is) ==
    /\ sessions' = [i \in Ids |-> IF i \in is THEN NoSession ELSE sessions[i]]
    /\ gone' = gone \cup (is \cap Stored)
    /\ touched' = [i \in Ids |-> IF i \in is THEN 0 ELSE touched[i]]

OnWay == {"get", "drop", "touch", "fresh", "dropfresh"}
Cut(is) == [q \in Requests |->
    IF req[q].at \in OnWay /\ req[q].id \in is THEN [req[q] EXCEPT !.cut = TRUE] ELSE req[q]]

Goto(r, stage) == req' = [req EXCEPT ![r].at = stage]

Tick ==
    /\ now < MaxClock
    /\ now' = now + 1
    /\ UNCHANGED <<closed, stop, sessions, issued, janitor, req, history>>

----------------------------------------------------------------------------
(* Login: the identifier and the time are taken before the lock. *)

\* Mutant: identifiers repeat.
LoginReuses(r) ==
    /\ req[r].at = "idle"
    /\ \E i \in Ids :
         /\ issued' = issued \cup {i}
         /\ req' = [req EXCEPT ![r] = [Idle EXCEPT !.at = "create", !.id = i, !.t = now]]
    /\ UNCHANGED <<now, closed, stop, sessions, janitor, history>>

Login(r) ==
    /\ req[r].at = "idle"
    /\ \E i \in Ids \ issued :
         /\ issued' = issued \cup {i}
         /\ req' = [req EXCEPT ![r] = [Idle EXCEPT !.at = "create", !.id = i, !.t = now]]
    /\ UNCHANGED <<now, closed, stop, sessions, janitor, history>>

\* Sessions a login may evict: one of those created first.
Oldest == {i \in Stored : \A j \in Stored : sessions[i].created <= sessions[j].created}

Added(i, t) ==
    /\ sessions' = [sessions EXCEPT ![i] = [created |-> t, expires |-> t + Lifetime]]
    /\ gone' = gone
    /\ touched' = [touched EXCEPT ![i] = t]

\* Mutant: the end of the store is not looked at under the lock.
CreateUnchecked(r) ==
    LET i == req[r].id
        is == IF Cardinality(Stored) < MaxSessions THEN {} ELSE {CHOOSE old \in Oldest : TRUE}
    IN
    /\ req[r].at = "create"
    /\ sessions' = [j \in Ids |->
          CASE j = i -> [created |-> req[r].t, expires |-> req[r].t + Lifetime]
            [] j \in is -> NoSession
            [] OTHER -> sessions[j]]
    /\ gone' = gone \cup is
    /\ touched' = [touched EXCEPT ![i] = req[r].t]
    /\ req' = [Cut(is) EXCEPT ![r] = Idle]
    /\ UNCHANGED <<now, closed, stop, issued, janitor>>

Create(r) ==
    LET i == req[r].id IN
    /\ req[r].at = "create"
    /\ \/ /\ closed
          /\ req' = [req EXCEPT ![r] = Idle]
          /\ UNCHANGED <<sessions, history>>
       \/ /\ ~closed
          /\ Cardinality(Stored) < MaxSessions
          /\ Added(i, req[r].t)
          /\ req' = [req EXCEPT ![r] = Idle]
       \/ /\ ~closed
          /\ Cardinality(Stored) >= MaxSessions
          /\ \E old \in Oldest :
               /\ sessions' = [sessions EXCEPT ![old] = NoSession,
                     ![i] = [created |-> req[r].t, expires |-> req[r].t + Lifetime]]
               /\ gone' = gone \cup {old}
               /\ touched' = [touched EXCEPT ![old] = 0, ![i] = req[r].t]
               /\ req' = [Cut({old}) EXCEPT ![r] = Idle]
    /\ UNCHANGED <<now, closed, stop, issued, janitor>>

----------------------------------------------------------------------------
(* The middleware, and the logout, which is one lock. *)

\* A closed store answers 503.
Arrive(r) ==
    /\ req[r].at = "idle" /\ ~closed
    /\ \E i \in Known :
         req' = [req EXCEPT ![r] = [at |-> "get", id |-> i, t |-> 0, cut |-> FALSE,
                                    late |-> sessions[i] = NoSession \/ Expired(i, now)]]
    /\ UNCHANGED <<now, closed, stop, sessions, issued, janitor, history>>

\* What Get does under the read lock: a missing session ends the request, an
\* expired one has to be deleted under the write lock, with the time seen now.
Look(r, found, dropping) ==
    LET i == req[r].id IN
    /\ \/ /\ sessions[i] = NoSession
          /\ req' = [req EXCEPT ![r] = Idle]
       \/ /\ sessions[i] # NoSession /\ ~Expired(i, now)
          /\ Goto(r, found)
       \/ /\ Expired(i, now)
          /\ req' = [req EXCEPT ![r].at = dropping, ![r].t = now]
    /\ UNCHANGED <<now, closed, stop, sessions, issued, janitor, history>>

\* The second half of Get: the entry is looked at again.
Drop(r, found) ==
    LET i == req[r].id
        is == IF Expired(i, req[r].t) THEN {i} ELSE {}
    IN
    /\ Removed(is)
    /\ req' = [Cut(is) EXCEPT ![r] =
          IF sessions[i] = NoSession \/ is = {i} THEN Idle ELSE [req[r] EXCEPT !.at = found]]
    /\ UNCHANGED <<now, closed, stop, issued, janitor>>

Get(r) == req[r].at = "get" /\ Look(r, "touch", "drop")
GetDrop(r) == req[r].at = "drop" /\ Drop(r, "touch")

\* Mutant: a renewal does not move the expiry.
TouchForgets(r) ==
    LET i == req[r].id IN
    /\ req[r].at = "touch"
    /\ IF sessions[i] = NoSession \/ Expired(i, now)
       THEN req' = [req EXCEPT ![r] = Idle] /\ touched' = touched
       ELSE touched' = [touched EXCEPT ![i] = now] /\ Goto(r, "fresh")
    /\ UNCHANGED <<now, closed, stop, sessions, issued, janitor, gone>>

\* Mutant: a renewal does not look at the expiry.
TouchExpired(r) ==
    LET i == req[r].id IN
    /\ req[r].at = "touch"
    /\ IF sessions[i] = NoSession
       THEN req' = [req EXCEPT ![r] = Idle] /\ UNCHANGED <<sessions, touched>>
       ELSE /\ sessions' = [sessions EXCEPT ![i].expires = now + Lifetime]
            /\ touched' = [touched EXCEPT ![i] = now]
            /\ Goto(r, "fresh")
    /\ UNCHANGED <<now, closed, stop, issued, janitor, gone>>

Touch(r) ==
    LET i == req[r].id IN
    /\ req[r].at = "touch"
    /\ \/ /\ sessions[i] = NoSession
          /\ req' = [req EXCEPT ![r] = Idle]
          /\ UNCHANGED <<sessions, history>>
       \/ /\ Expired(i, now)
          /\ Removed({i})
          /\ req' = [Cut({i}) EXCEPT ![r] = Idle]
       \/ /\ sessions[i] # NoSession /\ ~Expired(i, now)
          /\ sessions' = [sessions EXCEPT ![i].expires = now + Lifetime]
          /\ touched' = [touched EXCEPT ![i] = now]
          /\ Goto(r, "fresh")
          /\ gone' = gone
    /\ UNCHANGED <<now, closed, stop, issued, janitor>>

GetFresh(r) == req[r].at = "fresh" /\ Look(r, "serving", "dropfresh")
GetFreshDrop(r) == req[r].at = "dropfresh" /\ Drop(r, "serving")

Served(r) ==
    /\ req[r].at = "serving"
    /\ req' = [req EXCEPT ![r] = Idle]
    /\ UNCHANGED <<now, closed, stop, sessions, issued, janitor, history>>

Logout ==
    \E i \in Known :
      /\ Removed({i})
      /\ req' = Cut({i})
      /\ UNCHANGED <<now, closed, stop, issued, janitor>>

----------------------------------------------------------------------------
(* The janitor, and the end. *)

JanitorScan ==
    /\ janitor.at = "waits" /\ ~closed
    /\ LET found == {i \in Ids : Expired(i, now)} IN
         /\ found # {}
         /\ janitor' = [at |-> "scanned", t |-> now, ids |-> found]
    /\ UNCHANGED <<now, closed, stop, sessions, issued, req, history>>

JanitorSweep ==
    /\ janitor.at = "scanned"
    /\ LET is == {i \in janitor.ids : Expired(i, janitor.t)} IN
         Removed(is) /\ req' = Cut(is)
    /\ janitor' = Waits
    /\ UNCHANGED <<now, closed, stop, issued>>

\* Mutant: the janitor waits for a context that Stop does not cancel.
JanitorStays ==
    /\ janitor.at = "waits" /\ stop = "returned"
    /\ janitor' = [Waits EXCEPT !.at = "returned"]
    /\ UNCHANGED <<now, closed, stop, sessions, issued, req, history>>

JanitorReturns ==
    /\ janitor.at = "waits" /\ stop # "none"
    /\ janitor' = [Waits EXCEPT !.at = "returned"]
    /\ UNCHANGED <<now, closed, stop, sessions, issued, req, history>>

Stop ==
    /\ stop = "none"
    /\ closed' = TRUE /\ stop' = "waiting"
    /\ UNCHANGED <<now, sessions, issued, janitor, req, history>>

StopWipes ==
    /\ stop = "waiting" /\ janitor.at = "returned"
    /\ Removed(Ids) /\ req' = Cut(Ids)
    /\ stop' = "returned"
    /\ UNCHANGED <<now, closed, issued, janitor>>

----------------------------------------------------------------------------

Serve(r) ==
    \/ Login(r) \/ Create(r)
    \/ Arrive(r) \/ Get(r) \/ GetDrop(r) \/ Touch(r) \/ GetFresh(r) \/ GetFreshDrop(r) \/ Served(r)

Next ==
    \/ Tick \/ Logout
    \/ JanitorScan \/ JanitorSweep \/ JanitorReturns \/ Stop \/ StopWipes
    \/ \E r \in Requests : Serve(r)

Spec == Init /\ [][Next]_vars

\* The janitor is a goroutine that never waits for a request, and Stop wakes up
\* when it has returned.
FairSpec ==
    /\ Spec
    /\ WF_vars(JanitorSweep) /\ WF_vars(JanitorReturns) /\ WF_vars(StopWipes)

----------------------------------------------------------------------------
(* Properties *)

\* A request is not let through when its session was gone or had expired as it
\* began, nor when the session is deleted under it before the middleware's
\* second lookup, however it interleaves with renewals by other requests of the
\* same session, logouts, the cap, the janitor and the clock.
StaleIsRefused ==
    \A r \in Requests : req[r].at = "serving" => ~req[r].late /\ ~req[r].cut

\* The store never holds more sessions than its cap, and none once Stop has
\* returned, whatever logins are under way.
StoreIsBounded ==
    /\ Cardinality(Stored) <= MaxSessions
    /\ stop = "returned" => Stored = {}

\* Expiry never takes a session away that was created or renewed less than a
\* lifetime ago: only a logout, the cap and the end do.
ActiveIsKept ==
    [][JanitorSweep \/ (\E r \in Requests : GetDrop(r) \/ Touch(r) \/ GetFreshDrop(r))
         => \A i \in Stored : sessions'[i] = NoSession => now > touched[i] + Lifetime]_vars

\* How the promise of SessionLife reads here: a session that has expired is
\* over, whether or not it was swept yet.
Live == {i \in Stored : ~Expired(i, now)}
Over == gone \cup {i \in Ids : Expired(i, now)}
Admitted == [r \in Requests |-> IF req[r].at = "serving" THEN req[r].id ELSE NoId]

Life == INSTANCE SessionLife WITH live <- Live, over <- Over, served <- Admitted

\* The middleware's lookup, renewal and second lookup under three locks let a
\* request through as one step would that finds the session alive; and with the
\* cap, the clock, the janitor and the shutdown in between, an identifier lives
\* once: no session that was ended or expired is alive again.
SessionsLiveOnce == Life!Spec

\* Stop, called at shutdown, returns.
StopReturns == stop = "waiting" ~> stop = "returned"
===============================================================================
