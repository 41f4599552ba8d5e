------------------------------ MODULE SessionLife ------------------------------
(***************************************************************************)
(* What the session store and the middleware promise together: a session   *)
(* lives once and then is over for good ("prevents resurrecting expired    *)
(* sessions"), and letting a request through is one step that finds its    *)
(* session alive. There are no locks, no clock and no janitor here.        *)
(***************************************************************************)
EXTENDS Naturals, FiniteSets

CONSTANTS
    Ids,            \* session identifiers
    Requests,       \* requests served at once
    MaxSessions,    \* the most sessions that live at once
    NoId

VARIABLES
    live,       \* sessions that let a request through
    over,       \* sessions that never will again
    served      \* the session each request was let through with

Init ==
    /\ live = {} /\ over = {}
    /\ served = [r \in Requests |-> NoId]

\* A login opens a new session, over already if the login took too long; it
\* ends at most one other, and has to when as many as allowed are alive.
Open ==
    \E i \in Ids \ (live \cup over) : \E old \in SUBSET live :
      /\ Cardinality(old) <= 1
      /\ old = {} => Cardinality(live) < MaxSessions
      /\ \/ live' = (live \ old) \cup {i} /\ over' = over \cup old
         \/ live' = live \ old /\ over' = over \cup old \cup {i}
      /\ UNCHANGED served

\* A logout, the end of the store, or time.
End ==
    \E is \in SUBSET live :
      /\ live' = live \ is /\ over' = over \cup is
      /\ UNCHANGED served

Admit ==
    \E r \in Requests : \E i \in live :
      /\ served[r] = NoId
      /\ served' = [served EXCEPT ![r] = i]
      /\ UNCHANGED <<live, over>>

Leave ==
    \E r \in Requests :
      /\ served' = [served EXCEPT ![r] = NoId]
      /\ UNCHANGED <<live, over>>

Next == Open \/ End \/ Admit \/ Leave

Spec == Init /\ [][Next]_<<live, over, served>>
=============================================================================
