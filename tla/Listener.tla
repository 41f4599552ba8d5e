------------------------------- MODULE Listener -------------------------------
(***************************************************************************)
(* The listener that settings move while the server runs (liveRebinder):   *)
(* a new address is bound before the old one is given up; a change of the  *)
(* certificate on the same address has to give it up first. The calls hold *)
(* r.mu; the goroutines they start do not, except to store a restored      *)
(* server.                                                                 *)
(*                                                                         *)
(* A server object is used once: after its Shutdown it never serves. An    *)
(* object nobody refers to any more is free for the next call. Other       *)
(* processes may bind an address that is free. The files of a certificate  *)
(* are read when a change on the same address is checked, and again when   *)
(* the server starts, by when they may have changed. Left out: a pair that *)
(* fails the check (nothing happens), the firewall, and the requests that  *)
(* a server still answers while it shuts down.                             *)
(***************************************************************************)
EXTENDS Naturals, FiniteSets

CONSTANTS
    Servers,        \* http.Server objects
    Addresses,
    Certs,          \* certificates with their keys
    Plain,          \* no certificate: HTTP
    NoAddr, NoServer,
    MaxTaken        \* bound: addresses other processes hold at a time

ASSUME ListenerAssumption ==
    /\ NoServer \notin Servers /\ NoAddr \notin Addresses
    /\ Plain \notin Certs
    /\ MaxTaken \in Nat

VARIABLES
    cur,        \* *r.server
    conf,       \* r.curAddr and r.tlsCert, r.tlsKey
    server,     \* every server object
    socket,     \* the listener opened for each server
    job,        \* the goroutine that brings up each server
    closing,    \* servers a goroutine shuts down after a move
    leaked,     \* addresses bound by a listener nobody serves or closes
    taken,      \* addresses bound by other processes
    halted,     \* Shutdown was called, to restart the process
    spoilt      \* history: what may have kept a rebind from serving

lvars == <<cur, conf, server, socket, job, closing, leaked, taken, halted, spoilt>>

Tls == Certs \cup {Plain}
Closed == [addr |-> NoAddr, served |-> FALSE]
NoJob == [at |-> "none", addr |-> NoAddr, old |-> NoServer, tls |-> Plain]

LTypeOK ==
    /\ cur \in Servers
    /\ conf \in [addr : Addresses, tls : Tls]
    /\ server \in [Servers -> [down : BOOLEAN, tls : Tls]]
    /\ socket \in [Servers -> [addr : Addresses \cup {NoAddr}, served : BOOLEAN]]
    /\ job \in [Servers -> [at : {"none", "close", "listen", "serve", "restore"},
                            addr : Addresses \cup {NoAddr}, old : Servers \cup {NoServer}, tls : Tls]]
    /\ closing \subseteq Servers
    /\ leaked \subseteq Addresses /\ taken \subseteq Addresses
    /\ halted \in BOOLEAN
    /\ spoilt \subseteq {"overlap", "tls move", "taken", "files"}

\* The server is started on an address and serves it.
LInit ==
    /\ cur \in Servers
    /\ conf \in [addr : Addresses, tls : Tls]
    /\ server = [s \in Servers |-> [down |-> s # cur, tls |-> IF s = cur THEN conf.tls ELSE Plain]]
    /\ socket = [s \in Servers |->
          IF s = cur THEN [addr |-> conf.addr, served |-> TRUE] ELSE Closed]
    /\ job = [s \in Servers |-> NoJob]
    /\ closing = {} /\ leaked = {} /\ taken = {}
    /\ halted = FALSE /\ spoilt = {}

----------------------------------------------------------------------------

Bound == {socket[s].addr : s \in Servers} \cup leaked \cup taken
CanBind(a) == a \notin Bound

Quiet == closing = {} /\ \A s \in Servers : job[s] = NoJob

\* Objects that are garbage, and so as good as new. A rebind leaves one for a
\* restore: objects do not run out.
Unused == {s \in Servers :
    /\ s # cur /\ s \notin closing /\ job[s] = NoJob /\ socket[s] = Closed
    /\ \A t \in Servers : job[t].old # s}

Spoil(reason) == spoilt' = spoilt \cup reason \cup (IF Quiet THEN {} ELSE {"overlap"})

\* A changed certificate on the same address. A pair that does not load is an
\* error and changes nothing.
RebindTls ==
    /\ ~halted /\ Cardinality(Unused) > 1
    /\ \E n \in Unused, c \in Tls \ {conf.tls} :
         /\ server' = [server EXCEPT ![n] = [down |-> FALSE, tls |-> c]]
         /\ job' = [job EXCEPT ![n] =
               [at |-> "close", addr |-> conf.addr, old |-> cur, tls |-> conf.tls]]
         /\ cur' = n
         /\ conf' = [conf EXCEPT !.tls = c]
    /\ Spoil({})
    /\ UNCHANGED <<socket, closing, leaked, taken, halted>>

\* Mutant: the old server is shut down before the new address is bound.
MoveClosesFirst ==
    /\ ~halted /\ Cardinality(Unused) > 1
    /\ \E n \in Unused, a \in Addresses \ {conf.addr} :
         /\ server' = [server EXCEPT ![n] = [down |-> FALSE, tls |-> Plain], ![cur].down = TRUE]
         /\ socket' = [socket EXCEPT ![cur] = Closed,
               ![n] = IF CanBind(a) THEN [addr |-> a, served |-> FALSE] ELSE @]
         /\ job' = IF CanBind(a) THEN [job EXCEPT ![n] = [NoJob EXCEPT !.at = "serve"]] ELSE job
         /\ cur' = IF CanBind(a) THEN n ELSE cur
         /\ conf' = IF CanBind(a) THEN [addr |-> a, tls |-> Plain] ELSE conf
    /\ Spoil({})
    /\ UNCHANGED <<closing, leaked, taken, halted>>

\* Another address is bound first; if that fails nothing changes. Over HTTPS
\* the goroutine then binds the address for itself once more.
Move ==
    /\ ~halted /\ Cardinality(Unused) > 1
    /\ \E n \in Unused, a \in Addresses \ {conf.addr}, c \in Tls :
         /\ CanBind(a)
         /\ server' = [server EXCEPT ![n] = [down |-> FALSE, tls |-> c]]
         /\ IF c = Plain
            THEN /\ socket' = [socket EXCEPT ![n] = [addr |-> a, served |-> FALSE]]
                 /\ job' = [job EXCEPT ![n] = [NoJob EXCEPT !.at = "serve"]]
                 /\ leaked' = leaked
                 /\ Spoil({})
            ELSE /\ leaked' = leaked \cup {a}
                 /\ UNCHANGED <<socket, job>>
                 /\ Spoil({"tls move"})
         /\ closing' = closing \cup {cur}
         /\ cur' = n
         /\ conf' = [addr |-> a, tls |-> c]
    /\ UNCHANGED <<taken, halted>>

\* http.Server.Shutdown: the listeners it serves are closed at once, those it
\* has not been given yet when it is to serve them.
ShutDown(s) ==
    /\ server' = [server EXCEPT ![s].down = TRUE]
    /\ socket' = IF socket[s].served THEN [socket EXCEPT ![s] = Closed] ELSE socket

CloseOld(s) ==
    /\ s \in closing
    /\ ShutDown(s)
    /\ closing' = closing \ {s}
    /\ UNCHANGED <<cur, conf, job, leaked, taken, halted, spoilt>>

----------------------------------------------------------------------------
(* The goroutine of a change on the same address. *)

\* Mutant: the listener of the old server is not one its Shutdown can close.
JobClosesNot(n) ==
    /\ job[n].at = "close"
    /\ server' = [server EXCEPT ![job[n].old].down = TRUE]
    /\ job' = [job EXCEPT ![n].at = "listen", ![n].old = NoServer]
    /\ UNCHANGED <<cur, conf, socket, closing, leaked, taken, halted, spoilt>>

JobCloses(n) ==
    /\ job[n].at = "close"
    /\ ShutDown(job[n].old)
    /\ job' = [job EXCEPT ![n].at = "listen", ![n].old = NoServer]
    /\ UNCHANGED <<cur, conf, closing, leaked, taken, halted, spoilt>>

JobListens(n) ==
    LET a == job[n].addr IN
    /\ job[n].at = "listen"
    /\ IF CanBind(a)
       THEN /\ socket' = [socket EXCEPT ![n] = [addr |-> a, served |-> FALSE]]
            /\ job' = [job EXCEPT ![n] = [NoJob EXCEPT !.at = "serve"]]
       ELSE /\ job' = [job EXCEPT ![n].at = "restore"]
            /\ socket' = socket
    /\ UNCHANGED <<cur, conf, server, closing, leaked, taken, halted, spoilt>>

\* A server that was shut down closes the listener instead of serving it.
JobServes(n) ==
    /\ job[n].at = "serve"
    /\ socket' = [socket EXCEPT ![n] =
          IF server[n].down THEN Closed ELSE [@ EXCEPT !.served = TRUE]]
    /\ job' = [job EXCEPT ![n] = NoJob]
    /\ UNCHANGED <<cur, conf, server, closing, leaked, taken, halted, spoilt>>

\* ServeTLS does not get a key pair from the files any more: it returns and does
\* not close the listener.
JobFails(n) ==
    /\ job[n].at = "serve" /\ server[n].tls # Plain
    /\ socket' = [socket EXCEPT ![n] = Closed]
    /\ \E a \in Addresses : socket[n].addr = a /\ leaked' = leaked \cup {a}
    /\ job' = [job EXCEPT ![n] = NoJob]
    /\ spoilt' = spoilt \cup {"files"}
    /\ UNCHANGED <<cur, conf, server, closing, taken, halted>>

\* Mutant: the restored server is not stored for the next rebind.
JobRestoresUnstored(n) ==
    LET a == job[n].addr IN
    /\ job[n].at = "restore"
    /\ \E m \in Unused :
         /\ socket' = IF CanBind(a) THEN [socket EXCEPT ![m] = [addr |-> a, served |-> FALSE]] ELSE socket
         /\ server' = [server EXCEPT ![m] = [down |-> FALSE, tls |-> job[n].tls]]
         /\ job' = [job EXCEPT ![n] = NoJob, ![m] = IF CanBind(a) THEN [NoJob EXCEPT !.at = "serve"] ELSE @]
    /\ UNCHANGED <<cur, conf, closing, leaked, taken, halted, spoilt>>

\* Back to the previous certificate with one more server, if the address can
\* be bound now.
JobRestores(n) ==
    LET a == job[n].addr IN
    /\ job[n].at = "restore"
    /\ \/ /\ CanBind(a)
          /\ \E m \in Unused :
               /\ server' = [server EXCEPT ![m] = [down |-> FALSE, tls |-> job[n].tls]]
               /\ socket' = [socket EXCEPT ![m] = [addr |-> a, served |-> FALSE]]
               /\ job' = [job EXCEPT ![n] = NoJob, ![m] = [NoJob EXCEPT !.at = "serve"]]
               /\ cur' = m
               /\ conf' = [conf EXCEPT !.tls = job[n].tls]
       \/ /\ ~CanBind(a)
          /\ job' = [job EXCEPT ![n] = NoJob]
          /\ UNCHANGED <<cur, conf, server, socket>>
    /\ UNCHANGED <<closing, leaked, taken, halted, spoilt>>

----------------------------------------------------------------------------
(* The world, the collector, and the end. *)

Taken(a) ==
    /\ CanBind(a) /\ Cardinality(taken) < MaxTaken
    /\ taken' = taken \cup {a}
    /\ spoilt' = spoilt \cup (IF \E n \in Servers : job[n].addr = a THEN {"taken"} ELSE {})
    /\ UNCHANGED <<cur, conf, server, socket, job, closing, leaked, halted>>

Released(a) ==
    /\ a \in taken
    /\ taken' = taken \ {a}
    /\ UNCHANGED <<cur, conf, server, socket, job, closing, leaked, halted, spoilt>>

Collected(a) ==
    /\ a \in leaked
    /\ leaked' = leaked \ {a}
    /\ UNCHANGED <<cur, conf, server, socket, job, closing, taken, halted, spoilt>>

Halt ==
    /\ ~halted
    /\ halted' = TRUE
    /\ ShutDown(cur)
    /\ UNCHANGED <<cur, conf, job, closing, leaked, taken, spoilt>>

----------------------------------------------------------------------------

Job(n) == JobCloses(n) \/ JobListens(n) \/ JobServes(n) \/ JobFails(n) \/ JobRestores(n)

LNext ==
    \/ RebindTls \/ Move \/ Halt
    \/ \E n \in Servers : Job(n) \/ CloseOld(n)
    \/ \E a \in Addresses : Taken(a) \/ Released(a) \/ Collected(a)

LSpec == LInit /\ [][LNext]_lvars

\* The goroutines run; Shutdown gives up after ten seconds.
LFairSpec == LSpec /\ \A n \in Servers : WF_lvars(Job(n)) /\ WF_lvars(CloseOld(n))

----------------------------------------------------------------------------
(* Properties *)

Serves(s) == socket[s] = [addr |-> conf.addr, served |-> TRUE] /\ server[s].tls = conf.tls

\* Once the goroutines of the last rebind are done, the server object that the
\* next rebind and the shutdown act on serves, where and with the certificate
\* the rebinder believes, and no other one does. If another process took the
\* address meanwhile, or the files of the certificate were no key pair any more
\* when the server started, this is so after the restore, or nobody serves.
\* Rebinds that overlapped and moves over HTTPS are left out.
QuietServesOnce ==
    Quiet /\ spoilt \subseteq {"taken", "files"} /\ ~halted =>
        /\ Serves(cur) \/ (spoilt # {} /\ socket[cur] = Closed)
        /\ \A s \in Servers \ {cur} : socket[s] = Closed

\* "a no-downtime operation": while no certificate is being changed, there is
\* always a listener that accepts connections which are, or will be, served.
NoDowntime ==
    spoilt = {} /\ ~halted /\ (\A n \in Servers : job[n].at \in {"none", "serve"}) =>
        \E s \in Servers : socket[s] # Closed /\ ~server[s].down

\* Every rebind comes to its end: the server the rebinder refers to serves at
\* its address with its certificate, unless another process got in between, the
\* files of the certificate changed, the process halts, rebinds overlapped or it
\* was a move over HTTPS.
RebindsServe == spoilt = {} ~> Serves(cur) \/ spoilt # {} \/ halted

\* "Start the new server first. If it binds successfully, shut down the old
\* one": a move to an address that could be bound ends up serving there.
MovesServe ==
    Quiet /\ spoilt \subseteq {"tls move"} /\ ~halted => Serves(cur)
===============================================================================
