------------------------------- MODULE EventBus -------------------------------
(***************************************************************************)
(* The monitoring feed: the middleware publishes an event for every        *)
(* request it has served, and every SSE stream of the admin page receives  *)
(* them through a buffered channel of its own (monitor.EventBus).          *)
(*                                                                         *)
(* Publish numbers the event before it takes the read lock; Subscribe and  *)
(* Unsubscribe take the write lock. As in sync.RWMutex, a writer that      *)
(* waits keeps new readers out. A stream may stand still for as long as    *)
(* its client does not read, and ends when the client is gone. A stream is *)
(* opened once; the keep-alive comments are left out.                      *)
(***************************************************************************)
EXTENDS Naturals, Sequences, FiniteSets

CONSTANTS
    Publishers,     \* requests that are being served
    Streams,        \* requests for /admin/monitoring/events
    BufferSize,     \* subBufferSize
    MaxEvents,      \* bound: events published in all
    Nobody

ASSUME EventBusAssumption ==
    /\ Nobody \notin Streams
    /\ BufferSize \in Nat \ {0} /\ MaxEvents \in Nat

VARIABLES
    nextID,
    dropped,    \* droppedEvents
    subs,       \* b.subs
    chan,       \* the channel of each stream
    closed,     \* the channels that are closed
    pub,        \* each publisher: its event, and the subscribers still to be served
    stream,     \* where each stream is
    writer,     \* the stream that has or waits for the write lock
    sent,       \* events a stream took from its channel and wrote, or tried to write, to its client
    due         \* history: events published while the stream was subscribed

vars == <<nextID, dropped, subs, chan, closed, pub, stream, writer, sent, due>>

Ids == 1..MaxEvents
NoCall == [at |-> "idle", id |-> 0, todo |-> {}]

TypeOK ==
    /\ nextID \in 0..MaxEvents
    /\ dropped \in 0..(MaxEvents * Cardinality(Streams))
    /\ subs \subseteq Streams
    /\ \A s \in Streams : chan[s] \in Seq(Ids) /\ Len(chan[s]) <= BufferSize
    /\ closed \subseteq Streams /\ closed \cap subs = {}
    /\ pub \in [Publishers -> [at : {"idle", "locking", "sending"}, id : 0..MaxEvents,
                               todo : SUBSET Streams]]
    /\ stream \in [Streams -> {"new", "subscribing", "hello", "live", "leaving", "gone"}]
    /\ writer \in Streams \cup {Nobody}
    /\ sent \in [Streams -> Seq(Ids)]
    /\ due \in [Streams -> SUBSET Ids]

Init ==
    /\ nextID = 0 /\ dropped = 0
    /\ subs = {} /\ closed = {}
    /\ chan = [s \in Streams |-> <<>>]
    /\ pub = [p \in Publishers |-> NoCall]
    /\ stream = [s \in Streams |-> "new"]
    /\ writer = Nobody
    /\ sent = [s \in Streams |-> <<>>]
    /\ due = [s \in Streams |-> {}]

----------------------------------------------------------------------------
(* Publish *)

Reading == \E p \in Publishers : pub[p].at = "sending"

Number(p) ==
    /\ pub[p].at = "idle" /\ nextID < MaxEvents
    /\ nextID' = nextID + 1
    /\ pub' = [pub EXCEPT ![p].at = "locking", ![p].id = nextID + 1]
    /\ UNCHANGED <<dropped, subs, chan, closed, stream, writer, sent, due>>

ReadLock(p) ==
    /\ pub[p].at = "locking" /\ writer = Nobody
    /\ pub' = [pub EXCEPT ![p].at = "sending", ![p].todo = subs]
    /\ due' = [s \in Streams |-> IF s \in subs THEN due[s] \cup {pub[p].id} ELSE due[s]]
    /\ UNCHANGED <<nextID, dropped, subs, chan, closed, stream, writer, sent>>

\* Mutant: a publisher waits for room in the channel.
SendBlocks(p) == \E s \in pub[p].todo :
    /\ Len(chan[s]) < BufferSize
    /\ chan' = [chan EXCEPT ![s] = Append(@, pub[p].id)]
    /\ pub' = [pub EXCEPT ![p].todo = @ \ {s}]
    /\ UNCHANGED <<nextID, dropped, subs, closed, stream, writer, sent, due>>

\* Mutant: the oldest event makes room without being counted.
SendEvicts(p) == \E s \in pub[p].todo :
    /\ chan' = [chan EXCEPT ![s] =
          IF Len(@) < BufferSize THEN Append(@, pub[p].id) ELSE Append(Tail(@), pub[p].id)]
    /\ pub' = [pub EXCEPT ![p].todo = @ \ {s}]
    /\ UNCHANGED <<nextID, dropped, subs, closed, stream, writer, sent, due>>

Send(p) == \E s \in pub[p].todo :
    /\ IF Len(chan[s]) < BufferSize
       THEN /\ chan' = [chan EXCEPT ![s] = Append(@, pub[p].id)]
            /\ dropped' = dropped
       ELSE /\ dropped' = dropped + 1
            /\ chan' = chan
    /\ pub' = [pub EXCEPT ![p].todo = @ \ {s}]
    /\ UNCHANGED <<nextID, subs, closed, stream, writer, sent, due>>

ReadUnlock(p) ==
    /\ pub[p].at = "sending" /\ pub[p].todo = {}
    /\ pub' = [pub EXCEPT ![p] = NoCall]
    /\ UNCHANGED <<nextID, dropped, subs, chan, closed, stream, writer, sent, due>>

----------------------------------------------------------------------------
(* A stream *)

Open(s) ==
    /\ stream[s] = "new"
    /\ stream' = [stream EXCEPT ![s] = "subscribing"]
    /\ UNCHANGED <<nextID, dropped, subs, chan, closed, pub, writer, sent, due>>

\* Lock: from here on new readers wait.
WriteLock(s) ==
    /\ stream[s] \in {"subscribing", "leaving"} /\ writer = Nobody
    /\ writer' = s
    /\ UNCHANGED <<nextID, dropped, subs, chan, closed, pub, stream, sent, due>>

Subscribe(s) ==
    /\ stream[s] = "subscribing" /\ writer = s /\ ~Reading
    /\ subs' = subs \cup {s}
    /\ writer' = Nobody
    /\ stream' = [stream EXCEPT ![s] = "hello"]
    /\ UNCHANGED <<nextID, dropped, chan, closed, pub, sent, due>>

\* The greeting holds the number of subscribers, read under the lock.
Hello(s) ==
    /\ stream[s] = "hello" /\ writer = Nobody
    /\ stream' = [stream EXCEPT ![s] = "live"]
    /\ UNCHANGED <<nextID, dropped, subs, chan, closed, pub, writer, sent, due>>

\* The write may fail, with the event taken: the stream ends.
Receive(s) ==
    /\ stream[s] = "live" /\ chan[s] # <<>>
    /\ stream' \in {stream, [stream EXCEPT ![s] = "leaving"]}
    /\ sent' = [sent EXCEPT ![s] = Append(@, Head(chan[s]))]
    /\ chan' = [chan EXCEPT ![s] = Tail(@)]
    /\ UNCHANGED <<nextID, dropped, subs, closed, pub, writer, due>>

\* The client is gone: the context is done or a keep-alive fails.
Leave(s) ==
    /\ stream[s] = "live"
    /\ stream' = [stream EXCEPT ![s] = "leaving"]
    /\ UNCHANGED <<nextID, dropped, subs, chan, closed, pub, writer, sent, due>>

\* Mutant: the channels are closed without the lock.
UnsubscribeUnlocked(s) ==
    /\ stream[s] = "leaving" /\ writer # s
    /\ subs' = subs \ {s}
    /\ closed' = closed \cup {s}
    /\ stream' = [stream EXCEPT ![s] = "gone"]
    /\ UNCHANGED <<nextID, dropped, chan, pub, writer, sent, due>>

Unsubscribe(s) ==
    /\ stream[s] = "leaving" /\ writer = s /\ ~Reading
    /\ subs' = subs \ {s}
    /\ closed' = closed \cup {s}
    /\ writer' = Nobody
    /\ stream' = [stream EXCEPT ![s] = "gone"]
    /\ UNCHANGED <<nextID, dropped, chan, pub, sent, due>>

----------------------------------------------------------------------------

Publishing(p) == ReadLock(p) \/ Send(p) \/ ReadUnlock(p)
Locking(s) == WriteLock(s) \/ Subscribe(s) \/ Hello(s) \/ Unsubscribe(s)

Next ==
    \/ \E p \in Publishers : Number(p) \/ Publishing(p)
    \/ \E s \in Streams : Open(s) \/ Locking(s) \/ Receive(s) \/ Leave(s)

Spec == Init /\ [][Next]_vars

\* Goroutines run and sync.RWMutex does not starve; nothing is assumed of the
\* clients, so a stream may never receive.
FairSpec ==
    /\ Spec
    /\ \A p \in Publishers : SF_vars(ReadLock(p)) /\ WF_vars(Send(p) \/ ReadUnlock(p))
    /\ \A s \in Streams : SF_vars(Locking(s))

----------------------------------------------------------------------------
(* Properties *)

\* No publisher ever sends on a channel that is closed, which would panic in
\* the middle of a request: a stream that ends waits for the fan-outs that hold
\* its subscription.
NeverSendsOnClosed == \A p \in Publishers : pub[p].todo \cap closed = {}

InSeq(q) == {q[i] : i \in DOMAIN q}
Waiting(s) == {pub[p].id : p \in {q \in Publishers : s \in pub[q].todo}}

\* What reached a stream, and the events of its time that it never gets.
Got(s) == sent[s] \o chan[s]
Lost == {l \in Streams \X Ids : l[2] \in due[l[1]] \ (InSeq(Got(l[1])) \cup Waiting(l[1]))}

\* Every event published while a stream was subscribed is taken for its client,
\* in the channel, still to be sent, or counted as dropped; none is taken twice
\* and none from before the stream subscribed. An event whose write fails counts
\* as taken: its client is gone, and the counter does not know of it.
DropsAreCounted ==
    /\ dropped = Cardinality(Lost)
    /\ \A s \in Streams : /\ \A i, j \in DOMAIN Got(s) : Got(s)[i] = Got(s)[j] => i = j
                          /\ InSeq(Got(s)) \subseteq due[s]

\* Publish never waits for a client: it returns even if every stream stands
\* still. A stream whose client is gone is released.
CallsReturn ==
    /\ \A p \in Publishers : pub[p].at # "idle" ~> pub[p].at = "idle"
    /\ \A s \in Streams : stream[s] = "leaving" ~> stream[s] = "gone"
===============================================================================
