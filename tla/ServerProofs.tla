---------------------------- MODULE ServerProofs ----------------------------
(***************************************************************************)
(* Proofs about EventBus and Listener, for any publishers, streams, buffer *)
(* size, servers, addresses and certificates, and any bounds.              *)
(*                                                                         *)
(* EventBus: a publisher sends to the subscribers it found under the read  *)
(* lock. The streams it still has to serve stay subscribed, because a      *)
(* stream leaves the bus under the write lock only while nobody reads; and *)
(* what it does not put into a channel it counts.                          *)
(*                                                                         *)
(* Listener: as long as rebinds follow each other, one server is current,  *)
(* and everything else is closed or going to be.                           *)
(***************************************************************************)
EXTENDS EventBus, Listener, SequenceTheorems, FiniteSetTheorems, TLAPS

\* Where the streams and the publishers are, as the lock sees it.
Locks ==
    /\ subs \subseteq Streams /\ closed \subseteq Streams /\ writer \in Streams \cup {Nobody}
    /\ closed \cap subs = {}
    /\ stream \in [Streams -> {"new", "subscribing", "hello", "live", "leaving", "gone"}]
    /\ pub \in [Publishers -> [at : {"idle", "locking", "sending"}, id : 0 .. MaxEvents,
                               todo : SUBSET Streams]]
    /\ nextID \in 0 .. MaxEvents
    /\ \A p \in Publishers : pub[p].at # "sending" => pub[p].todo = {}
    /\ \A p \in Publishers : pub[p].todo \subseteq subs
    /\ \A p \in Publishers : pub[p].at # "idle" => pub[p].id \in Ids
    /\ \A s \in closed : stream[s] = "gone"

\* The channels and what the clients got.
Buffers ==
    /\ DOMAIN chan = Streams
    /\ \A s \in Streams : chan[s] \in Seq(Ids) /\ Len(chan[s]) <= BufferSize
    /\ sent \in [Streams -> Seq(Ids)]
    /\ due \in [Streams -> SUBSET Ids]

Inv == Locks /\ Buffers

----------------------------------------------------------------------------

LEMMA InitHolds == Init => Inv
<1> SUFFICES ASSUME Init PROVE Inv
  OBVIOUS
<1>1. NoCall \in [at : {"idle", "locking", "sending"}, id : 0 .. MaxEvents, todo : SUBSET Streams]
  BY EventBusAssumption DEF NoCall
<1>2. Locks
  BY <1>1, EventBusAssumption DEF Init, Locks, NoCall
<1>3. <<>> \in Seq(Ids) /\ Len(<<>>) <= BufferSize
  BY EventBusAssumption
<1>4. Buffers
  BY <1>3 DEF Init, Buffers
<1> QED
  BY <1>2, <1>4 DEF Inv

LEMMA StutterKeeps == Inv /\ UNCHANGED vars => Inv'
BY DEF Inv, Locks, Buffers, vars

----------------------------------------------------------------------------
(* Publishing *)

LEMMA NumberKeeps == ASSUME Inv, NEW p \in Publishers, Number(p) PROVE Inv'
<1>1. nextID + 1 \in Ids /\ nextID + 1 \in 0 .. MaxEvents
  BY EventBusAssumption DEF Inv, Locks, Number, Ids
<1>2. Locks'
  BY <1>1 DEF Inv, Locks, Number
<1>3. Buffers'
  BY DEF Inv, Buffers, Number
<1> QED
  BY <1>2, <1>3 DEF Inv

LEMMA ReadLockKeeps == ASSUME Inv, NEW p \in Publishers, ReadLock(p) PROVE Inv'
<1>1. Locks'
  BY DEF Inv, Locks, ReadLock
<1>2. pub[p].id \in Ids
  BY DEF Inv, Locks, ReadLock
<1>3. due' \in [Streams -> SUBSET Ids]
  BY <1>2 DEF Inv, Buffers, ReadLock
<1>4. Buffers'
  BY <1>3 DEF Inv, Buffers, ReadLock
<1> QED
  BY <1>1, <1>4 DEF Inv

LEMMA SendKeeps == ASSUME Inv, NEW p \in Publishers, Send(p) PROVE Inv'
<1> PICK s \in pub[p].todo :
      /\ IF Len(chan[s]) < BufferSize
         THEN chan' = [chan EXCEPT ![s] = Append(@, pub[p].id)]
         ELSE chan' = chan
      /\ pub' = [pub EXCEPT ![p].todo = @ \ {s}]
      /\ UNCHANGED <<nextID, subs, closed, stream, writer, sent, due>>
  BY DEF Send
<1>1. s \in Streams /\ pub[p].at = "sending" /\ pub[p].id \in Ids
  BY DEF Inv, Locks
<1>2. Locks'
  BY DEF Inv, Locks
<1>3. CASE Len(chan[s]) < BufferSize
  <2>1. chan[s] \in Seq(Ids) /\ Len(chan[s]) \in Nat
    BY <1>1, LenProperties DEF Inv, Buffers
  <2>2. /\ Append(chan[s], pub[p].id) \in Seq(Ids)
        /\ Len(Append(chan[s], pub[p].id)) = Len(chan[s]) + 1
    BY <1>1, <2>1, AppendProperties
  <2>3. Len(Append(chan[s], pub[p].id)) <= BufferSize
    BY <1>3, <2>1, <2>2, EventBusAssumption
  <2>4. chan' = [chan EXCEPT ![s] = Append(chan[s], pub[p].id)]
    BY <1>3
  <2> QED
    BY <1>1, <1>2, <2>2, <2>3, <2>4 DEF Inv, Buffers
<1>4. CASE ~(Len(chan[s]) < BufferSize)
  BY <1>2, <1>4 DEF Inv, Buffers
<1> QED
  BY <1>3, <1>4

LEMMA ReadUnlockKeeps == ASSUME Inv, NEW p \in Publishers, ReadUnlock(p) PROVE Inv'
<1>1. NoCall \in [at : {"idle", "locking", "sending"}, id : 0 .. MaxEvents, todo : SUBSET Streams]
  BY EventBusAssumption DEF NoCall
<1>2. Locks'
  BY <1>1 DEF Inv, Locks, ReadUnlock, NoCall
<1> QED
  BY <1>2 DEF Inv, Buffers, ReadUnlock

----------------------------------------------------------------------------
(* Streams *)

\* Opening, greeting, leaving, and asking for the write lock: no subscription
\* changes, and only a stream that is not gone moves.
LEMMA MoveKeeps ==
    ASSUME Inv, NEW s \in Streams, Open(s) \/ WriteLock(s) \/ Hello(s) \/ Leave(s)
    PROVE  Inv'
<1>1. Locks'
  <2>1. CASE Open(s)
    BY <2>1 DEF Inv, Locks, Open
  <2>2. CASE WriteLock(s)
    BY <2>2 DEF Inv, Locks, WriteLock
  <2>3. CASE Hello(s)
    BY <2>3 DEF Inv, Locks, Hello
  <2>4. CASE Leave(s)
    BY <2>4 DEF Inv, Locks, Leave
  <2> QED
    BY <2>1, <2>2, <2>3, <2>4
<1>2. UNCHANGED <<chan, sent, due>>
  BY DEF Open, WriteLock, Hello, Leave
<1> QED
  BY <1>1, <1>2 DEF Inv, Buffers

LEMMA SubscribeKeeps == ASSUME Inv, NEW s \in Streams, Subscribe(s) PROVE Inv'
<1>1. s \notin closed
  BY DEF Inv, Locks, Subscribe
<1>2. Locks'
  BY <1>1 DEF Inv, Locks, Subscribe
<1> QED
  BY <1>2 DEF Inv, Buffers, Subscribe

LEMMA ReceiveKeeps == ASSUME Inv, NEW s \in Streams, Receive(s) PROVE Inv'
<1>1. chan[s] \in Seq(Ids) /\ chan[s] # <<>> /\ Len(chan[s]) <= BufferSize
  BY DEF Inv, Buffers, Receive
<1>2. Head(chan[s]) \in Ids /\ Tail(chan[s]) \in Seq(Ids) /\ Len(Tail(chan[s])) = Len(chan[s]) - 1
  BY <1>1, HeadTailProperties
<1>3. Len(Tail(chan[s])) <= BufferSize
  BY <1>1, <1>2, LenProperties, EventBusAssumption
<1>4. sent[s] \in Seq(Ids)
  BY DEF Inv, Buffers
<1>5. Append(sent[s], Head(chan[s])) \in Seq(Ids)
  BY <1>2, <1>4, AppendProperties
<1>6. Locks'
  BY DEF Inv, Locks, Receive
<1>7. Buffers'
  BY <1>2, <1>3, <1>5 DEF Inv, Buffers, Receive
<1> QED
  BY <1>6, <1>7 DEF Inv

LEMMA UnsubscribeKeeps == ASSUME Inv, NEW s \in Streams, Unsubscribe(s) PROVE Inv'
<1>1. \A p \in Publishers : pub[p].todo = {}
  BY DEF Inv, Locks, Unsubscribe, Reading
<1>2. Locks'
  BY <1>1 DEF Inv, Locks, Unsubscribe
<1> QED
  BY <1>2 DEF Inv, Buffers, Unsubscribe

----------------------------------------------------------------------------
(* The theorems. *)

LEMMA NextKeeps == Inv /\ [Next]_vars => Inv'
<1> SUFFICES ASSUME Inv, [Next]_vars PROVE Inv'
  OBVIOUS
<1>1. ASSUME NEW p \in Publishers, Number(p) \/ Publishing(p) PROVE Inv'
  BY <1>1, NumberKeeps, ReadLockKeeps, SendKeeps, ReadUnlockKeeps DEF Publishing
<1>2. ASSUME NEW s \in Streams, Open(s) \/ Locking(s) \/ Receive(s) \/ Leave(s) PROVE Inv'
  BY <1>2, MoveKeeps, SubscribeKeeps, ReceiveKeeps, UnsubscribeKeeps DEF Locking
<1> QED
  BY <1>1, <1>2, StutterKeeps DEF Next

\* Every reachable state is well typed, no channel is ever filled past its
\* buffer, and the streams a fan-out has still to serve are subscribed.
THEOREM BusInvariant == Spec => []Inv
BY InitHolds, NextKeeps, PTL DEF Spec

\* However many requests publish while streams come and go, no publisher ever
\* sends on a channel that Unsubscribe has closed.
THEOREM NoSendPanics == Spec => []NeverSendsOnClosed
<1>1. Inv => NeverSendsOnClosed
  BY DEF Inv, Locks, NeverSendsOnClosed
<1> QED
  BY <1>1, BusInvariant, PTL

----------------------------------------------------------------------------
(* Delivery *)

\* Events are numbered once, and a publisher sends its event to a stream only
\* once, while it is due there.
Told ==
    /\ \A p \in Publishers : pub[p].at # "idle" => pub[p].id <= nextID
    /\ \A p, q \in Publishers :
         p # q /\ pub[p].at # "idle" /\ pub[q].at # "idle" => pub[p].id # pub[q].id
    /\ \A s \in Streams : \A e \in due[s] : e <= nextID
    /\ \A p \in Publishers : pub[p].at = "locking" => \A s \in Streams : pub[p].id \notin due[s]
    /\ \A p \in Publishers, s \in Streams :
         s \in pub[p].todo => pub[p].id \in due[s] /\ pub[p].id \notin InSeq(Got(s))

Once(q) == \A i, j \in DOMAIN q : q[i] = q[j] => i = j

\* DropsAreCounted, and that the lost events can be counted.
Counted ==
    /\ \A s \in Streams : Once(Got(s)) /\ InSeq(Got(s)) \subseteq due[s]
    /\ IsFiniteSet(Lost) /\ dropped = Cardinality(Lost)

Delivery == Inv /\ Told /\ Counted

\* One more event at the end.
LEMMA AppendOnce ==
  ASSUME NEW q \in Seq(Ids), NEW e \in Ids, e \notin InSeq(q), Once(q)
  PROVE  Once(Append(q, e)) /\ InSeq(Append(q, e)) = InSeq(q) \cup {e}
<1> DEFINE r == Append(q, e)
<1>1. /\ Len(q) \in Nat /\ DOMAIN q = 1 .. Len(q)
      /\ r \in Seq(Ids) /\ Len(r) = Len(q) + 1
      /\ \A i \in 1 .. Len(q) : r[i] = q[i]
      /\ r[Len(q) + 1] = e
  BY AppendProperties, LenProperties
<1>2. DOMAIN r = 1 .. Len(q) + 1
  BY <1>1, LenProperties
<1>3. \A i \in DOMAIN q : q[i] # e
  BY DEF InSeq
<1> HIDE DEF r
<1>4. Once(r)
  <2> SUFFICES ASSUME NEW i \in DOMAIN r, NEW j \in DOMAIN r, r[i] = r[j] PROVE i = j
    BY DEF Once
  <2>1. i \in DOMAIN q \/ i = Len(q) + 1
    BY <1>1, <1>2
  <2>2. j \in DOMAIN q \/ j = Len(q) + 1
    BY <1>1, <1>2
  <2> QED
    BY <1>1, <1>3, <2>1, <2>2 DEF Once
<1>5. InSeq(r) = InSeq(q) \cup {e}
  <2>1. \A i \in DOMAIN r : r[i] \in InSeq(q) \cup {e}
    BY <1>1, <1>2 DEF InSeq
  <2>2. \A i \in DOMAIN q : i \in DOMAIN r /\ r[i] = q[i]
    BY <1>1, <1>2
  <2>3. Len(q) + 1 \in DOMAIN r
    BY <1>1, <1>2
  <2> QED
    BY <1>1, <2>1, <2>2, <2>3 DEF InSeq
<1> QED
  BY <1>4, <1>5 DEF r

\* Writing the head of a channel to its client.
LEMMA HeadMoves ==
  ASSUME NEW a \in Seq(Ids), NEW c \in Seq(Ids), c # <<>>
  PROVE  Append(a, Head(c)) \o Tail(c) = a \o c
<1>1. Head(c) \in Ids /\ Tail(c) \in Seq(Ids)
  BY HeadTailProperties
<1>2. Append(a, Head(c)) = a \o <<Head(c)>>
  BY <1>1, AppendIsConcat
<1>3. <<Head(c)>> \in Seq(Ids)
  BY <1>1
<1>4. (a \o <<Head(c)>>) \o Tail(c) = a \o (<<Head(c)>> \o Tail(c))
  BY <1>1, <1>3, ConcatAssociative
<1>5. <<Head(c)>> \o Tail(c) = c
  <2>1. /\ Len(c) \in Nat /\ Len(Tail(c)) = Len(c) - 1 /\ Head(c) = c[1]
        /\ \A i \in 1 .. Len(Tail(c)) : Tail(c)[i] = c[i + 1]
    BY HeadTailProperties, LenProperties
  <2>2. Len(<<Head(c)>>) = 1 /\ <<Head(c)>>[1] = Head(c)
    OBVIOUS
  <2> DEFINE h == <<Head(c)>>
  <2> HIDE DEF h
  <2>3. /\ h \o Tail(c) \in Seq(Ids) /\ Len(h \o Tail(c)) = Len(c)
        /\ \A i \in 1 .. 1 + Len(Tail(c)) : (h \o Tail(c))[i] = IF i <= 1 THEN h[i] ELSE Tail(c)[i - 1]
    BY <1>1, <1>3, <2>1, <2>2, ConcatProperties DEF h
  <2>4. \A i \in 1 .. Len(c) : (h \o Tail(c))[i] = c[i]
    <3> TAKE i \in 1 .. Len(c)
    <3>1. CASE i = 1
      BY <2>1, <2>2, <2>3, <3>1 DEF h
    <3>2. CASE i # 1
      BY <2>1, <2>3, <3>2
    <3> QED
      BY <3>1, <3>2
  <2> QED
    BY <2>3, <2>4, SeqEqual DEF h
<1> QED
  BY <1>2, <1>4, <1>5

LEMMA AppendBehind ==
  ASSUME NEW a \in Seq(Ids), NEW c \in Seq(Ids), NEW e \in Ids
  PROVE  a \o Append(c, e) = Append(a \o c, e)
<1>1. Append(c, e) = c \o <<e>> /\ a \o c \in Seq(Ids) /\ <<e>> \in Seq(Ids)
  BY AppendIsConcat, ConcatProperties
<1>2. Append(a \o c, e) = (a \o c) \o <<e>>
  BY <1>1, AppendIsConcat
<1> QED
  BY <1>1, <1>2, ConcatAssociative

LEMMA LostIs == \A l : l \in Lost <=>
    /\ l \in Streams \X Ids
    /\ l[2] \in due[l[1]] /\ l[2] \notin InSeq(Got(l[1]))
    /\ \A p \in Publishers : l[1] \in pub[p].todo => pub[p].id # l[2]
  BY DEF Lost, Waiting

LEMMA LostIsNext == \A l : l \in Lost' <=>
    /\ l \in Streams \X Ids
    /\ l[2] \in due'[l[1]] /\ l[2] \notin InSeq(Got(l[1]))'
    /\ \A p \in Publishers : l[1] \in pub'[p].todo => pub'[p].id # l[2]
  BY DEF Lost, Waiting, InSeq, Got

\* The steps that leave what is due, what is sent and who sends as they were.
LEMMA NothingMoves ==
  ASSUME Told, Counted, UNCHANGED <<nextID, dropped, pub, due>>,
         \A s \in Streams : Got(s)' = Got(s)
  PROVE  Told' /\ Counted'
<1>0. \A s \in Streams : InSeq(Got(s))' = InSeq(Got(s)) /\ (Once(Got(s))' <=> Once(Got(s)))
  BY DEF InSeq, Once
<1>1. Told'
  BY <1>0 DEF Told
<1>2. Lost' = Lost
  BY <1>0, LostIs, LostIsNext
<1>3. Counted'
  BY <1>0, <1>2 DEF Counted
<1> QED
  BY <1>1, <1>3

LEMMA StreamMovesTold ==
  ASSUME Inv, Told, Counted, NEW s \in Streams, Open(s) \/ Locking(s) \/ Leave(s)
  PROVE  Told' /\ Counted'
<1>1. UNCHANGED <<nextID, dropped, pub, due, sent, chan>>
  BY DEF Open, Locking, Leave, WriteLock, Subscribe, Hello, Unsubscribe
<1> QED
  BY <1>1, NothingMoves DEF Got

LEMMA ReceiveTold ==
  ASSUME Inv, Told, Counted, NEW s \in Streams, Receive(s)
  PROVE  Told' /\ Counted'
<1>1. /\ UNCHANGED <<nextID, dropped, pub, due>> /\ chan[s] # <<>>
      /\ sent' = [sent EXCEPT ![s] = Append(@, Head(chan[s]))]
      /\ chan' = [chan EXCEPT ![s] = Tail(@)]
  BY DEF Receive
<1>2. \A t \in Streams : chan[t] \in Seq(Ids) /\ sent[t] \in Seq(Ids) /\ DOMAIN chan = Streams
  BY DEF Inv, Buffers
<1>3. sent'[s] = Append(sent[s], Head(chan[s])) /\ chan'[s] = Tail(chan[s])
  <2>1. s \in DOMAIN sent /\ s \in DOMAIN chan
    BY DEF Inv, Buffers
  <2> QED
    BY <1>1, <2>1
<1>4. Got(s)' = Got(s)
  BY <1>1, <1>2, <1>3, HeadMoves DEF Got
<1>5. ASSUME NEW t \in Streams \ {s} PROVE Got(t)' = Got(t)
  <2>1. sent'[t] = sent[t] /\ chan'[t] = chan[t]
    BY <1>1, <1>2 DEF Inv, Buffers
  <2> QED
    BY <2>1 DEF Got
<1> QED
  BY <1>1, <1>4, <1>5, NothingMoves

LEMMA NumberTold ==
  ASSUME Inv, Told, Counted, NEW p \in Publishers, Number(p)
  PROVE  Told' /\ Counted'
<1>1. /\ pub[p].at = "idle" /\ nextID' = nextID + 1 /\ UNCHANGED <<dropped, due, sent, chan>>
      /\ pub' = [pub EXCEPT ![p].at = "locking", ![p].id = nextID + 1]
  BY DEF Number
<1>2. /\ pub[p].todo = {} /\ nextID \in Nat
      /\ \A q \in Publishers : pub[q].id \in Nat
      /\ \A t \in Streams : \A e \in due[t] : e \in Nat
  <2>1. pub[p].todo = {} /\ nextID \in Nat /\ \A q \in Publishers : pub[q].id \in Nat
    BY <1>1, EventBusAssumption DEF Inv, Locks
  <2>2. \A e \in Ids : e \in Nat
    BY EventBusAssumption DEF Ids
  <2> QED
    BY <2>1, <2>2 DEF Inv, Buffers
<1>3. /\ pub'[p].at = "locking" /\ pub'[p].id = nextID + 1 /\ pub'[p].todo = {}
      /\ \A q \in Publishers \ {p} : pub'[q] = pub[q]
  BY <1>1, <1>2 DEF Inv, Locks
<1>4. \A t \in Streams : InSeq(Got(t))' = InSeq(Got(t)) /\ (Once(Got(t))' <=> Once(Got(t)))
  BY <1>1 DEF InSeq, Once, Got
<1>5. \A t \in Streams : nextID + 1 \notin due[t]
  BY <1>2 DEF Told
<1>6. Told'
  <2>1. ASSUME NEW q \in Publishers, pub'[q].at # "idle" PROVE pub'[q].id <= nextID'
    <3>1. CASE q = p
      BY <1>1, <1>2, <1>3, <3>1
    <3>2. CASE q # p
      <4>1. pub'[q] = pub[q] /\ pub[q].id <= nextID
        BY <1>3, <2>1, <3>2 DEF Told
      <4> QED
        BY <1>1, <1>2, <4>1
    <3> QED
      BY <3>1, <3>2
  <2>2. ASSUME NEW q \in Publishers, NEW r \in Publishers, q # r,
               pub'[q].at # "idle", pub'[r].at # "idle"
        PROVE  pub'[q].id # pub'[r].id
    BY <1>2, <1>3, <2>2 DEF Told
  <2>3. \A t \in Streams : \A e \in due[t] : e <= nextID'
    BY <1>1, <1>2 DEF Told
  <2>4. \A q \in Publishers : pub'[q].at = "locking" => \A t \in Streams : pub'[q].id \notin due[t]
    BY <1>3, <1>5 DEF Told
  <2>5. \A q \in Publishers, t \in Streams :
          t \in pub'[q].todo => pub'[q].id \in due[t] /\ pub'[q].id \notin InSeq(Got(t))'
    BY <1>3, <1>4 DEF Told
  <2> QED
    BY <1>1, <2>1, <2>2, <2>3, <2>4, <2>5 DEF Told
<1>7. Lost' = Lost
  <2>1. \A t \in Streams, e \in Ids :
          (\A q \in Publishers : t \in pub'[q].todo => pub'[q].id # e)
            <=> (\A q \in Publishers : t \in pub[q].todo => pub[q].id # e)
    BY <1>2, <1>3
  <2> QED
    BY <1>1, <1>4, <2>1, LostIs, LostIsNext
<1> QED
  BY <1>1, <1>4, <1>6, <1>7 DEF Counted

LEMMA ReadLockTold ==
  ASSUME Inv, Told, Counted, NEW p \in Publishers, ReadLock(p)
  PROVE  Told' /\ Counted'
<1>1. /\ pub[p].at = "locking" /\ UNCHANGED <<nextID, dropped, sent, chan>>
      /\ pub' = [pub EXCEPT ![p].at = "sending", ![p].todo = subs]
      /\ due' = [s \in Streams |-> IF s \in subs THEN due[s] \cup {pub[p].id} ELSE due[s]]
  BY DEF ReadLock
<1>2. pub[p].todo = {} /\ subs \subseteq Streams
  BY <1>1 DEF Inv, Locks
<1>3. /\ pub'[p].at = "sending" /\ pub'[p].id = pub[p].id /\ pub'[p].todo = subs
      /\ \A q \in Publishers \ {p} : pub'[q] = pub[q]
      /\ \A t \in Streams : due'[t] = IF t \in subs THEN due[t] \cup {pub[p].id} ELSE due[t]
  BY <1>1 DEF Inv, Locks
<1>4. \A t \in Streams : InSeq(Got(t))' = InSeq(Got(t)) /\ (Once(Got(t))' <=> Once(Got(t)))
  BY <1>1 DEF InSeq, Once, Got
<1>5. \A t \in Streams : pub[p].id \notin due[t] /\ pub[p].id \notin InSeq(Got(t))
  BY <1>1 DEF Told, Counted
<1>6. Told'
  <2>1. \A q \in Publishers : pub'[q].at # "idle" => pub'[q].id <= nextID
    BY <1>1, <1>3 DEF Told
  <2>2. ASSUME NEW q \in Publishers, NEW r \in Publishers, q # r,
               pub'[q].at # "idle", pub'[r].at # "idle"
        PROVE  pub'[q].id # pub'[r].id
    <3>1. pub[q].at # "idle" /\ pub[r].at # "idle" /\ pub'[q].id = pub[q].id /\ pub'[r].id = pub[r].id
      BY <1>1, <1>3, <2>2
    <3> QED
      BY <2>2, <3>1 DEF Told
  <2>3. \A t \in Streams : \A e \in due'[t] : e <= nextID
    BY <1>1, <1>3 DEF Told
  <2>4. ASSUME NEW q \in Publishers, pub'[q].at = "locking", NEW t \in Streams
        PROVE  pub'[q].id \notin due'[t]
    <3>1. q # p /\ pub'[q] = pub[q]
      BY <1>3, <2>4
    <3>2. pub[q].id # pub[p].id /\ pub[q].id \notin due[t]
      BY <1>1, <2>4, <3>1 DEF Told
    <3> QED
      BY <1>3, <3>1, <3>2
  <2>5. ASSUME NEW q \in Publishers, NEW t \in Streams, t \in pub'[q].todo
        PROVE  pub'[q].id \in due'[t] /\ pub'[q].id \notin InSeq(Got(t))'
    <3>1. CASE q = p
      BY <1>3, <1>4, <1>5, <2>5, <3>1
    <3>2. CASE q # p
      <4>1. pub'[q] = pub[q]
        BY <1>3, <3>2
      <4>2. pub[q].id \in due[t] /\ pub[q].id \notin InSeq(Got(t))
        BY <2>5, <4>1 DEF Told
      <4> QED
        BY <1>3, <1>4, <4>1, <4>2
    <3> QED
      BY <3>1, <3>2
  <2> QED
    BY <1>1, <2>1, <2>2, <2>3, <2>4, <2>5 DEF Told
<1>7. Lost' = Lost
  <2>1. ASSUME NEW t \in Streams, NEW e \in Ids
        PROVE  (e \in due'[t] /\ \A q \in Publishers : t \in pub'[q].todo => pub'[q].id # e)
               <=> (e \in due[t] /\ \A q \in Publishers : t \in pub[q].todo => pub[q].id # e)
    BY <1>2, <1>3, <1>5
  <2> QED
    BY <1>4, <2>1, LostIs, LostIsNext
<1>8. \A t \in Streams : due[t] \subseteq due'[t]
  BY <1>3
<1> QED
  BY <1>1, <1>4, <1>6, <1>7, <1>8 DEF Counted

LEMMA ReadUnlockTold ==
  ASSUME Inv, Told, Counted, NEW p \in Publishers, ReadUnlock(p)
  PROVE  Told' /\ Counted'
<1>1. /\ pub[p].todo = {} /\ pub' = [pub EXCEPT ![p] = NoCall]
      /\ UNCHANGED <<nextID, dropped, sent, chan, due>>
  BY DEF ReadUnlock
<1>2. /\ pub'[p].at = "idle" /\ pub'[p].todo = {}
      /\ \A q \in Publishers \ {p} : pub'[q] = pub[q]
  BY <1>1 DEF Inv, Locks, NoCall
<1>4. \A t \in Streams : InSeq(Got(t))' = InSeq(Got(t)) /\ (Once(Got(t))' <=> Once(Got(t)))
  BY <1>1 DEF InSeq, Once, Got
<1>5. \A q \in Publishers : pub'[q].at # "idle" => pub'[q] = pub[q]
  BY <1>2
<1>6. Told'
  <2>1. \A q \in Publishers : pub'[q].at # "idle" => pub'[q].id <= nextID
    BY <1>5 DEF Told
  <2>2. \A q, r \in Publishers :
          q # r /\ pub'[q].at # "idle" /\ pub'[r].at # "idle" => pub'[q].id # pub'[r].id
    BY <1>5 DEF Told
  <2>4. \A q \in Publishers : pub'[q].at = "locking" => \A t \in Streams : pub'[q].id \notin due[t]
    BY <1>5 DEF Told
  <2>5. \A q \in Publishers, t \in Streams :
          t \in pub'[q].todo => pub'[q].id \in due[t] /\ pub'[q].id \notin InSeq(Got(t))'
    BY <1>2, <1>4 DEF Told
  <2> QED
    BY <1>1, <2>1, <2>2, <2>4, <2>5 DEF Told
<1>7. Lost' = Lost
  <2>1. \A t \in Streams, e \in Ids :
          (\A q \in Publishers : t \in pub'[q].todo => pub'[q].id # e)
            <=> (\A q \in Publishers : t \in pub[q].todo => pub[q].id # e)
    BY <1>1, <1>2
  <2> QED
    BY <1>1, <1>4, <2>1, LostIs, LostIsNext
<1> QED
  BY <1>1, <1>4, <1>6, <1>7 DEF Counted

\* The fan-out reaches one more stream: the event is in its channel, or counted.
LEMMA SendTold ==
  ASSUME Inv, Told, Counted, NEW p \in Publishers, Send(p)
  PROVE  Told' /\ Counted'
<1> PICK s \in pub[p].todo :
      /\ \/ /\ chan' = [chan EXCEPT ![s] = Append(@, pub[p].id)]
            /\ dropped' = dropped
         \/ /\ dropped' = dropped + 1
            /\ chan' = chan
      /\ pub' = [pub EXCEPT ![p].todo = @ \ {s}]
      /\ UNCHANGED <<nextID, sent, due>>
  BY DEF Send
<1> DEFINE e == pub[p].id
<1>1. /\ s \in Streams /\ pub[p].at = "sending" /\ e \in Ids
      /\ e \in due[s] /\ e \notin InSeq(Got(s)) /\ Once(Got(s)) /\ InSeq(Got(s)) \subseteq due[s]
  BY DEF Inv, Locks, Told, Counted
<1>2. /\ pub'[p].at = "sending" /\ pub'[p].id = e /\ pub'[p].todo = pub[p].todo \ {s}
      /\ \A q \in Publishers \ {p} : pub'[q] = pub[q]
  BY <1>1 DEF Inv, Locks
<1>3. \A q \in Publishers : /\ pub'[q].at = pub[q].at /\ pub'[q].id = pub[q].id
                            /\ pub'[q].todo \subseteq pub[q].todo
  BY <1>1, <1>2
\* Nobody else sends this event.
<1>4. ASSUME NEW q \in Publishers \ {p}, NEW t \in pub[q].todo PROVE pub[q].id # e
  <2>1. pub[q].at = "sending"
    BY DEF Inv, Locks
  <2> QED
    BY <1>1, <2>1 DEF Told
<1>5. ASSUME NEW t \in Streams \ {s} PROVE Got(t)' = Got(t)
  <2>1. sent'[t] = sent[t] /\ chan'[t] = chan[t]
    BY DEF Inv, Buffers
  <2> QED
    BY <2>1 DEF Got
<1>6. \A t \in Streams \ {s} : InSeq(Got(t))' = InSeq(Got(t)) /\ (Once(Got(t))' <=> Once(Got(t)))
  BY <1>5 DEF InSeq, Once
<1>7. \A t \in Streams, i \in Ids :
        (\A q \in Publishers : t \in pub'[q].todo => pub'[q].id # i)
          <=> \/ \A q \in Publishers : t \in pub[q].todo => pub[q].id # i
              \/ t = s /\ i = e
  <2> TAKE t \in Streams, i \in Ids
  <2>1. CASE t = s /\ i = e
    BY <1>2, <1>4, <2>1
  <2>2. CASE ~(t = s /\ i = e)
    BY <1>1, <1>2, <2>2
  <2> QED
    BY <2>1, <2>2
<1>8. ASSUME InSeq(Got(s))' \subseteq InSeq(Got(s)) \cup {e}
      PROVE  Told'
  <2>1. \A q \in Publishers : pub'[q].at # "idle" => pub'[q].id <= nextID
    BY <1>3 DEF Told
  <2>2. \A q, r \in Publishers :
          q # r /\ pub'[q].at # "idle" /\ pub'[r].at # "idle" => pub'[q].id # pub'[r].id
    BY <1>3 DEF Told
  <2>4. \A q \in Publishers : pub'[q].at = "locking" => \A t \in Streams : pub'[q].id \notin due[t]
    BY <1>3 DEF Told
  <2>5. ASSUME NEW q \in Publishers, NEW t \in Streams, t \in pub'[q].todo
        PROVE  pub'[q].id \in due[t] /\ pub'[q].id \notin InSeq(Got(t))'
    <3>1. t \in pub[q].todo /\ pub[q].id \in due[t] /\ pub[q].id \notin InSeq(Got(t)) /\ pub'[q].id = pub[q].id
      BY <1>3, <2>5 DEF Told
    <3>2. CASE t # s
      BY <1>6, <3>1, <3>2
    <3>3. CASE t = s
      BY <1>2, <1>4, <1>8, <2>5, <3>1, <3>3
    <3> QED
      BY <3>2, <3>3
  <2> QED
    BY <2>1, <2>2, <2>4, <2>5 DEF Told
<1>9. CASE /\ chan' = [chan EXCEPT ![s] = Append(@, e)]
           /\ dropped' = dropped
  <2>1. chan[s] \in Seq(Ids) /\ sent[s] \in Seq(Ids) /\ s \in DOMAIN chan
    BY <1>1 DEF Inv, Buffers
  <2>2. Got(s)' = Append(Got(s), e) /\ Got(s) \in Seq(Ids)
    BY <1>1, <1>9, <2>1, AppendBehind, ConcatProperties DEF Got
  <2>3. Once(Append(Got(s), e)) /\ InSeq(Append(Got(s), e)) = InSeq(Got(s)) \cup {e}
    BY <1>1, <2>2, AppendOnce
  <2>4. Once(Got(s))' /\ InSeq(Got(s))' = InSeq(Got(s)) \cup {e}
    BY <2>2, <2>3 DEF Once, InSeq
  <2>5. Lost' = Lost
    <3>1. ASSUME NEW t \in Streams, NEW i \in Ids
          PROVE  <<t, i>> \in Lost' <=> <<t, i>> \in Lost
      BY <1>1, <1>6, <1>7, <2>4, LostIs, LostIsNext
    <3>2. \A l \in Streams \X Ids : l \in Lost' <=> l \in Lost
      BY <3>1
    <3> QED
      BY <3>2 DEF Lost
  <2> QED
    BY <1>1, <1>6, <1>8, <1>9, <2>4, <2>5 DEF Counted
<1>10. CASE dropped' = dropped + 1 /\ chan' = chan
  <2>1. InSeq(Got(s))' = InSeq(Got(s)) /\ (Once(Got(s))' <=> Once(Got(s)))
    BY <1>10 DEF InSeq, Once, Got
  <2>2. <<s, e>> \notin Lost
    BY <1>1, LostIs
  <2>3. Lost' = Lost \cup {<<s, e>>}
    <3>1. ASSUME NEW t \in Streams, NEW i \in Ids
          PROVE  <<t, i>> \in Lost' <=> (<<t, i>> \in Lost \/ <<t, i>> = <<s, e>>)
      BY <1>1, <1>6, <1>7, <2>1, LostIs, LostIsNext
    <3>2. <<s, e>> \in Streams \X Ids
      BY <1>1
    <3> QED
      BY <3>1, <3>2, LostIs, LostIsNext
  <2>4. IsFiniteSet(Lost') /\ Cardinality(Lost') = Cardinality(Lost) + 1
    BY <2>2, <2>3, FS_AddElement DEF Counted
  <2> QED
    BY <1>1, <1>6, <1>8, <1>10, <2>1, <2>4 DEF Counted
<1> QED
  BY <1>9, <1>10

LEMMA InitTold == Init => Told /\ Counted
<1> SUFFICES ASSUME Init PROVE Told /\ Counted
  OBVIOUS
<1>1. /\ nextID = 0 /\ dropped = 0
      /\ \A p \in Publishers : pub[p].at = "idle" /\ pub[p].todo = {}
      /\ \A s \in Streams : due[s] = {} /\ sent[s] = <<>> /\ chan[s] = <<>>
  BY DEF Init, NoCall
<1>2. Lost = {}
  BY <1>1, LostIs
<1>3. \A s \in Streams : Got(s) = <<>>
  BY <1>1 DEF Got
<1>4. \A s \in Streams : Once(Got(s)) /\ InSeq(Got(s)) = {}
  BY <1>3 DEF Once, InSeq
<1>5. Told
  BY <1>1 DEF Told
<1> QED
  BY <1>1, <1>2, <1>4, <1>5, FS_EmptySet DEF Counted

LEMMA DeliveryNext == Delivery /\ [Next]_vars => Delivery'
<1> SUFFICES ASSUME Inv, Told, Counted, [Next]_vars PROVE Told' /\ Counted'
  BY NextKeeps DEF Delivery
<1>1. CASE UNCHANGED vars
  BY <1>1, NothingMoves DEF vars, Got
<1>2. ASSUME NEW p \in Publishers, Number(p) \/ Publishing(p) PROVE Told' /\ Counted'
  BY <1>2, NumberTold, ReadLockTold, SendTold, ReadUnlockTold DEF Publishing
<1>3. ASSUME NEW s \in Streams, Open(s) \/ Locking(s) \/ Receive(s) \/ Leave(s)
      PROVE  Told' /\ Counted'
  BY <1>3, StreamMovesTold, ReceiveTold
<1> QED
  BY <1>1, <1>2, <1>3 DEF Next

\* However many streams come, go and stand still, every event published to a
\* stream is delivered once, on its way or counted as dropped.
THEOREM NothingIsLostUncounted == Spec => []DropsAreCounted
<1>1. Init => Delivery
  BY InitHolds, InitTold DEF Delivery
<1>2. Delivery => DropsAreCounted
  BY DEF Delivery, Counted, Once, DropsAreCounted
<1> QED
  BY <1>1, <1>2, DeliveryNext, PTL DEF Spec

----------------------------------------------------------------------------
(* The listener *)

Held(a) == [addr |-> a, served |-> TRUE]

\* How far the server n, which the rebinder refers to, has been brought up.
Bringing(n) ==
    LET j == job[n] IN
    /\ j.at = "none" => /\ j = NoJob
                        /\ socket[n] = Held(conf.addr) \/ (spoilt # {} /\ socket[n] = Closed)
    /\ j.at = "serve" => j = [NoJob EXCEPT !.at = "serve"] /\ socket[n] = [addr |-> conf.addr, served |-> FALSE]
    /\ j.at \in {"close", "listen", "restore"} => closing = {} /\ j.addr = conf.addr /\ socket[n] = Closed
    /\ j.at = "close" => /\ j.old \in Servers \ {n}
                         /\ socket[j.old] = Held(conf.addr) \/ (spoilt # {} /\ socket[j.old] = Closed)
    /\ j.at \in {"listen", "restore"} => j.old = NoServer
    /\ j.at = "restore" => spoilt # {}

\* Only the current server has a goroutine that brings it up; every other one is
\* closed, or about to be closed by that goroutine or after a move.
Ordinary ==
    /\ cur \notin closing
    /\ ~server[cur].down /\ server[cur].tls = conf.tls
    /\ Bringing(cur)
    /\ \A s \in Servers \ {cur} :
         /\ job[s] = NoJob
         /\ socket[s].served \/ socket[s] = Closed
         /\ s \notin closing /\ job[cur].old # s => socket[s] = Closed
    /\ conf.addr \in taken \cup leaked => spoilt # {}

Undisturbed == ~halted /\ spoilt \subseteq {"taken", "files"}

LInv == LTypeOK /\ (Undisturbed => Ordinary)

(* Types. *)

Rec == [down : BOOLEAN, tls : Tls]
Sock == [addr : Addresses \cup {NoAddr}, served : BOOLEAN]
Jobs == [at : {"none", "close", "listen", "serve", "restore"},
         addr : Addresses \cup {NoAddr}, old : Servers \cup {NoServer}, tls : Tls]

LEMMA Records ==
    /\ \A d \in BOOLEAN, c \in Tls : [down |-> d, tls |-> c] \in Rec
    /\ \A a \in Addresses, d \in BOOLEAN : [addr |-> a, served |-> d] \in Sock
    /\ Closed \in Sock /\ NoJob \in Jobs /\ [NoJob EXCEPT !.at = "serve"] \in Jobs
    /\ \A s \in Sock : [s EXCEPT !.served = TRUE] \in Sock
    /\ \A r \in Rec : [r EXCEPT !.down = TRUE] \in Rec
    /\ \A j \in Jobs : /\ [j EXCEPT !.at = "restore"] \in Jobs
                       /\ [j EXCEPT !.at = "listen", !.old = NoServer] \in Jobs
    /\ \A a \in Addresses, s \in Servers, c \in Tls :
         [at |-> "close", addr |-> a, old |-> s, tls |-> c] \in Jobs
  BY DEF Rec, Sock, Jobs, Closed, NoJob, Tls

LEMMA TypeIs == LTypeOK <=>
    /\ cur \in Servers
    /\ conf \in [addr : Addresses, tls : Tls]
    /\ server \in [Servers -> Rec] /\ socket \in [Servers -> Sock] /\ job \in [Servers -> Jobs]
    /\ closing \subseteq Servers
    /\ leaked \subseteq Addresses /\ taken \subseteq Addresses
    /\ halted \in BOOLEAN
    /\ spoilt \subseteq {"overlap", "tls move", "taken", "files"}
  BY DEF LTypeOK, Rec, Sock, Jobs

LEMMA TypeIsNext == LTypeOK' <=>
    /\ cur' \in Servers
    /\ conf' \in [addr : Addresses, tls : Tls]
    /\ server' \in [Servers -> Rec] /\ socket' \in [Servers -> Sock] /\ job' \in [Servers -> Jobs]
    /\ closing' \subseteq Servers
    /\ leaked' \subseteq Addresses /\ taken' \subseteq Addresses
    /\ halted' \in BOOLEAN
    /\ spoilt' \subseteq {"overlap", "tls move", "taken", "files"}
  BY DEF LTypeOK, Rec, Sock, Jobs

LEMMA ShutDownTypes ==
  ASSUME LTypeOK, NEW s, ShutDown(s)
  PROVE  server' \in [Servers -> Rec] /\ socket' \in [Servers -> Sock]
<1>1. server \in [Servers -> Rec] /\ socket \in [Servers -> Sock]
  BY TypeIs
<1>2. server' = [server EXCEPT ![s].down = TRUE]
      /\ socket' = IF socket[s].served THEN [socket EXCEPT ![s] = Closed] ELSE socket
  BY DEF ShutDown
<1>3. server' \in [Servers -> Rec]
  <2>1. CASE s \in Servers
    <3>1. [server[s] EXCEPT !.down = TRUE] \in Rec
      BY <1>1, <2>1, Records
    <3>2. server' = [server EXCEPT ![s] = [server[s] EXCEPT !.down = TRUE]]
      BY <1>1, <1>2
    <3> QED
      BY <1>1, <3>1, <3>2
  <2>2. CASE s \notin Servers
    BY <1>1, <1>2, <2>2
  <2> QED
    BY <2>1, <2>2
<1>4. socket' \in [Servers -> Sock]
  BY <1>1, <1>2, Records
<1> QED
  BY <1>3, <1>4

LEMMA LTypes == LTypeOK /\ [LNext]_lvars => LTypeOK'
<1> SUFFICES ASSUME LTypeOK, [LNext]_lvars PROVE LTypeOK'
  OBVIOUS
<1>0. Unused \subseteq Servers /\ Plain \in Tls
  BY DEF Unused, Tls
<1>t. /\ cur \in Servers /\ conf.addr \in Addresses /\ conf.tls \in Tls
      /\ conf \in [addr : Addresses, tls : Tls]
      /\ server \in [Servers -> Rec] /\ socket \in [Servers -> Sock] /\ job \in [Servers -> Jobs]
      /\ closing \subseteq Servers
      /\ leaked \subseteq Addresses /\ taken \subseteq Addresses
      /\ halted \in BOOLEAN
      /\ spoilt \subseteq {"overlap", "tls move", "taken", "files"}
  BY TypeIs
<1>j. \A n \in Servers : job[n].addr \in Addresses \cup {NoAddr} /\ job[n].tls \in Tls
                         /\ socket[n] \in Sock
  BY <1>t DEF Jobs
<1>1. CASE RebindTls
  <2> PICK n \in Unused, c \in Tls \ {conf.tls} :
         /\ server' = [server EXCEPT ![n] = [down |-> FALSE, tls |-> c]]
         /\ job' = [job EXCEPT ![n] =
               [at |-> "close", addr |-> conf.addr, old |-> cur, tls |-> conf.tls]]
         /\ cur' = n
         /\ conf' = [conf EXCEPT !.tls = c]
         /\ spoilt' \subseteq spoilt \cup {"overlap"}
         /\ UNCHANGED <<socket, closing, leaked, taken, halted>>
    BY <1>1 DEF RebindTls, Spoil
  <2>1. server' \in [Servers -> Rec]
    BY <1>t, Records
  <2>2. job' \in [Servers -> Jobs]
    <3>1. [at |-> "close", addr |-> conf.addr, old |-> cur, tls |-> conf.tls] \in Jobs
      BY <1>t, Records
    <3> QED
      BY <1>t, <3>1
  <2> QED
    BY <1>0, <1>t, <2>1, <2>2, TypeIsNext
<1>2. CASE Move
  <2> PICK n \in Unused, a \in Addresses, c \in Tls :
        /\ server' = [server EXCEPT ![n] = [down |-> FALSE, tls |-> c]]
        /\ \/ /\ socket' = [socket EXCEPT ![n] = [addr |-> a, served |-> FALSE]]
              /\ job' = [job EXCEPT ![n] = [NoJob EXCEPT !.at = "serve"]]
              /\ leaked' = leaked
           \/ leaked' = leaked \cup {a} /\ UNCHANGED <<socket, job>>
        /\ spoilt' \subseteq spoilt \cup {"overlap", "tls move"}
        /\ closing' = closing \cup {cur}
        /\ cur' = n
        /\ conf' = [addr |-> a, tls |-> c]
        /\ UNCHANGED <<taken, halted>>
    BY <1>2 DEF Move, Spoil
  <2>1. server' \in [Servers -> Rec]
    BY <1>t, Records
  <2>2. job' \in [Servers -> Jobs]
    BY <1>t, Records
  <2>3. socket' \in [Servers -> Sock]
    <3>1. [addr |-> a, served |-> FALSE] \in Sock
      BY Records
    <3> QED
      BY <1>t, <3>1
  <2> QED
    BY <1>0, <1>t, <2>1, <2>2, <2>3, TypeIsNext
<1>4. ASSUME NEW s \in Servers, CloseOld(s) PROVE LTypeOK'
  <2>1. server' \in [Servers -> Rec] /\ socket' \in [Servers -> Sock]
    BY <1>4, ShutDownTypes DEF CloseOld
  <2>2. closing' \subseteq closing /\ UNCHANGED <<cur, conf, job, leaked, taken, halted, spoilt>>
    BY <1>4 DEF CloseOld
  <2> QED
    BY <1>t, <2>1, <2>2, TypeIsNext
<1>5. CASE Halt
  <2>1. server' \in [Servers -> Rec] /\ socket' \in [Servers -> Sock]
    BY <1>5, ShutDownTypes DEF Halt
  <2>2. halted' = TRUE /\ UNCHANGED <<cur, conf, job, closing, leaked, taken, spoilt>>
    BY <1>5 DEF Halt
  <2> QED
    BY <1>t, <2>1, <2>2, TypeIsNext
<1>6. ASSUME NEW n \in Servers, JobCloses(n) PROVE LTypeOK'
  <2>1. server' \in [Servers -> Rec] /\ socket' \in [Servers -> Sock]
    BY <1>6, ShutDownTypes DEF JobCloses
  <2>2. /\ job' = [job EXCEPT ![n].at = "listen", ![n].old = NoServer]
        /\ UNCHANGED <<cur, conf, closing, leaked, taken, halted, spoilt>>
    BY <1>6 DEF JobCloses
  <2>3. job' = [job EXCEPT ![n] = [job[n] EXCEPT !.at = "listen", !.old = NoServer]]
    BY <1>t, <2>2
  <2>4. job' \in [Servers -> Jobs]
    BY <1>t, <2>3, Records
  <2> QED
    BY <1>t, <2>1, <2>2, <2>4, TypeIsNext
<1>7. ASSUME NEW n \in Servers, JobListens(n) PROVE LTypeOK'
  <2>1. /\ \/ /\ socket' = [socket EXCEPT ![n] = [addr |-> job[n].addr, served |-> FALSE]]
              /\ job' = [job EXCEPT ![n] = [NoJob EXCEPT !.at = "serve"]]
           \/ /\ job' = [job EXCEPT ![n] = [job[n] EXCEPT !.at = "restore"]]
              /\ socket' = socket
        /\ UNCHANGED <<cur, conf, server, closing, leaked, taken, halted, spoilt>>
    BY <1>t, <1>7 DEF JobListens
  <2>2. [addr |-> job[n].addr, served |-> FALSE] \in Sock
    BY <1>j DEF Sock
  <2>3. socket' \in [Servers -> Sock]
    BY <1>t, <2>1, <2>2
  <2>4. job' \in [Servers -> Jobs]
    <3>1. [job[n] EXCEPT !.at = "restore"] \in Jobs /\ [NoJob EXCEPT !.at = "serve"] \in Jobs
      BY <1>t, Records
    <3> QED
      BY <1>t, <2>1, <3>1
  <2> QED
    BY <1>t, <2>1, <2>3, <2>4, TypeIsNext
<1>8. ASSUME NEW n \in Servers, JobServes(n) PROVE LTypeOK'
  <2>1. /\ socket' = [socket EXCEPT ![n] =
             IF server[n].down THEN Closed ELSE [socket[n] EXCEPT !.served = TRUE]]
        /\ job' = [job EXCEPT ![n] = NoJob]
        /\ UNCHANGED <<cur, conf, server, closing, leaked, taken, halted, spoilt>>
    BY <1>t, <1>8 DEF JobServes
  <2>2. (IF server[n].down THEN Closed ELSE [socket[n] EXCEPT !.served = TRUE]) \in Sock
    BY <1>j, Records
  <2>3. socket' \in [Servers -> Sock]
    BY <1>t, <2>1, <2>2
  <2>4. job' \in [Servers -> Jobs]
    BY <1>t, <2>1, Records
  <2> QED
    BY <1>t, <2>1, <2>3, <2>4, TypeIsNext
<1>12. ASSUME NEW n \in Servers, JobFails(n) PROVE LTypeOK'
  <2>1. /\ socket' = [socket EXCEPT ![n] = Closed]
        /\ job' = [job EXCEPT ![n] = NoJob]
        /\ leaked' \subseteq leaked \cup Addresses /\ spoilt' = spoilt \cup {"files"}
        /\ UNCHANGED <<cur, conf, server, closing, taken, halted>>
    BY <1>12 DEF JobFails
  <2>2. socket' \in [Servers -> Sock] /\ job' \in [Servers -> Jobs]
    BY <1>t, <2>1, Records
  <2> QED
    BY <1>t, <2>1, <2>2, TypeIsNext
<1>9. ASSUME NEW n \in Servers, JobRestores(n) PROVE LTypeOK'
  <2>1. UNCHANGED <<closing, leaked, taken, halted, spoilt>>
    BY <1>9 DEF JobRestores
  <2>2. CASE job' = [job EXCEPT ![n] = NoJob] /\ UNCHANGED <<cur, conf, server, socket>>
    <3>1. job' \in [Servers -> Jobs]
      BY <1>t, <2>2, Records
    <3> QED
      BY <1>t, <2>1, <2>2, <3>1, TypeIsNext
  <2>3. CASE \E m \in Unused :
               /\ server' = [server EXCEPT ![m] = [down |-> FALSE, tls |-> job[n].tls]]
               /\ socket' = [socket EXCEPT ![m] = [addr |-> job[n].addr, served |-> FALSE]]
               /\ job' = [job EXCEPT ![n] = NoJob, ![m] = [NoJob EXCEPT !.at = "serve"]]
               /\ cur' = m
               /\ conf' = [conf EXCEPT !.tls = job[n].tls]
    <3> PICK m \in Unused :
               /\ server' = [server EXCEPT ![m] = [down |-> FALSE, tls |-> job[n].tls]]
               /\ socket' = [socket EXCEPT ![m] = [addr |-> job[n].addr, served |-> FALSE]]
               /\ job' = [job EXCEPT ![n] = NoJob, ![m] = [NoJob EXCEPT !.at = "serve"]]
               /\ cur' = m
               /\ conf' = [conf EXCEPT !.tls = job[n].tls]
      BY <2>3
    <3>1. server' \in [Servers -> Rec]
      BY <1>t, <1>j, Records
    <3>2. [addr |-> job[n].addr, served |-> FALSE] \in Sock
      BY <1>j DEF Sock
    <3>3. socket' \in [Servers -> Sock]
      BY <1>t, <3>2
    <3>4. job' \in [Servers -> Jobs]
      BY <1>t, Records
    <3>5. conf' \in [addr : Addresses, tls : Tls]
      BY <1>t, <1>j
    <3> QED
      BY <1>0, <1>t, <2>1, <3>1, <3>3, <3>4, <3>5, TypeIsNext
  <2> QED
    BY <1>9, <2>2, <2>3 DEF JobRestores
<1>10. ASSUME NEW a \in Addresses, Taken(a) \/ Released(a) \/ Collected(a) PROVE LTypeOK'
  <2>1. /\ UNCHANGED <<cur, conf, server, socket, job, closing, halted>>
        /\ leaked' \subseteq leaked /\ taken' \subseteq taken \cup {a}
        /\ spoilt' \subseteq spoilt \cup {"taken"}
    BY <1>10 DEF Taken, Released, Collected
  <2> QED
    BY <1>t, <2>1, TypeIsNext
<1>11. CASE UNCHANGED lvars
  BY <1>t, <1>11, TypeIsNext DEF lvars
<1> QED
  BY <1>1, <1>2, <1>4, <1>5, <1>6, <1>7, <1>8, <1>9, <1>10, <1>11, <1>12 DEF LNext, Job

----------------------------------------------------------------------------
(* An undisturbed listener stays ordinary. *)

LEMMA OrdinaryIs ==
  ASSUME LTypeOK, Ordinary
  PROVE  /\ cur \in Servers /\ conf.addr \in Addresses /\ conf.tls \in Tls
         /\ conf = [addr |-> conf.addr, tls |-> conf.tls]
         /\ server \in [Servers -> Rec] /\ socket \in [Servers -> Sock] /\ job \in [Servers -> Jobs]
         /\ conf.addr # NoAddr /\ \A s \in Servers : s # NoServer
         /\ cur \notin closing /\ closing \subseteq Servers
         /\ ~server[cur].down /\ server[cur].tls = conf.tls
         /\ \A s \in Servers \ {cur} :
              /\ job[s] = NoJob
              /\ socket[s].served \/ socket[s] = Closed
              /\ s \notin closing /\ job[cur].old # s => socket[s] = Closed
         /\ conf.addr \in taken \cup leaked => spoilt # {}
BY TypeIs, ListenerAssumption DEF Ordinary

LEMMA CurOnly ==
  ASSUME LTypeOK, Ordinary, NEW n \in Servers, job[n].at # "none"
  PROVE  n = cur
BY OrdinaryIs DEF NoJob

\* Where the job of the current server is, and what its socket is then.
LEMMA AtCloses ==
  ASSUME Ordinary, job[cur].at = "close"
  PROVE  /\ closing = {} /\ job[cur].addr = conf.addr /\ socket[cur] = Closed
         /\ job[cur].old \in Servers \ {cur}
         /\ socket[job[cur].old] = Held(conf.addr) \/ socket[job[cur].old] = Closed
BY DEF Ordinary, Bringing

LEMMA AtListens ==
  ASSUME Ordinary, job[cur].at \in {"listen", "restore"}
  PROVE  /\ closing = {} /\ job[cur].addr = conf.addr /\ socket[cur] = Closed
         /\ job[cur].old = NoServer
         /\ job[cur].at = "restore" => spoilt # {}
BY DEF Ordinary, Bringing

LEMMA AtServes ==
  ASSUME Ordinary, job[cur].at = "serve"
  PROVE  /\ job[cur] = [NoJob EXCEPT !.at = "serve"]
         /\ socket[cur] = [addr |-> conf.addr, served |-> FALSE]
BY DEF Ordinary, Bringing

LEMMA AtRest ==
  ASSUME Ordinary, job[cur].at = "none"
  PROVE  /\ job[cur] = NoJob
         /\ socket[cur] = Held(conf.addr) \/ (spoilt # {} /\ socket[cur] = Closed)
BY DEF Ordinary, Bringing

LEMMA JobFields ==
  /\ NoJob.at = "none" /\ NoJob.old = NoServer /\ NoJob.addr = NoAddr
  /\ [NoJob EXCEPT !.at = "serve"].at = "serve" /\ [NoJob EXCEPT !.at = "serve"].old = NoServer
  /\ Closed.addr = NoAddr /\ ~Closed.served
  /\ \A a : Held(a).served /\ Held(a).addr = a
BY DEF NoJob, Closed, Held

LEMMA InitOrdinary == LInit => Ordinary
<1> SUFFICES ASSUME LInit PROVE Ordinary
  OBVIOUS
<1>1. /\ cur \in Servers /\ closing = {} /\ leaked = {} /\ taken = {}
      /\ job = [s \in Servers |-> NoJob]
      /\ server[cur] = [down |-> FALSE, tls |-> conf.tls]
      /\ socket[cur] = Held(conf.addr)
      /\ \A s \in Servers \ {cur} : socket[s] = Closed
  BY DEF LInit, Held
<1>2. job[cur] = NoJob /\ \A s \in Servers \ {cur} : job[s] = NoJob
  BY <1>1
<1>3. Bringing(cur)
  BY <1>1, <1>2, JobFields DEF Bringing
<1> QED
  BY <1>1, <1>2, <1>3 DEF Ordinary

LEMMA RebindTlsOrdinary ==
  ASSUME LTypeOK, Ordinary, Undisturbed', RebindTls
  PROVE  Ordinary'
<1>0. Quiet /\ spoilt' = spoilt
  BY DEF RebindTls, Spoil, Undisturbed
<1>1. PICK n \in Unused, c \in Tls \ {conf.tls} :
         /\ server' = [server EXCEPT ![n] = [down |-> FALSE, tls |-> c]]
         /\ job' = [job EXCEPT ![n] =
               [at |-> "close", addr |-> conf.addr, old |-> cur, tls |-> conf.tls]]
         /\ cur' = n
         /\ conf' = [conf EXCEPT !.tls = c]
  BY DEF RebindTls
<1>2. UNCHANGED <<socket, closing, leaked, taken, halted>>
  BY DEF RebindTls
<1>3. n \in Servers /\ n # cur /\ socket[n] = Closed
  BY DEF Unused
<1>4. closing = {} /\ job[cur] = NoJob /\ \A s \in Servers : job[s] = NoJob
  BY <1>0, OrdinaryIs DEF Quiet
<1>5. conf'.addr = conf.addr /\ conf'.tls = c
  BY <1>1, OrdinaryIs
<1>6. /\ job'[n] = [at |-> "close", addr |-> conf.addr, old |-> cur, tls |-> conf.tls]
      /\ server'[n] = [down |-> FALSE, tls |-> c]
      /\ \A s \in Servers \ {n} : job'[s] = NoJob
  BY <1>1, <1>3, <1>4, OrdinaryIs
<1>7. job'[n].at = "close" /\ job'[n].addr = conf.addr /\ job'[n].old = cur
  BY <1>6
<1>8. socket[cur] = Held(conf.addr) \/ (spoilt # {} /\ socket[cur] = Closed)
  BY <1>4, AtRest, JobFields
<1>9. Bringing(cur)'
  BY <1>0, <1>1, <1>2, <1>3, <1>4, <1>5, <1>7, <1>8, OrdinaryIs DEF Bringing, Held
<1>10. ASSUME NEW s \in Servers \ {n}
       PROVE  /\ socket'[s].served \/ socket'[s] = Closed
              /\ s \notin closing' /\ job'[n].old # s => socket'[s] = Closed
  BY <1>2, <1>4, <1>7, <1>8, OrdinaryIs, JobFields
<1> QED
  BY <1>0, <1>1, <1>2, <1>4, <1>5, <1>6, <1>9, <1>10, OrdinaryIs DEF Ordinary

LEMMA MoveOrdinary ==
  ASSUME LTypeOK, Ordinary, Undisturbed', Move
  PROVE  Ordinary'
<1>1. PICK n \in Unused, a \in Addresses, c \in Tls :
         /\ CanBind(a)
         /\ server' = [server EXCEPT ![n] = [down |-> FALSE, tls |-> c]]
         /\ IF c = Plain
            THEN /\ socket' = [socket EXCEPT ![n] = [addr |-> a, served |-> FALSE]]
                 /\ job' = [job EXCEPT ![n] = [NoJob EXCEPT !.at = "serve"]]
                 /\ leaked' = leaked
                 /\ Spoil({})
            ELSE /\ leaked' = leaked \cup {a}
                 /\ UNCHANGED <<socket, job>>
                 /\ Spoil({"tls move"})
         /\ closing' = closing \cup {cur}
         /\ cur' = n
         /\ conf' = [addr |-> a, tls |-> c]
  BY DEF Move
<1>0. Quiet /\ spoilt' = spoilt /\ c = Plain
  <2>1. spoilt' \subseteq {"taken", "files"}
    BY DEF Undisturbed
  <2>2. c = Plain
    <3> SUFFICES ASSUME c # Plain PROVE FALSE
      OBVIOUS
    <3>1. "tls move" \in spoilt'
      BY <1>1 DEF Spoil
    <3> QED
      BY <2>1, <3>1
  <2>3. spoilt' = spoilt \cup (IF Quiet THEN {} ELSE {"overlap"})
    BY <1>1, <2>2 DEF Spoil
  <2> QED
    BY <2>1, <2>2, <2>3
<1>2. /\ UNCHANGED <<taken, halted>> /\ leaked' = leaked
      /\ socket' = [socket EXCEPT ![n] = [addr |-> a, served |-> FALSE]]
      /\ job' = [job EXCEPT ![n] = [NoJob EXCEPT !.at = "serve"]]
      /\ conf'.addr = a /\ conf'.tls = c
  BY <1>0, <1>1 DEF Move
<1>3. n \in Servers /\ n # cur /\ socket[n] = Closed
  BY DEF Unused
<1>4. closing' = {cur} /\ job[cur] = NoJob /\ \A s \in Servers : job[s] = NoJob
  BY <1>0, <1>1, OrdinaryIs DEF Quiet
<1>5. closing = {}
  BY <1>0 DEF Quiet
<1>6. /\ job'[n] = [NoJob EXCEPT !.at = "serve"]
      /\ server'[n] = [down |-> FALSE, tls |-> c]
      /\ socket'[n] = [addr |-> a, served |-> FALSE]
      /\ \A s \in Servers \ {n} : job'[s] = NoJob /\ socket'[s] = socket[s]
  BY <1>1, <1>2, <1>3, <1>4, OrdinaryIs
<1>7. Bringing(cur)'
  BY <1>1, <1>2, <1>6, JobFields DEF Bringing
<1>8. ASSUME NEW s \in Servers \ {n}
      PROVE  /\ socket'[s].served \/ socket'[s] = Closed
             /\ s \notin closing' /\ job'[n].old # s => socket'[s] = Closed
  <2>1. CASE s = cur
    BY <1>4, <1>6, <2>1, AtRest, JobFields
  <2>2. CASE s # cur
    BY <1>4, <1>5, <1>6, <2>2, OrdinaryIs, JobFields
  <2> QED
    BY <2>1, <2>2
<1>9. a \notin taken' \cup leaked'
  BY <1>1, <1>2 DEF CanBind, Bound
<1> QED
  BY <1>0, <1>1, <1>2, <1>3, <1>4, <1>6, <1>7, <1>8, <1>9, OrdinaryIs DEF Ordinary

LEMMA ShutDownIs ==
  ASSUME LTypeOK, NEW s \in Servers, ShutDown(s)
  PROVE  /\ \A t \in Servers \ {s} : server'[t] = server[t] /\ socket'[t] = socket[t]
         /\ socket[s].served => socket'[s] = Closed
         /\ ~socket[s].served => socket'[s] = socket[s]
BY TypeIs DEF ShutDown

LEMMA CloseOldOrdinary ==
  ASSUME LTypeOK, Ordinary, Undisturbed', NEW n \in Servers, CloseOld(n)
  PROVE  Ordinary'
<1>1. /\ n \in closing /\ closing' = closing \ {n}
      /\ UNCHANGED <<cur, conf, job, leaked, taken, spoilt>>
  BY DEF CloseOld
<1>2. /\ \A t \in Servers \ {n} : server'[t] = server[t] /\ socket'[t] = socket[t]
      /\ socket[n].served => socket'[n] = Closed
      /\ ~socket[n].served => socket'[n] = socket[n]
  BY ShutDownIs DEF CloseOld
<1>3. n # cur
  BY <1>1, OrdinaryIs
<1>4. socket'[n] = Closed
  BY <1>2, <1>3, OrdinaryIs
<1>5. job[cur].at \notin {"close", "listen", "restore"}
  BY <1>1, AtCloses, AtListens
<1>6. server'[cur] = server[cur] /\ socket'[cur] = socket[cur]
  BY <1>2, <1>3, OrdinaryIs
<1>7. Bringing(cur)'
  BY <1>1, <1>5, <1>6, AtRest, AtServes DEF Bringing
<1>8. ASSUME NEW s \in Servers \ {cur}
      PROVE  /\ socket'[s].served \/ socket'[s] = Closed
             /\ s \notin closing' /\ job'[cur].old # s => socket'[s] = Closed
  BY <1>1, <1>2, <1>4, OrdinaryIs
<1> QED
  BY <1>1, <1>6, <1>7, <1>8, OrdinaryIs DEF Ordinary

LEMMA JobClosesOrdinary ==
  ASSUME LTypeOK, Ordinary, Undisturbed', NEW n \in Servers, JobCloses(n)
  PROVE  Ordinary'
<1>1. n = cur /\ job[cur].at = "close"
  BY CurOnly DEF JobCloses
<1>2. /\ closing = {} /\ job[cur].addr = conf.addr /\ socket[cur] = Closed
      /\ job[cur].old \in Servers \ {cur}
  BY <1>1, AtCloses
<1> DEFINE o == job[n].old
<1>3. /\ UNCHANGED <<cur, conf, closing, leaked, taken, halted, spoilt>>
      /\ job' = [job EXCEPT ![n].at = "listen", ![n].old = NoServer]
  BY DEF JobCloses
<1>4. /\ \A t \in Servers \ {o} : server'[t] = server[t] /\ socket'[t] = socket[t]
      /\ socket[o].served => socket'[o] = Closed
      /\ ~socket[o].served => socket'[o] = socket[o]
  BY <1>1, <1>2, ShutDownIs DEF JobCloses
<1>5. socket'[o] = Closed
  BY <1>1, <1>2, <1>4, OrdinaryIs
<1>6. /\ job'[cur].at = "listen" /\ job'[cur].old = NoServer /\ job'[cur].addr = job[cur].addr
      /\ \A s \in Servers \ {cur} : job'[s] = NoJob
  BY <1>1, <1>3, OrdinaryIs DEF Jobs
<1>7. server'[cur] = server[cur] /\ socket'[cur] = Closed
  BY <1>1, <1>2, <1>4, OrdinaryIs
<1>8. Bringing(cur)'
  BY <1>2, <1>3, <1>6, <1>7 DEF Bringing
<1>9. \A s \in Servers \ {cur} : socket'[s] = Closed
  BY <1>1, <1>2, <1>4, <1>5, OrdinaryIs
<1> HIDE DEF o
<1> QED
  BY <1>2, <1>3, <1>6, <1>7, <1>8, <1>9, OrdinaryIs DEF Ordinary

LEMMA JobListensOrdinary ==
  ASSUME LTypeOK, Ordinary, Undisturbed', NEW n \in Servers, JobListens(n)
  PROVE  Ordinary'
<1>1. n = cur /\ job[cur].at = "listen"
  BY CurOnly DEF JobListens
<1>2. /\ closing = {} /\ job[cur].addr = conf.addr /\ socket[cur] = Closed
      /\ job[cur].old = NoServer
  BY <1>1, AtListens
<1>3. /\ UNCHANGED <<cur, conf, server, closing, leaked, taken, halted, spoilt>>
      /\ \/ /\ CanBind(conf.addr)
            /\ socket' = [socket EXCEPT ![cur] = [addr |-> conf.addr, served |-> FALSE]]
            /\ job' = [job EXCEPT ![cur] = [NoJob EXCEPT !.at = "serve"]]
         \/ /\ ~CanBind(conf.addr)
            /\ job' = [job EXCEPT ![cur].at = "restore"]
            /\ socket' = socket
  BY <1>1, <1>2 DEF JobListens
<1>4. \A s \in Servers : socket[s] = Closed
  BY <1>2, OrdinaryIs
<1>5. \A s \in Servers \ {cur} : job'[s] = NoJob /\ socket'[s] = Closed
  BY <1>3, <1>4, OrdinaryIs
<1>6. Bringing(cur)'
  <2>1. CASE CanBind(conf.addr)
    <3>1. /\ job'[cur] = [NoJob EXCEPT !.at = "serve"]
          /\ socket'[cur] = [addr |-> conf.addr, served |-> FALSE]
      BY <1>3, <2>1, OrdinaryIs
    <3> QED
      BY <1>3, <3>1, JobFields DEF Bringing
  <2>2. CASE ~CanBind(conf.addr)
    <3>1. /\ job'[cur].at = "restore" /\ job'[cur].old = NoServer /\ job'[cur].addr = conf.addr
          /\ socket'[cur] = Closed
      BY <1>2, <1>3, <2>2, OrdinaryIs DEF Jobs
    <3>2. conf.addr \in taken \cup leaked
      BY <1>4, <2>2, OrdinaryIs, JobFields DEF CanBind, Bound
    <3>3. spoilt # {}
      BY <3>2, OrdinaryIs
    <3> QED
      BY <1>2, <1>3, <3>1, <3>3 DEF Bringing
  <2> QED
    BY <2>1, <2>2
<1> QED
  BY <1>2, <1>3, <1>5, <1>6, OrdinaryIs DEF Ordinary

LEMMA JobServesOrdinary ==
  ASSUME LTypeOK, Ordinary, Undisturbed', NEW n \in Servers, JobServes(n)
  PROVE  Ordinary'
<1>1. n = cur /\ job[cur].at = "serve"
  BY CurOnly DEF JobServes
<1>2. /\ socket[cur] = [addr |-> conf.addr, served |-> FALSE] /\ job[cur].old = NoServer
  BY <1>1, AtServes, JobFields
<1>3. /\ UNCHANGED <<cur, conf, server, closing, leaked, taken, halted, spoilt>>
      /\ socket' = [socket EXCEPT ![cur] = [@ EXCEPT !.served = TRUE]]
      /\ job' = [job EXCEPT ![cur] = NoJob]
  BY <1>1, OrdinaryIs DEF JobServes
<1>4. socket'[cur] = Held(conf.addr) /\ job'[cur] = NoJob
  <2>1. socket'[cur] = [socket[cur] EXCEPT !.served = TRUE] /\ job'[cur] = NoJob
    BY <1>3, OrdinaryIs
  <2>2. socket'[cur] \in Sock
    <3>1. socket[cur] \in Sock
      BY OrdinaryIs
    <3> QED
      BY <2>1, <3>1, Records
  <2>3. socket'[cur].addr = conf.addr /\ socket'[cur].served = TRUE
    BY <1>2, <2>1, OrdinaryIs DEF Sock
  <2> QED
    BY <2>1, <2>2, <2>3 DEF Sock, Held
<1>5. \A s \in Servers \ {cur} : job'[s] = NoJob /\ socket'[s] = socket[s]
  BY <1>3, OrdinaryIs
<1>6. Bringing(cur)'
  BY <1>3, <1>4, JobFields DEF Bringing, Held
<1>7. ASSUME NEW s \in Servers \ {cur}
      PROVE  /\ socket'[s].served \/ socket'[s] = Closed
             /\ s \notin closing' /\ job'[cur].old # s => socket'[s] = Closed
  BY <1>2, <1>3, <1>5, OrdinaryIs
<1> QED
  BY <1>3, <1>4, <1>5, <1>6, <1>7, OrdinaryIs DEF Ordinary

LEMMA JobFailsOrdinary ==
  ASSUME LTypeOK, Ordinary, Undisturbed', NEW n \in Servers, JobFails(n)
  PROVE  Ordinary'
<1>1. n = cur /\ job[cur].at = "serve"
  BY CurOnly DEF JobFails
<1>2. job[cur].old = NoServer
  BY <1>1, AtServes, JobFields
<1>3. /\ UNCHANGED <<cur, conf, server, closing, taken, halted>> /\ spoilt' # {}
      /\ socket' = [socket EXCEPT ![cur] = Closed]
      /\ job' = [job EXCEPT ![cur] = NoJob]
  BY <1>1 DEF JobFails
<1>4. socket'[cur] = Closed /\ job'[cur] = NoJob
  BY <1>3, OrdinaryIs
<1>5. \A s \in Servers \ {cur} : job'[s] = NoJob /\ socket'[s] = socket[s]
  BY <1>3, OrdinaryIs
<1>6. Bringing(cur)'
  BY <1>3, <1>4, JobFields DEF Bringing
<1>7. ASSUME NEW s \in Servers \ {cur}
      PROVE  /\ socket'[s].served \/ socket'[s] = Closed
             /\ s \notin closing' /\ job'[cur].old # s => socket'[s] = Closed
  BY <1>2, <1>3, <1>5, OrdinaryIs
<1> QED
  BY <1>3, <1>4, <1>5, <1>6, <1>7, OrdinaryIs DEF Ordinary

LEMMA JobRestoresOrdinary ==
  ASSUME LTypeOK, Ordinary, Undisturbed', NEW n \in Servers, JobRestores(n)
  PROVE  Ordinary'
<1>1. n = cur /\ job[cur].at = "restore"
  BY CurOnly DEF JobRestores
<1>2. /\ closing = {} /\ job[cur].addr = conf.addr /\ socket[cur] = Closed
      /\ job[cur].old = NoServer /\ spoilt # {}
  BY <1>1, AtListens
<1>3. UNCHANGED <<closing, leaked, taken, halted, spoilt>>
  BY DEF JobRestores
<1>4. \A s \in Servers : socket[s] = Closed
  BY <1>2, OrdinaryIs
<1>5. CASE job' = [job EXCEPT ![n] = NoJob] /\ UNCHANGED <<cur, conf, server, socket>>
  <2>1. \A s \in Servers : job'[s] = NoJob
    BY <1>1, <1>5, OrdinaryIs
  <2>2. Bringing(cur)'
    BY <1>2, <1>3, <1>5, <2>1, OrdinaryIs, JobFields DEF Bringing
  <2> QED
    BY <1>2, <1>3, <1>4, <1>5, <2>1, <2>2, OrdinaryIs DEF Ordinary
<1>6. CASE \E m \in Unused :
               /\ server' = [server EXCEPT ![m] = [down |-> FALSE, tls |-> job[n].tls]]
               /\ socket' = [socket EXCEPT ![m] = [addr |-> job[n].addr, served |-> FALSE]]
               /\ job' = [job EXCEPT ![n] = NoJob, ![m] = [NoJob EXCEPT !.at = "serve"]]
               /\ cur' = m
               /\ conf' = [conf EXCEPT !.tls = job[n].tls]
  <2> PICK m \in Unused :
               /\ server' = [server EXCEPT ![m] = [down |-> FALSE, tls |-> job[n].tls]]
               /\ socket' = [socket EXCEPT ![m] = [addr |-> job[n].addr, served |-> FALSE]]
               /\ job' = [job EXCEPT ![n] = NoJob, ![m] = [NoJob EXCEPT !.at = "serve"]]
               /\ cur' = m
               /\ conf' = [conf EXCEPT !.tls = job[n].tls]
    BY <1>6
  <2>1. m \in Servers /\ m # cur
    BY DEF Unused
  <2>2. conf'.addr = conf.addr /\ conf'.tls = job[n].tls
    BY OrdinaryIs
  <2>3. /\ server'[m] = [down |-> FALSE, tls |-> job[n].tls]
        /\ socket'[m] = [addr |-> conf.addr, served |-> FALSE]
        /\ job'[m] = [NoJob EXCEPT !.at = "serve"]
    BY <1>1, <1>2, <2>1, OrdinaryIs
  <2>4. \A s \in Servers \ {m} : job'[s] = NoJob /\ socket'[s] = Closed
    BY <1>1, <1>4, <2>1, OrdinaryIs
  <2>5. Bringing(cur)'
    BY <2>2, <2>3, JobFields DEF Bringing
  <2>6. server'[m].down = FALSE /\ server'[m].tls = conf'.tls
    BY <2>2, <2>3
  <2> QED
    BY <1>2, <1>3, <2>2, <2>4, <2>5, <2>6, OrdinaryIs DEF Ordinary
<1> QED
  BY <1>5, <1>6 DEF JobRestores

LEMMA TakenOrdinary ==
  ASSUME LTypeOK, Ordinary, Undisturbed', NEW a \in Addresses, Taken(a)
  PROVE  Ordinary'
<1>1. /\ UNCHANGED <<cur, conf, server, socket, job, closing, leaked, halted>>
      /\ taken' = taken \cup {a} /\ CanBind(a) /\ spoilt \subseteq spoilt'
      /\ (\E n \in Servers : job[n].addr = a) => spoilt' # {}
  BY DEF Taken
<1>2. socket[cur].addr # a
  BY <1>1, OrdinaryIs DEF CanBind, Bound
<1>3. conf.addr = a => spoilt' # {}
  <2> HAVE conf.addr = a
  <2>0. job[cur].at \in {"none", "close", "listen", "serve", "restore"}
    BY OrdinaryIs DEF Jobs
  <2>1. CASE job[cur].at = "none"
    BY <1>1, <1>2, <2>1, AtRest, JobFields
  <2>2. CASE job[cur].at = "serve"
    BY <1>2, <2>2, AtServes
  <2>3. CASE job[cur].at \in {"close", "listen", "restore"}
    BY <1>1, <2>3, AtCloses, AtListens, OrdinaryIs
  <2> QED
    BY <2>0, <2>1, <2>2, <2>3
<1>4. conf.addr \in taken' \cup leaked' => spoilt' # {}
  BY <1>1, <1>3, OrdinaryIs
<1>5. Bringing(cur)'
  BY <1>1 DEF Ordinary, Bringing
<1> QED
  BY <1>1, <1>4, <1>5, OrdinaryIs DEF Ordinary

LEMMA OthersOrdinary ==
  ASSUME LTypeOK, Ordinary, Undisturbed', NEW a \in Addresses, Released(a) \/ Collected(a)
  PROVE  Ordinary'
<1>1. /\ UNCHANGED <<cur, conf, server, socket, job, closing, halted, spoilt>>
      /\ taken' \subseteq taken /\ leaked' \subseteq leaked
  BY DEF Released, Collected
<1>2. Bringing(cur)'
  BY <1>1 DEF Ordinary, Bringing
<1> QED
  BY <1>1, <1>2, OrdinaryIs DEF Ordinary

\* What disturbed the rebinds is never forgotten.
LEMMA StaysDisturbed == [LNext]_lvars /\ Undisturbed' => Undisturbed
<1> SUFFICES ASSUME [LNext]_lvars, Undisturbed' PROVE Undisturbed
  OBVIOUS
<1>1. ASSUME NEW n \in Servers, Job(n) \/ CloseOld(n)
      PROVE  halted' = halted /\ spoilt \subseteq spoilt'
  BY <1>1 DEF Job, JobCloses, JobListens, JobServes, JobFails, JobRestores, CloseOld
<1>2. ASSUME NEW a \in Addresses, Taken(a) \/ Released(a) \/ Collected(a)
      PROVE  halted' = halted /\ spoilt \subseteq spoilt'
  BY <1>2 DEF Taken, Released, Collected
<1>3. CASE RebindTls \/ Move
  BY <1>3 DEF RebindTls, Move, Spoil, Undisturbed
<1>4. CASE Halt
  BY <1>4 DEF Halt, Undisturbed
<1>5. CASE UNCHANGED lvars
  BY <1>5 DEF lvars, Undisturbed
<1> QED
  BY <1>1, <1>2, <1>3, <1>4, <1>5 DEF LNext, Undisturbed

LEMMA LInvNext == LInv /\ [LNext]_lvars => LInv'
<1> SUFFICES ASSUME LInv, [LNext]_lvars PROVE LInv'
  OBVIOUS
<1>1. LTypeOK /\ LTypeOK'
  BY LTypes DEF LInv
<1>2. ASSUME Undisturbed' PROVE Ordinary'
  <2>1. Ordinary
    BY <1>2, StaysDisturbed DEF LInv
  <2>2. CASE UNCHANGED lvars
    BY <2>1, <2>2 DEF lvars, Ordinary, Bringing
  <2>3. ~Halt
    BY <1>2 DEF Halt, Undisturbed
  <2> QED
    BY <1>1, <1>2, <2>1, <2>2, <2>3, RebindTlsOrdinary, MoveOrdinary, CloseOldOrdinary,
       JobClosesOrdinary, JobListensOrdinary, JobServesOrdinary, JobFailsOrdinary,
       JobRestoresOrdinary, TakenOrdinary, OthersOrdinary DEF LNext, Job
<1> QED
  BY <1>1, <1>2 DEF LInv

LEMMA InitTypes == LInit => LTypeOK
<1> SUFFICES ASSUME LInit PROVE LTypeOK
  OBVIOUS
<1>1. server \in [Servers -> Rec]
  BY DEF LInit, Rec, Tls
<1>2. socket \in [Servers -> Sock] /\ job \in [Servers -> Jobs]
  BY Records DEF LInit
<1> QED
  BY <1>1, <1>2, TypeIs DEF LInit

\* Every reachable state of the listener is well typed, and ordinary unless
\* rebinds overlapped, one was a move over HTTPS, or the process halts.
THEOREM ListenerInvariant == LSpec => []LInv
<1>1. LInit => LInv
  BY InitTypes, InitOrdinary DEF LInv
<1> QED
  BY <1>1, LInvNext, PTL DEF LSpec

\* However many rebinds follow each other, after each of them the current server,
\* and only it, serves where and with the certificate the rebinder believes.
THEOREM ServesOnce == LSpec => []QuietServesOnce
<1>1. ASSUME LInv PROVE QuietServesOnce
  <2> SUFFICES ASSUME Quiet, spoilt \subseteq {"taken", "files"}, ~halted
               PROVE  /\ Serves(cur) \/ (spoilt # {} /\ socket[cur] = Closed)
                      /\ \A s \in Servers \ {cur} : socket[s] = Closed
    BY DEF QuietServesOnce
  <2>1. LTypeOK /\ Ordinary
    BY <1>1 DEF LInv, Undisturbed
  <2>2. job[cur] = NoJob /\ closing = {}
    BY <2>1, OrdinaryIs DEF Quiet
  <2>3. Serves(cur) \/ (spoilt # {} /\ socket[cur] = Closed)
    BY <2>1, <2>2, AtRest, OrdinaryIs, JobFields DEF Serves, Held
  <2> QED
    BY <2>1, <2>2, <2>3, OrdinaryIs, JobFields
<1> QED
  BY <1>1, ListenerInvariant, PTL

\* Through any number of moves to other addresses there is always a listener whose
\* connections are, or will be, served.
THEOREM NoGap == LSpec => []NoDowntime
<1>1. ASSUME LInv PROVE NoDowntime
  <2> SUFFICES ASSUME spoilt = {}, ~halted, \A n \in Servers : job[n].at \in {"none", "serve"}
               PROVE  \E s \in Servers : socket[s] # Closed /\ ~server[s].down
    BY DEF NoDowntime
  <2>1. LTypeOK /\ Ordinary
    BY <1>1 DEF LInv, Undisturbed
  <2>2. socket[cur].addr = conf.addr
    BY <2>1, AtRest, AtServes, OrdinaryIs, JobFields
  <2> QED
    BY <2>1, <2>2, OrdinaryIs, JobFields
<1> QED
  BY <1>1, ListenerInvariant, PTL
=============================================================================
