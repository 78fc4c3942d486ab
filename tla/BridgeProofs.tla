---------------------------- MODULE BridgeProofs ----------------------------
(***************************************************************************)
(* Proofs about the fan-out between instances, for every set of instances  *)
(* and emitters, any capacities, any number of retries and any number of   *)
(* lost answers and broken connections.                                    *)
(*                                                                         *)
(* An event passes through its instance's pub, the publisher's call, an    *)
(* instance's wire and broadcast, and what the listener has seen.  Each    *)
(* queue may lose any of its events, and copies whose answer was lost wait *)
(* beside the way and may join the wire at any time.  Up to such copies,   *)
(* the numbers of one emitter's events rise within each queue, and those   *)
(* further on are smaller than those behind.  The two halves of emit       *)
(* interleave with this, so it is also kept that nothing has overtaken an  *)
(* event whose second half is still to come.                               *)
(***************************************************************************)
EXTENDS RealtimeBridge, TLAPS

\* The numbers of emitter e's events in a queue.
Numbers(q, e) == {q[k].n : k \in {x \in 1 .. Len(q) : q[x].from = e}}

\* In order, but for what is excused to come late or twice.
Before(A, B, excused) == \A a \in A, b \in B : a < b \/ b \in excused
Rising(q, e, excused) ==
    \A j, k \in 1 .. Len(q) :
        j < k /\ q[j].from = e /\ q[k].from = e => q[j].n < q[k].n \/ q[k].n \in excused

Got(i, e) == Numbers(seen[i], e)
Queued(i, e) == Numbers(broadcast[i], e)
Coming(i, e) == Numbers(wire[i], e)
Leaving(e) == Numbers(pub[Home[e]], e)
Sending(e) ==
    {c.event.n : c \in {x \in sending[Home[e]] : x.event.from = e}}
Late(e) == {c.event.n : c \in {x \in late : x.event.from = e}}

\* What was sent again, and where that shows: not at home.
Lost(e) == {ev.n : ev \in {x \in resent : x.from = e}}
Loose(i, e) == IF i = Home[e] THEN {} ELSE Lost(e)

Everywhere(i, e) ==
    Got(i, e) \cup Queued(i, e) \cup Late(e) \cup Coming(i, e) \cup Sending(e) \cup Leaving(e)

\* On the way through the bridge, or arrived by it.
Abroad(i, e) ==
    Late(e) \cup Coming(i, e) \cup Sending(e) \cup Leaving(e)
    \cup (IF i = Home[e] THEN {} ELSE Got(i, e) \cup Queued(i, e))

AllRise(i, e) ==
    /\ Rising(seen[i], e, Loose(i, e)) /\ Rising(broadcast[i], e, Loose(i, e))
    /\ Rising(wire[i], e, Lost(e)) /\ Rising(pub[Home[e]], e, {})

InOrder(i, e) ==
    /\ Before(Got(i, e), Queued(i, e), Loose(i, e))
    /\ Before(Late(e) \cup Coming(i, e), Sending(e) \cup Leaving(e), Lost(e))
    /\ Before(Sending(e), Leaving(e), {})
    /\ i # Home[e] => Before(Got(i, e) \cup Queued(i, e),
                             Coming(i, e) \cup Sending(e) \cup Leaving(e), Lost(e))

Emits(i, e) ==
    /\ Everywhere(i, e) \subseteq 1 .. emitted[e]
    /\ e \in publishing => emitted[e] \notin Abroad(i, e)

\* An instance publishes what its own emitters emit.
OwnOnly ==
    \A i \in Nodes :
        /\ \A e \in Emitters : Home[e] # i => Numbers(pub[i], e) = {}
        /\ \A c \in sending[i] : Home[c.event.from] = i

BridgeTypes ==
    /\ emitted \in [Emitters -> Nat]
    /\ publishing \subseteq Emitters
    /\ \A e \in publishing : emitted[e] # 0
    /\ broadcast \in [Nodes -> Seq(Event)]
    /\ pub \in [Nodes -> Seq(Event)]
    /\ sending \in [Nodes -> SUBSET Copy]
    /\ late \subseteq Copy /\ resent \subseteq Event
    /\ wire \in [Nodes -> Seq(Event)]
    /\ seen \in [Nodes -> Seq(Event)]

Travels(i, e) == AllRise(i, e) /\ InOrder(i, e) /\ Emits(i, e)

BridgeInv ==
    /\ BridgeTypes
    /\ OwnOnly
    /\ \A c \in late : c.event \in resent
    /\ \A i \in Nodes, e \in Emitters : Travels(i, e)

-----------------------------------------------------------------------------
(* Queues.                                                                 *)

LEMMA EmptyQueue ==
    ASSUME NEW e, NEW excused PROVE Numbers(<<>>, e) = {} /\ Rising(<<>>, e, excused)
BY DEF Numbers, Rising

\* What a queue gains by an event.
LEMMA QueueGains ==
    ASSUME NEW q \in Seq(Event), NEW ev \in Event, NEW e, NEW excused
    PROVE  /\ Append(q, ev) \in Seq(Event)
           /\ \A n : n \in Numbers(Append(q, ev), e) <=> n \in Numbers(q, e) \/ (ev.from = e /\ n = ev.n)
           /\ Rising(q, e, excused) /\ (ev.from = e => Before(Numbers(q, e), {ev.n}, excused))
                => Rising(Append(q, ev), e, excused)
<1> DEFINE r == Append(q, ev)
<1>1. /\ r \in Seq(Event) /\ Len(r) = Len(q) + 1 /\ Len(q) \in Nat
      /\ \A k \in 1 .. Len(q) : r[k] = q[k]
      /\ r[Len(q) + 1] = ev
  OBVIOUS
<1>2. /\ \A k \in 1 .. Len(r) : k \in 1 .. Len(q) \/ k = Len(q) + 1
      /\ Len(q) + 1 \in 1 .. Len(r) /\ \A k \in 1 .. Len(q) : k \in 1 .. Len(r)
  BY <1>1
<1>3. \A j, k \in 1 .. Len(r) : j < k => j \in 1 .. Len(q)
  BY <1>1
<1> HIDE DEF r
<1>4. \A n : n \in Numbers(r, e) <=> n \in Numbers(q, e) \/ (ev.from = e /\ n = ev.n)
  BY <1>1, <1>2 DEF Numbers
<1>5. \A k \in 1 .. Len(q) : q[k].from = e => q[k].n \in Numbers(q, e)
  BY DEF Numbers
<1>6. ASSUME Rising(q, e, excused), ev.from = e => Before(Numbers(q, e), {ev.n}, excused)
      PROVE  Rising(r, e, excused)
  BY <1>1, <1>2, <1>3, <1>5, <1>6 DEF Rising, Before
<1> QED
  BY <1>1, <1>4, <1>6 DEF r

LEMMA GainsNumber ==
    ASSUME NEW q \in Seq(Event), NEW ev \in Event, NEW e, ev.from = e
    PROVE  Numbers(Append(q, ev), e) = Numbers(q, e) \cup {ev.n}
<1>1. \A n : n \in Numbers(Append(q, ev), e) <=> n \in Numbers(q, e) \/ n = ev.n
  BY QueueGains
<1> QED
  BY <1>1

LEMMA GainsOther ==
    ASSUME NEW q \in Seq(Event), NEW ev \in Event, NEW e, ev.from # e
    PROVE  /\ Numbers(Append(q, ev), e) = Numbers(q, e)
           /\ \A excused : Rising(q, e, excused) => Rising(Append(q, ev), e, excused)
<1>1. \A n : n \in Numbers(Append(q, ev), e) <=> n \in Numbers(q, e)
  BY QueueGains
<1>2. \A excused : Rising(q, e, excused) => Rising(Append(q, ev), e, excused)
  BY QueueGains
<1> QED
  BY <1>1, <1>2

\* What a queue loses at its head.
LEMMA QueueLoses ==
    ASSUME NEW q \in Seq(Event), q # <<>>, NEW e, NEW excused
    PROVE  /\ Head(q) \in Event /\ Tail(q) \in Seq(Event)
           /\ Numbers(Tail(q), e) \subseteq Numbers(q, e)
           /\ Head(q).from = e => Head(q).n \in Numbers(q, e)
           /\ Rising(q, e, excused) => Rising(Tail(q), e, excused)
           /\ Rising(q, e, excused) /\ Head(q).from = e =>
                Before({Head(q).n}, Numbers(Tail(q), e), excused)
<1> DEFINE r == Tail(q)
<1>1. /\ Len(q) \in Nat \ {0} /\ Head(q) = q[1] /\ Head(q) \in Event
      /\ r \in Seq(Event) /\ Len(r) = Len(q) - 1
      /\ \A k \in 1 .. Len(r) : r[k] = q[k + 1]
  OBVIOUS
<1>2. /\ 1 \in 1 .. Len(q)
      /\ \A k \in 1 .. Len(r) : k + 1 \in 1 .. Len(q) /\ 1 < k + 1
      /\ \A j, k \in 1 .. Len(r) : j < k => j + 1 < k + 1
  BY <1>1
<1> HIDE DEF r
<1>3. Numbers(r, e) \subseteq Numbers(q, e)
  BY <1>1, <1>2 DEF Numbers
<1>4. Head(q).from = e => Head(q).n \in Numbers(q, e)
  BY <1>1, <1>2 DEF Numbers
<1>5. Rising(q, e, excused) => Rising(r, e, excused)
  BY <1>1, <1>2 DEF Rising
<1>6. Rising(q, e, excused) /\ Head(q).from = e => Before({Head(q).n}, Numbers(r, e), excused)
  BY <1>1, <1>2 DEF Rising, Numbers, Before
<1> QED
  BY <1>1, <1>3, <1>4, <1>5, <1>6 DEF r

\* What more is excused changes nothing that holds.
LEMMA MoreExcused ==
    ASSUME NEW X, NEW Y, X \subseteq Y
    PROVE  /\ \A q, e : Rising(q, e, X) => Rising(q, e, Y)
           /\ \A A, B : Before(A, B, X) => Before(A, B, Y)
BY DEF Rising, Before

\* The instances' queues have the types the lemmas above ask for.
LEMMA Queues ==
    ASSUME BridgeInv, NEW i \in Nodes
    PROVE  /\ broadcast[i] \in Seq(Event) /\ pub[i] \in Seq(Event)
           /\ wire[i] \in Seq(Event) /\ seen[i] \in Seq(Event)
BY DEF BridgeInv, BridgeTypes

LEMMA Numbered ==
    ASSUME NEW ev \in Event
    PROVE  ev.from \in Emitters /\ ev.n \in Nat /\ ev.n # 0 /\ Home[ev.from] \in Nodes
BY BridgeSide DEF Event

\* The local queue, which drops what does not fit.
LEMMA QueuesEvent ==
    ASSUME BridgeInv, NEW i \in Nodes, NEW ev \in Event, Queue(i, ev)
    PROVE  /\ broadcast' \in [Nodes -> Seq(Event)]
           /\ \A j \in Nodes : j # i => broadcast'[j] = broadcast[j]
           /\ broadcast'[i] \in {broadcast[i], Append(broadcast[i], ev)}
<1>1. broadcast \in [Nodes -> Seq(Event)] /\ Append(broadcast[i], ev) \in Seq(Event)
  BY Queues DEF BridgeInv, BridgeTypes
<1> QED
  BY <1>1 DEF Queue

\* Steps that neither begin nor end a call to Redis.
LEMMA NoCallMoves ==
    ASSUME UNCHANGED <<sending, late, resent>>, NEW i, NEW e
    PROVE  /\ Sending(e)' = Sending(e) /\ Late(e)' = Late(e)
           /\ Lost(e)' = Lost(e) /\ Loose(i, e)' = Loose(i, e)
BY DEF Sending, Late, Lost, Loose

LEMMA InitBridge == BridgeInit => BridgeInv
<1> SUFFICES ASSUME BridgeInit
             PROVE  BridgeInv
  OBVIOUS
<1>1. BridgeTypes
  BY BridgeSide DEF BridgeInit, BridgeTypes
<1>2. OwnOnly
  BY EmptyQueue DEF BridgeInit, OwnOnly
<1>3. ASSUME NEW i \in Nodes, NEW e \in Emitters
      PROVE  Travels(i, e)
  <2>1. /\ seen[i] = <<>> /\ broadcast[i] = <<>> /\ wire[i] = <<>> /\ pub[Home[e]] = <<>>
        /\ sending[Home[e]] = {} /\ late = {} /\ e \notin publishing
    BY BridgeSide DEF BridgeInit
  <2>2. /\ Got(i, e) = {} /\ Queued(i, e) = {} /\ Coming(i, e) = {} /\ Leaving(e) = {}
        /\ Sending(e) = {} /\ Late(e) = {}
    BY <2>1, EmptyQueue DEF Got, Queued, Coming, Leaving, Sending, Late
  <2> QED
    BY <2>1, <2>2, EmptyQueue DEF Travels, AllRise, InOrder, Emits, Everywhere, Before
<1> QED
  BY <1>1, <1>2, <1>3 DEF BridgeInv, BridgeInit

-----------------------------------------------------------------------------
(* The two halves of emit.                                                 *)

LEMMA EmitKeeps ==
    ASSUME BridgeInv, NEW x \in Emitters, Emit(x)
    PROVE  BridgeInv'
<1> DEFINE ev == [from |-> x, n |-> emitted[x] + 1]
<1>1. /\ x \notin publishing
      /\ emitted' = [emitted EXCEPT ![x] = @ + 1]
      /\ publishing' = publishing \cup {x}
      /\ Queue(Home[x], ev)
      /\ UNCHANGED <<pub, sending, late, wire, seen, resent>>
  BY DEF Emit
<1>2. emitted[x] \in Nat
  BY DEF BridgeInv, BridgeTypes
<1>3. ev \in Event /\ ev.from = x /\ ev.n = emitted[x] + 1 /\ Home[x] \in Nodes
  BY <1>2, BridgeSide DEF Event
<1> HIDE DEF ev
<1>4. /\ broadcast' \in [Nodes -> Seq(Event)]
      /\ \A j \in Nodes : j # Home[x] => broadcast'[j] = broadcast[j]
      /\ broadcast'[Home[x]] \in {broadcast[Home[x]], Append(broadcast[Home[x]], ev)}
  BY <1>1, <1>3, QueuesEvent
<1>5. BridgeTypes'
  BY <1>1, <1>2, <1>4 DEF BridgeInv, BridgeTypes
<1>6. OwnOnly' /\ \A c \in late' : c.event \in resent'
  BY <1>1 DEF BridgeInv, OwnOnly
<1>7. ASSUME NEW i \in Nodes, NEW e \in Emitters
      PROVE  Travels(i, e)'
  <2>1. /\ Travels(i, e) /\ broadcast[i] \in Seq(Event)
        /\ Got(i, e)' = Got(i, e) /\ Coming(i, e)' = Coming(i, e) /\ Leaving(e)' = Leaving(e)
        /\ Sending(e)' = Sending(e) /\ Late(e)' = Late(e)
        /\ Lost(e)' = Lost(e) /\ Loose(i, e)' = Loose(i, e)
    BY <1>1, Queues, NoCallMoves DEF BridgeInv, Got, Coming, Leaving
  <2>2. CASE i # Home[x] /\ e # x
    <3>1. Queued(i, e)' = Queued(i, e) /\ broadcast'[i] = broadcast[i]
          /\ emitted'[e] = emitted[e] /\ (e \in publishing' <=> e \in publishing)
      BY <1>1, <1>4, <2>2 DEF Queued, BridgeInv, BridgeTypes
    <3> QED
      BY <1>1, <2>1, <3>1 DEF Travels, AllRise, InOrder, Emits, Everywhere, Abroad
  <2>3. CASE i # Home[x] /\ e = x
    <3>1. Queued(i, e)' = Queued(i, e) /\ broadcast'[i] = broadcast[i] /\ emitted'[e] = emitted[e] + 1
      BY <1>1, <1>4, <2>3 DEF Queued, BridgeInv, BridgeTypes
    <3>2. Abroad(i, e)' \subseteq 1 .. emitted[e] /\ Everywhere(i, e)' = Everywhere(i, e)
      BY <2>1, <3>1 DEF Abroad, Travels, Emits, Everywhere
    <3>3. Emits(i, e)'
      BY <1>2, <2>1, <2>3, <3>1, <3>2 DEF Travels, Emits
    <3> QED
      BY <1>1, <2>1, <3>1, <3>3 DEF Travels, AllRise, InOrder
  <2>4. CASE i = Home[x] /\ e # x
    <3>0. /\ Numbers(Append(broadcast[i], ev), e) = Numbers(broadcast[i], e)
          /\ \A excused : Rising(broadcast[i], e, excused) =>
                             Rising(Append(broadcast[i], ev), e, excused)
      BY <1>3, <2>1, <2>4, GainsOther
    <3>1. /\ Queued(i, e)' = Queued(i, e) /\ Rising(broadcast'[i], e, Loose(i, e))
          /\ emitted'[e] = emitted[e] /\ (e \in publishing' <=> e \in publishing)
      BY <1>1, <1>4, <2>1, <2>4, <3>0 DEF Queued, BridgeInv, BridgeTypes, Travels, AllRise
    <3> QED
      BY <1>1, <2>1, <3>1 DEF Travels, AllRise, InOrder, Emits, Everywhere, Abroad
  <2>5. CASE i = Home[x] /\ e = x
    <3>1. /\ Queued(i, e)' \in {Queued(i, e), Queued(i, e) \cup {emitted[e] + 1}}
          /\ emitted'[e] = emitted[e] + 1
      <4>1. Numbers(Append(broadcast[i], ev), e) = Numbers(broadcast[i], e) \cup {ev.n}
        BY <1>3, <2>1, <2>5, GainsNumber
      <4> QED
        BY <1>1, <1>3, <1>4, <2>5, <4>1 DEF Queued, BridgeInv, BridgeTypes
    <3>2. Before(Got(i, e) \cup Queued(i, e), {emitted[e] + 1}, {})
      BY <1>2, <2>1, <2>5 DEF Travels, Emits, Everywhere, Before
    <3>3. Rising(broadcast'[i], e, Loose(i, e))
      <4>1. Rising(broadcast[i], e, Loose(i, e)) /\ Before(Numbers(broadcast[i], e), {ev.n}, Loose(i, e))
        BY <1>3, <2>1, <2>5, <3>2 DEF Travels, AllRise, Queued, Before
      <4>2. Rising(Append(broadcast[i], ev), e, Loose(i, e))
        BY <1>3, <2>1, <2>5, <4>1, QueueGains
      <4> QED
        BY <1>4, <2>5, <4>1, <4>2
    <3>4. Emits(i, e)'
      <4>1. /\ Abroad(i, e)' \subseteq 1 .. emitted[e]
            /\ Everywhere(i, e)' \subseteq Everywhere(i, e) \cup {emitted[e] + 1}
        BY <2>1, <2>5, <3>1 DEF Abroad, Travels, Emits, Everywhere
      <4>2. /\ 1 .. emitted[e] \subseteq 1 .. emitted[e] + 1 /\ emitted[e] + 1 \in 1 .. emitted[e] + 1
            /\ emitted[e] + 1 \notin 1 .. emitted[e]
        BY <1>2, <2>5
      <4> QED
        BY <2>1, <3>1, <4>1, <4>2 DEF Travels, Emits
    <3>5. InOrder(i, e)'
      BY <2>1, <2>5, <3>1, <3>2 DEF Travels, InOrder, Before
    <3> QED
      BY <1>1, <2>1, <3>3, <3>4, <3>5 DEF Travels, AllRise
  <2> QED
    BY <2>2, <2>3, <2>4, <2>5
<1> QED
  BY <1>5, <1>6, <1>7 DEF BridgeInv

LEMMA PublishKeeps ==
    ASSUME BridgeInv, NEW x \in Emitters, Publish(x)
    PROVE  BridgeInv'
<1> DEFINE h == Home[x]
<1>1. /\ x \in publishing /\ publishing' = publishing \ {x}
      /\ \/ pub' = [pub EXCEPT ![h] = Append(@, Latest(x))]
         \/ UNCHANGED pub
      /\ UNCHANGED <<emitted, broadcast, sending, late, wire, seen, resent>>
  BY DEF Publish
<1>2. /\ h \in Nodes /\ pub \in [Nodes -> Seq(Event)] /\ pub[h] \in Seq(Event)
      /\ emitted[x] \in Nat /\ emitted[x] # 0 /\ h = Home[x]
  BY <1>1, BridgeSide DEF BridgeInv, BridgeTypes
<1> HIDE DEF h
<1>3. CASE UNCHANGED pub
  <2>1. BridgeTypes' /\ OwnOnly' /\ \A c \in late' : c.event \in resent'
    BY <1>1, <1>3 DEF BridgeInv, BridgeTypes, OwnOnly
  <2>2. ASSUME NEW i \in Nodes, NEW e \in Emitters
        PROVE  Travels(i, e)'
    <3>1. /\ Travels(i, e) /\ Got(i, e)' = Got(i, e) /\ Queued(i, e)' = Queued(i, e)
          /\ Coming(i, e)' = Coming(i, e) /\ Leaving(e)' = Leaving(e)
          /\ Sending(e)' = Sending(e) /\ Late(e)' = Late(e)
          /\ Lost(e)' = Lost(e) /\ Loose(i, e)' = Loose(i, e)
      BY <1>1, <1>3, NoCallMoves DEF BridgeInv, Got, Queued, Coming, Leaving
    <3> QED
      BY <1>1, <1>3, <3>1 DEF Travels, AllRise, InOrder, Emits, Everywhere, Abroad
  <2> QED
    BY <2>1, <2>2 DEF BridgeInv
<1>4. CASE pub' = [pub EXCEPT ![h] = Append(@, Latest(x))]
  <2>1. Latest(x) \in Event /\ Latest(x).from = x /\ Latest(x).n = emitted[x]
    BY <1>2 DEF Latest, Event
  <2>2. /\ pub' \in [Nodes -> Seq(Event)] /\ pub'[h] = Append(pub[h], Latest(x))
        /\ \A j \in Nodes : j # h => pub'[j] = pub[j]
    BY <1>2, <1>4, <2>1, QueueGains
  <2>3. BridgeTypes'
    BY <1>1, <2>2 DEF BridgeInv, BridgeTypes
  <2>4. \A e \in Emitters : e # x => Numbers(pub'[h], e) = Numbers(pub[h], e)
    <3>1. \A e \in Emitters : e # x => Numbers(Append(pub[h], Latest(x)), e) = Numbers(pub[h], e)
      BY <1>2, <2>1, GainsOther
    <3> QED
      BY <2>2, <3>1
  <2>5. OwnOnly' /\ \A c \in late' : c.event \in resent'
    BY <1>1, <1>2, <2>2, <2>4 DEF BridgeInv, OwnOnly
  <2>6. ASSUME NEW i \in Nodes, NEW e \in Emitters
        PROVE  Travels(i, e)'
    <3>1. /\ Travels(i, e) /\ Home[e] \in Nodes
          /\ Got(i, e)' = Got(i, e) /\ Coming(i, e)' = Coming(i, e) /\ Queued(i, e)' = Queued(i, e)
          /\ Sending(e)' = Sending(e) /\ Late(e)' = Late(e)
          /\ Lost(e)' = Lost(e) /\ Loose(i, e)' = Loose(i, e)
      BY <1>1, BridgeSide, NoCallMoves DEF BridgeInv, Got, Coming, Queued
    <3>2. CASE e # x
      <4>1. Rising(pub'[Home[e]], e, {}) /\ Leaving(e)' = Leaving(e)
        BY <1>2, <2>1, <2>2, <2>4, <3>1, <3>2, QueueGains DEF Travels, AllRise, Leaving
      <4> QED
        BY <1>1, <3>1, <3>2, <4>1 DEF Travels, AllRise, InOrder, Emits, Everywhere, Abroad
    <3>3. CASE e = x
      <4>1. Leaving(e)' = Leaving(e) \cup {emitted[e]}
        <5>1. Numbers(Append(pub[h], Latest(x)), e) = Numbers(pub[h], e) \cup {Latest(x).n}
          BY <1>2, <2>1, <3>3, GainsNumber
        <5> QED
          BY <1>2, <2>1, <2>2, <3>3, <5>1 DEF Leaving
      <4>2. Before(Abroad(i, e), {emitted[e]}, {})
        <5>1. Abroad(i, e) \subseteq 1 .. emitted[e] /\ emitted[e] \notin Abroad(i, e)
          BY <1>1, <3>1, <3>3 DEF Travels, Emits, Abroad, Everywhere
        <5> QED
          BY <1>2, <3>3, <5>1 DEF Before
      <4>3. Rising(pub'[Home[e]], e, {})
        <5>1. Rising(pub[h], e, {}) /\ Before(Numbers(pub[h], e), {Latest(x).n}, {})
          BY <1>2, <2>1, <3>1, <3>3, <4>2 DEF Travels, AllRise, Leaving, Abroad, Before
        <5> QED
          BY <1>2, <2>1, <2>2, <3>3, <5>1, QueueGains
      <4>4. Emits(i, e)'
        BY <1>1, <1>2, <1>4, <3>1, <3>3, <4>1 DEF Travels, Emits, Everywhere
      <4>5. InOrder(i, e)'
        BY <3>1, <4>1, <4>2 DEF Travels, InOrder, Abroad, Before
      <4> QED
        BY <1>1, <3>1, <4>3, <4>4, <4>5 DEF Travels, AllRise
    <3> QED
      BY <3>2, <3>3
  <2> QED
    BY <2>3, <2>5, <2>6 DEF BridgeInv
<1> QED
  BY <1>1, <1>3, <1>4

-----------------------------------------------------------------------------
(* The steps that move events on and lose some.                            *)

\* Nothing is emitted and nothing enters the bridge: the order is what is left
\* to show.
LEMMA StillTravels ==
    ASSUME NEW i, NEW e, Travels(i, e), UNCHANGED <<emitted, publishing>>,
           AllRise(i, e)', InOrder(i, e)',
           Everywhere(i, e)' \subseteq Everywhere(i, e), Abroad(i, e)' \subseteq Abroad(i, e)
    PROVE  Travels(i, e)'
BY DEF Travels, Emits

\* Events go missing, none arrives.
LEMMA StillInOrder ==
    ASSUME NEW i, NEW e, Travels(i, e), UNCHANGED <<emitted, publishing>>, AllRise(i, e)',
           Got(i, e)' \subseteq Got(i, e), Queued(i, e)' \subseteq Queued(i, e),
           Coming(i, e)' \subseteq Coming(i, e), Leaving(e)' \subseteq Leaving(e),
           UNCHANGED <<sending, late, resent>>
    PROVE  Travels(i, e)'
<1>0. /\ Sending(e)' = Sending(e) /\ Late(e)' = Late(e)
      /\ Lost(e)' = Lost(e) /\ Loose(i, e)' = Loose(i, e)
  BY NoCallMoves
<1>1. InOrder(i, e)'
  BY <1>0 DEF Travels, InOrder, Before
<1>2. Abroad(i, e)' \subseteq Abroad(i, e) /\ Everywhere(i, e)' \subseteq Everywhere(i, e)
  BY <1>0 DEF Abroad, Everywhere
<1> QED
  BY <1>1, <1>2, StillTravels

\* What a publisher calls with is its own.
LEMMA CallIsOwn ==
    ASSUME BridgeInv, NEW x \in Nodes, NEW c \in sending[x]
    PROVE  /\ c \in Copy /\ c.event \in Event /\ Home[c.event.from] = x
           /\ c.event.n \in Sending(c.event.from)
<1>1. c \in Copy /\ Home[c.event.from] = x
  BY DEF BridgeInv, BridgeTypes, OwnOnly
<1> QED
  BY <1>1 DEF Copy, Sending

\* runPublisher: from pub into a call.
LEMMA PublisherKeeps ==
    ASSUME BridgeInv, NEW x \in Nodes, runPublisher(x)
    PROVE  BridgeInv'
<1>v. PICK ev : ev = Head(pub[x])
  OBVIOUS
<1>1. /\ pub[x] \in Seq(Event) /\ pub[x] # <<>> /\ sending[x] = {}
      /\ pub' = [pub EXCEPT ![x] = Tail(@)]
      /\ sending' = [sending EXCEPT ![x] = {[event |-> ev, try |-> 0]}]
      /\ UNCHANGED <<emitted, publishing, broadcast, late, wire, seen, resent>>
  BY <1>v, Queues DEF runPublisher, Calls
<1>2. /\ ev \in Event /\ ev.from \in Emitters /\ ev.n \in Nat
      /\ Tail(pub[x]) \in Seq(Event)
      /\ ev.n \in Numbers(pub[x], ev.from)
  <2>1. /\ ev \in Event /\ Tail(pub[x]) \in Seq(Event)
        /\ \A e : ev.from = e => ev.n \in Numbers(pub[x], e)
    BY <1>1, <1>v, QueueLoses
  <2> QED
    BY <2>1, Numbered
<1>3. Home[ev.from] = x
  BY <1>2 DEF BridgeInv, OwnOnly
<1>4. /\ pub' \in [Nodes -> Seq(Event)] /\ pub'[x] = Tail(pub[x])
      /\ \A j \in Nodes : j # x => pub'[j] = pub[j]
  BY <1>1, <1>2 DEF BridgeInv, BridgeTypes
<1>5. /\ sending' \in [Nodes -> SUBSET Copy]
      /\ \A c \in sending'[x] : c.event = ev
      /\ \E c \in sending'[x] : c.event = ev
      /\ \A j \in Nodes : j # x => sending'[j] = sending[j]
  <2>1. [event |-> ev, try |-> 0] \in Copy
    BY <1>2, BridgeSide DEF Copy
  <2> QED
    BY <1>1, <2>1 DEF BridgeInv, BridgeTypes
<1>6. BridgeTypes' /\ \A c \in late' : c.event \in resent'
  BY <1>1, <1>4, <1>5 DEF BridgeInv, BridgeTypes
<1>7. \A e : /\ Numbers(pub'[x], e) \subseteq Numbers(pub[x], e)
             /\ Rising(pub[x], e, {}) => Rising(pub'[x], e, {})
             /\ Rising(pub[x], e, {}) /\ ev.from = e => Before({ev.n}, Numbers(pub'[x], e), {})
  BY <1>1, <1>4, <1>v, QueueLoses
<1>8. OwnOnly'
  <2>1. OwnOnly
    BY DEF BridgeInv
  <2>2. ASSUME NEW i \in Nodes, NEW e \in Emitters, Home[e] # i
        PROVE  Numbers(pub'[i], e) = {}
    BY <1>4, <1>7, <2>1, <2>2 DEF OwnOnly
  <2>3. ASSUME NEW i \in Nodes, NEW c \in sending'[i]
        PROVE  Home[c.event.from] = i
    BY <1>3, <1>5, <2>1, <2>3 DEF OwnOnly
  <2> QED
    BY <2>2, <2>3 DEF OwnOnly
<1>9. ASSUME NEW i \in Nodes, NEW e \in Emitters
      PROVE  Travels(i, e)'
  <2>1. /\ Travels(i, e) /\ Home[e] \in Nodes
        /\ Got(i, e)' = Got(i, e) /\ Queued(i, e)' = Queued(i, e) /\ Coming(i, e)' = Coming(i, e)
        /\ Late(e)' = Late(e) /\ Lost(e)' = Lost(e) /\ Loose(i, e)' = Loose(i, e)
    BY <1>1, BridgeSide DEF BridgeInv, Got, Queued, Coming, Late, Lost, Loose
  <2>2. Leaving(e)' \subseteq Leaving(e) /\ Rising(pub'[Home[e]], e, {})
    BY <1>4, <1>7, <2>1 DEF Leaving, Travels, AllRise
  <2>3. AllRise(i, e)'
    BY <1>1, <2>1, <2>2 DEF Travels, AllRise
  <2>4. CASE e # ev.from
    <3>1. Sending(e)' \subseteq Sending(e)
      BY <1>5, <2>1, <2>4 DEF Sending
    <3>2. InOrder(i, e)'
      BY <2>1, <2>2, <3>1 DEF Travels, InOrder, Before
    <3>3. Abroad(i, e)' \subseteq Abroad(i, e) /\ Everywhere(i, e)' \subseteq Everywhere(i, e)
      BY <2>1, <2>2, <3>1 DEF Abroad, Everywhere
    <3> QED
      BY <1>1, <2>1, <2>3, <3>2, <3>3, StillTravels
  <2>5. CASE e = ev.from
    <3>1. ev.n \in Leaving(e) /\ Before({ev.n}, Leaving(e)', {})
      BY <1>2, <1>3, <1>7, <2>1, <2>5 DEF Leaving, Travels, AllRise
    <3>2. Sending(e)' = {ev.n}
      BY <1>3, <1>5, <2>5 DEF Sending
    <3>3. InOrder(i, e)'
      BY <2>1, <2>2, <3>1, <3>2 DEF Travels, InOrder, Before
    <3>4. Abroad(i, e)' \subseteq Abroad(i, e) /\ Everywhere(i, e)' \subseteq Everywhere(i, e)
      BY <2>1, <2>2, <3>1, <3>2 DEF Abroad, Everywhere
    <3> QED
      BY <1>1, <2>1, <2>3, <3>3, <3>4, StillTravels
  <2> QED
    BY <2>4, <2>5
<1> QED
  BY <1>6, <1>8, <1>9 DEF BridgeInv

\* Redis hands an event to some of the subscriptions.
LEMMA HandOutWires ==
    ASSUME BridgeInv, NEW ev \in Event, HandOut(ev)
    PROVE  /\ wire' \in [Nodes -> Seq(Event)]
           /\ \A j \in Nodes : wire'[j] \in {wire[j], Append(wire[j], ev)}
           /\ \A j \in Nodes, e \in Emitters : e # ev.from =>
                /\ Coming(j, e)' = Coming(j, e)
                /\ Rising(wire[j], e, Lost(e)) => Rising(wire'[j], e, Lost(e))
           /\ \A j \in Nodes, e \in Emitters : e = ev.from =>
                /\ Coming(j, e)' \subseteq Coming(j, e) \cup {ev.n}
                /\ Rising(wire[j], e, Lost(e)) /\ Before(Coming(j, e), {ev.n}, Lost(e))
                     => Rising(wire'[j], e, Lost(e))
<1>1. \A j \in Nodes : wire[j] \in Seq(Event) /\ Append(wire[j], ev) \in Seq(Event)
  BY Queues
<1>2. /\ wire' \in [Nodes -> Seq(Event)]
      /\ \A j \in Nodes : wire'[j] \in {wire[j], Append(wire[j], ev)}
  BY <1>1 DEF HandOut
<1>3. ASSUME NEW j \in Nodes, NEW e \in Emitters, e # ev.from
      PROVE  /\ Coming(j, e)' = Coming(j, e)
             /\ Rising(wire[j], e, Lost(e)) => Rising(wire'[j], e, Lost(e))
  <2>1. /\ Numbers(Append(wire[j], ev), e) = Numbers(wire[j], e)
        /\ \A excused : Rising(wire[j], e, excused) => Rising(Append(wire[j], ev), e, excused)
    BY <1>1, <1>3, GainsOther
  <2> QED
    BY <1>2, <2>1 DEF Coming
<1>4. ASSUME NEW j \in Nodes, NEW e \in Emitters, e = ev.from
      PROVE  /\ Coming(j, e)' \subseteq Coming(j, e) \cup {ev.n}
             /\ Rising(wire[j], e, Lost(e)) /\ Before(Coming(j, e), {ev.n}, Lost(e))
                  => Rising(wire'[j], e, Lost(e))
  <2>1. Numbers(Append(wire[j], ev), e) = Numbers(wire[j], e) \cup {ev.n}
    BY <1>1, <1>4, GainsNumber
  <2>2. Rising(wire[j], e, Lost(e)) /\ Before(Coming(j, e), {ev.n}, Lost(e))
          => Rising(Append(wire[j], ev), e, Lost(e))
    BY <1>1, <1>4, QueueGains DEF Coming
  <2> QED
    BY <1>2, <2>1, <2>2 DEF Coming
<1> QED
  BY <1>2, <1>3, <1>4

\* Answered: from the call to the wires.
LEMMA AnsweredKeeps ==
    ASSUME BridgeInv, NEW x \in Nodes, Answered(x)
    PROVE  BridgeInv'
<1>1. PICK c \in sending[x] :
        /\ HandOut(c.event)
        /\ sending' = [sending EXCEPT ![x] = {}]
        /\ UNCHANGED <<emitted, publishing, broadcast, pub, late, seen, resent>>
  BY DEF Answered
<1>v. PICK ev : ev = c.event
  OBVIOUS
<1>2. /\ ev \in Event /\ ev.from \in Emitters /\ ev.n \in Nat /\ Home[ev.from] = x
      /\ ev.n \in Sending(ev.from) /\ HandOut(ev)
  BY <1>1, <1>v, CallIsOwn, Numbered
<1>3. /\ sending' \in [Nodes -> SUBSET Copy] /\ sending'[x] = {}
      /\ \A j \in Nodes : j # x => sending'[j] = sending[j]
  BY <1>1 DEF BridgeInv, BridgeTypes
<1>4. BridgeTypes' /\ OwnOnly' /\ \A d \in late' : d.event \in resent'
  BY <1>1, <1>2, <1>3, HandOutWires DEF BridgeInv, BridgeTypes, OwnOnly
<1>5. ASSUME NEW i \in Nodes, NEW e \in Emitters
      PROVE  Travels(i, e)'
  <2>1. /\ Travels(i, e) /\ Home[e] \in Nodes
        /\ Got(i, e)' = Got(i, e) /\ Queued(i, e)' = Queued(i, e) /\ Leaving(e)' = Leaving(e)
        /\ Late(e)' = Late(e) /\ Lost(e)' = Lost(e) /\ Loose(i, e)' = Loose(i, e)
    BY <1>1, BridgeSide DEF BridgeInv, Got, Queued, Leaving, Late, Lost, Loose
  <2>2. Sending(e)' \subseteq Sending(e)
    BY <1>3, <2>1 DEF Sending
  <2>3. CASE e # ev.from
    <3>1. Coming(i, e)' = Coming(i, e) /\ AllRise(i, e)'
      BY <1>1, <1>2, <2>1, <2>3, HandOutWires DEF Travels, AllRise
    <3>2. InOrder(i, e)'
      BY <2>1, <2>2, <3>1 DEF Travels, InOrder, Before
    <3>3. Abroad(i, e)' \subseteq Abroad(i, e) /\ Everywhere(i, e)' \subseteq Everywhere(i, e)
      BY <2>1, <2>2, <3>1 DEF Abroad, Everywhere
    <3> QED
      BY <1>1, <2>1, <3>1, <3>2, <3>3, StillTravels
  <2>4. CASE e = ev.from
    <3>1. ev.n \in Sending(e) /\ Sending(e)' = {}
      BY <1>2, <1>3, <2>4 DEF Sending
    <3>2. Before(Coming(i, e), {ev.n}, Lost(e))
      BY <2>1, <3>1 DEF Travels, InOrder, Before
    <3>3. Coming(i, e)' \subseteq Coming(i, e) \cup {ev.n} /\ AllRise(i, e)'
      BY <1>1, <1>2, <2>1, <2>4, <3>2, HandOutWires DEF Travels, AllRise
    <3>4. InOrder(i, e)'
      BY <2>1, <3>1, <3>3 DEF Travels, InOrder, Before
    <3>5. Abroad(i, e)' \subseteq Abroad(i, e) /\ Everywhere(i, e)' \subseteq Everywhere(i, e)
      BY <2>1, <3>1, <3>3 DEF Abroad, Everywhere
    <3> QED
      BY <1>1, <2>1, <3>3, <3>4, <3>5, StillTravels
  <2> QED
    BY <2>3, <2>4
<1> QED
  BY <1>4, <1>5 DEF BridgeInv

\* LoseAnswer: what was sent may come late now; the call is made again or over.
LEMMA LoseAnswerKeeps ==
    ASSUME BridgeInv, NEW x \in Nodes, LoseAnswer(x)
    PROVE  BridgeInv'
<1>1. PICK c \in sending[x] :
        /\ late' = late \cup {c} /\ resent' = resent \cup {c.event}
        /\ \/ /\ c.try < Retries
              /\ sending' = [sending EXCEPT ![x] = {[c EXCEPT !.try = @ + 1]}]
           \/ sending' = [sending EXCEPT ![x] = {}]
        /\ UNCHANGED <<emitted, publishing, broadcast, pub, wire, seen>>
  BY DEF LoseAnswer
<1>v. PICK ev : ev = c.event
  OBVIOUS
<1>2. /\ ev \in Event /\ ev.from \in Emitters /\ ev.n \in Nat /\ Home[ev.from] = x
      /\ ev.n \in Sending(ev.from) /\ c \in Copy
  BY <1>v, CallIsOwn, Numbered
<1>3. /\ sending' \in [Nodes -> SUBSET Copy]
      /\ \A d \in sending'[x] : d.event = ev
      /\ \A j \in Nodes : j # x => sending'[j] = sending[j]
  <2>1. PICK again : again = [c EXCEPT !.try = @ + 1]
    OBVIOUS
  <2>2. c.try < Retries => again \in Copy /\ again.event = ev
    BY <1>2, <1>v, <2>1, BridgeSide DEF Copy
  <2>3. sending \in [Nodes -> SUBSET Copy]
    BY DEF BridgeInv, BridgeTypes
  <2>4. CASE c.try < Retries /\ sending' = [sending EXCEPT ![x] = {again}]
    <3>1. {again} \in SUBSET Copy /\ \A d \in {again} : d.event = ev
      BY <2>2, <2>4
    <3> QED
      BY <2>3, <2>4, <3>1
  <2>5. CASE sending' = [sending EXCEPT ![x] = {}]
    BY <2>3, <2>5
  <2> QED
    BY <1>1, <2>1, <2>4, <2>5
<1>4. BridgeTypes'
  <2>1. late' \subseteq Copy /\ resent' \subseteq Event
    BY <1>1, <1>2, <1>v DEF BridgeInv, BridgeTypes
  <2> QED
    BY <1>1, <1>3, <2>1 DEF BridgeInv, BridgeTypes
<1>5. OwnOnly' /\ \A d \in late' : d.event \in resent'
  <2>1. \A i \in Nodes : \A d \in sending'[i] : Home[d.event.from] = i
    BY <1>2, <1>3 DEF BridgeInv, OwnOnly
  <2>2. \A d \in late' : d.event \in resent'
    BY <1>1 DEF BridgeInv
  <2>3. pub' = pub
    BY <1>1
  <2> QED
    BY <2>1, <2>2, <2>3 DEF BridgeInv, OwnOnly
<1>6. ASSUME NEW i \in Nodes, NEW e \in Emitters
      PROVE  Travels(i, e)'
  <2>1. /\ Travels(i, e) /\ Home[e] \in Nodes
        /\ Got(i, e)' = Got(i, e) /\ Queued(i, e)' = Queued(i, e)
        /\ Coming(i, e)' = Coming(i, e) /\ Leaving(e)' = Leaving(e)
    BY <1>1, BridgeSide DEF BridgeInv, Got, Queued, Coming, Leaving
  <2>2. Lost(e) \subseteq Lost(e)' /\ Loose(i, e) \subseteq Loose(i, e)'
    BY <1>1 DEF Lost, Loose
  <2>3. AllRise(i, e)'
    BY <1>1, <2>1, <2>2, MoreExcused DEF Travels, AllRise
  <2>4. /\ Sending(e)' \subseteq Sending(e)
        /\ Late(e)' \subseteq Late(e) \cup Sending(e)
        /\ \A n \in Late(e)' : n \in Late(e) \/ (n = ev.n /\ e = ev.from)
        /\ \A n \in Sending(e)' : n \in Sending(e) /\ (Home[e] = x => n = ev.n /\ e = ev.from)
        /\ e = ev.from => ev.n \in Lost(e)'
    <3>1. \A n \in Late(e)' : n \in Late(e) \/ (n = ev.n /\ e = ev.from)
      BY <1>1, <1>v DEF Late
    <3>2. Sending(e)' \subseteq Sending(e)
      BY <1>2, <1>3, <2>1 DEF Sending
    <3>3. \A n \in Sending(e)' : Home[e] = x => n = ev.n /\ e = ev.from
      BY <1>3, <2>1 DEF Sending
    <3>4. e = ev.from => ev.n \in Lost(e)'
      BY <1>1, <1>v DEF Lost
    <3> QED
      BY <1>2, <3>1, <3>2, <3>3, <3>4
  <2>5. InOrder(i, e)'
    <3>1. InOrder(i, e)
      BY <2>1 DEF Travels
    <3>2. Before(Got(i, e)', Queued(i, e)', Loose(i, e)')
      BY <2>1, <2>2, <3>1 DEF InOrder, Before
    <3>3. Before((Late(e) \cup Coming(i, e))', (Sending(e) \cup Leaving(e))', Lost(e)')
      <4>1. \A a \in Late(e)' \cup Coming(i, e), b \in Sending(e)' \cup Leaving(e) :
              a < b \/ b \in Lost(e)'
        <5> SUFFICES ASSUME NEW a \in Late(e)' \cup Coming(i, e),
                            NEW b \in Sending(e)' \cup Leaving(e)
                     PROVE  a < b \/ b \in Lost(e)'
          OBVIOUS
        <5>1. CASE a \in Late(e) \cup Coming(i, e)
          BY <2>2, <2>4, <3>1, <5>1 DEF InOrder, Before
        <5>2. CASE a \notin Late(e) \cup Coming(i, e)
          <6>1. a = ev.n /\ e = ev.from /\ a \in Sending(e)
            BY <1>2, <2>4, <5>2
          <6>2. CASE b \in Leaving(e)
            BY <3>1, <6>1, <6>2 DEF InOrder, Before
          <6>3. CASE b \in Sending(e)'
            BY <1>2, <2>4, <6>1, <6>3
          <6> QED
            BY <6>2, <6>3
        <5> QED
          BY <5>1, <5>2
      <4> QED
        BY <2>1, <4>1 DEF Before
    <3>4. Before(Sending(e)', Leaving(e)', {})
      BY <2>1, <2>4, <3>1 DEF InOrder, Before
    <3>5. i # Home[e] => Before((Got(i, e) \cup Queued(i, e))',
                                (Coming(i, e) \cup Sending(e) \cup Leaving(e))', Lost(e)')
      BY <2>1, <2>2, <2>4, <3>1 DEF InOrder, Before
    <3> QED
      BY <3>2, <3>3, <3>4, <3>5 DEF InOrder
  <2>6. Abroad(i, e)' \subseteq Abroad(i, e) /\ Everywhere(i, e)' \subseteq Everywhere(i, e)
    BY <2>1, <2>4 DEF Abroad, Everywhere
  <2> QED
    BY <1>1, <2>1, <2>3, <2>5, <2>6, StillTravels
<1> QED
  BY <1>4, <1>5, <1>6 DEF BridgeInv

\* A late copy joins the wires; it is excused wherever it then is.
LEMMA StraggleKeeps ==
    ASSUME BridgeInv, NEW c \in late, Straggle(c)
    PROVE  BridgeInv'
<1>v. PICK ev : ev = c.event
  OBVIOUS
<1>1. /\ late' = late \ {c} /\ HandOut(ev)
      /\ UNCHANGED <<emitted, publishing, broadcast, pub, sending, seen, resent>>
  BY <1>v DEF Straggle
<1>2. /\ ev \in Event /\ ev.from \in Emitters /\ ev.n \in Nat
      /\ ev.n \in Late(ev.from) /\ ev.n \in Lost(ev.from)
  <2>1. ev \in Event /\ ev \in resent
    BY <1>v DEF BridgeInv, BridgeTypes, Copy
  <2> QED
    BY <1>v, <2>1, Numbered DEF Late, Lost
<1>3. BridgeTypes' /\ OwnOnly' /\ \A d \in late' : d.event \in resent'
  BY <1>1, <1>2, HandOutWires DEF BridgeInv, BridgeTypes, OwnOnly
<1>4. ASSUME NEW i \in Nodes, NEW e \in Emitters
      PROVE  Travels(i, e)'
  <2>1. /\ Travels(i, e)
        /\ Got(i, e)' = Got(i, e) /\ Queued(i, e)' = Queued(i, e) /\ Leaving(e)' = Leaving(e)
        /\ Sending(e)' = Sending(e) /\ Lost(e)' = Lost(e) /\ Loose(i, e)' = Loose(i, e)
        /\ Late(e)' \subseteq Late(e)
    BY <1>1 DEF BridgeInv, Got, Queued, Leaving, Sending, Lost, Loose, Late
  <2>2. CASE e # ev.from
    <3>1. Coming(i, e)' = Coming(i, e) /\ AllRise(i, e)'
      BY <1>1, <1>2, <2>1, <2>2, HandOutWires DEF Travels, AllRise
    <3>2. InOrder(i, e)'
      BY <2>1, <3>1 DEF Travels, InOrder, Before
    <3>3. Abroad(i, e)' \subseteq Abroad(i, e) /\ Everywhere(i, e)' \subseteq Everywhere(i, e)
      BY <2>1, <3>1 DEF Abroad, Everywhere
    <3> QED
      BY <1>1, <2>1, <3>1, <3>2, <3>3, StillTravels
  <2>3. CASE e = ev.from
    <3>1. ev.n \in Late(e) /\ ev.n \in Lost(e) /\ Before(Coming(i, e), {ev.n}, Lost(e))
      BY <1>2, <2>3 DEF Before
    <3>2. Coming(i, e)' \subseteq Coming(i, e) \cup {ev.n} /\ AllRise(i, e)'
      BY <1>1, <1>2, <2>1, <2>3, <3>1, HandOutWires DEF Travels, AllRise
    <3>3. InOrder(i, e)'
      BY <2>1, <3>1, <3>2 DEF Travels, InOrder, Before
    <3>4. Abroad(i, e)' \subseteq Abroad(i, e) /\ Everywhere(i, e)' \subseteq Everywhere(i, e)
      BY <2>1, <3>1, <3>2 DEF Abroad, Everywhere
    <3> QED
      BY <1>1, <2>1, <3>2, <3>3, <3>4, StillTravels
  <2> QED
    BY <2>2, <2>3
<1> QED
  BY <1>3, <1>4 DEF BridgeInv

\* dispatch: from an instance's wire to its hub, unless it is an echo.
LEMMA DispatchKeeps ==
    ASSUME BridgeInv, NEW x \in Nodes, dispatch(x)
    PROVE  BridgeInv'
<1>v. PICK ev : ev = Head(wire[x])
  OBVIOUS
<1>1. /\ wire[x] \in Seq(Event) /\ wire[x] # <<>>
      /\ wire' = [wire EXCEPT ![x] = Tail(@)]
      /\ UNCHANGED broadcast \/ (Home[ev.from] # x /\ Queue(x, ev))
      /\ UNCHANGED <<emitted, publishing, pub, sending, late, seen, resent>>
  BY <1>v, Queues DEF dispatch, Origin
<1>2. ev \in Event /\ ev.from \in Emitters /\ Tail(wire[x]) \in Seq(Event)
  BY <1>1, <1>v, QueueLoses, Numbered
<1>3. /\ wire' \in [Nodes -> Seq(Event)] /\ wire'[x] = Tail(wire[x])
      /\ \A j \in Nodes : j # x => wire'[j] = wire[j]
  BY <1>1, <1>2 DEF BridgeInv, BridgeTypes
<1>4. /\ broadcast' \in [Nodes -> Seq(Event)]
      /\ \A j \in Nodes : j # x => broadcast'[j] = broadcast[j]
      /\ \/ broadcast'[x] = broadcast[x]
         \/ Home[ev.from] # x /\ broadcast'[x] = Append(broadcast[x], ev)
  BY <1>1, <1>2, QueuesEvent DEF BridgeInv, BridgeTypes
<1>5. BridgeTypes'
  BY <1>1, <1>3, <1>4 DEF BridgeInv, BridgeTypes
<1>6. OwnOnly' /\ \A c \in late' : c.event \in resent'
  BY <1>1 DEF BridgeInv, OwnOnly
<1>7. \A e, excused :
        /\ Numbers(wire'[x], e) \subseteq Numbers(wire[x], e)
        /\ Rising(wire[x], e, excused) => Rising(wire'[x], e, excused)
        /\ Rising(wire[x], e, excused) /\ ev.from = e =>
             Before({ev.n}, Numbers(wire'[x], e), excused)
        /\ ev.from = e => ev.n \in Numbers(wire[x], e)
  BY <1>1, <1>3, <1>v, QueueLoses
<1>8. ASSUME NEW i \in Nodes, NEW e \in Emitters
      PROVE  Travels(i, e)'
  <2>1. /\ Travels(i, e) /\ broadcast[i] \in Seq(Event)
        /\ Got(i, e)' = Got(i, e) /\ Leaving(e)' = Leaving(e)
        /\ Sending(e)' = Sending(e) /\ Late(e)' = Late(e)
        /\ Lost(e)' = Lost(e) /\ Loose(i, e)' = Loose(i, e)
        /\ Rising(seen'[i], e, Loose(i, e)) /\ Rising(pub'[Home[e]], e, {})
    BY <1>1, Queues, NoCallMoves DEF BridgeInv, Got, Leaving, Travels, AllRise
  <2>2. Coming(i, e)' \subseteq Coming(i, e) /\ Rising(wire'[i], e, Lost(e))
    BY <1>3, <1>7, <2>1 DEF Coming, Travels, AllRise
  <2>3. CASE broadcast'[i] = broadcast[i]
    <3>1. Queued(i, e)' = Queued(i, e) /\ AllRise(i, e)'
      BY <2>1, <2>2, <2>3 DEF Queued, Travels, AllRise
    <3> QED
      BY <1>1, <2>1, <2>2, <3>1, StillInOrder
  <2>4. CASE /\ i = x /\ e # ev.from
             /\ broadcast'[i] = Append(broadcast[i], ev)
    <3>1. /\ Numbers(Append(broadcast[i], ev), e) = Numbers(broadcast[i], e)
          /\ \A excused : Rising(broadcast[i], e, excused) =>
                             Rising(Append(broadcast[i], ev), e, excused)
      BY <1>2, <2>1, <2>4, GainsOther
    <3>2. Queued(i, e)' = Queued(i, e) /\ AllRise(i, e)'
      BY <2>1, <2>2, <2>4, <3>1 DEF Queued, Travels, AllRise
    <3> QED
      BY <1>1, <2>1, <2>2, <3>2, StillInOrder
  <2>5. CASE /\ i = x /\ e = ev.from /\ Home[e] # i
             /\ broadcast'[i] = Append(broadcast[i], ev)
    <3>1. /\ ev.n \in Coming(i, e) /\ Before({ev.n}, Coming(i, e)', Lost(e))
          /\ Loose(i, e) = Lost(e)
      BY <1>7, <2>1, <2>5 DEF Coming, Travels, AllRise, Loose
    <3>2. Numbers(Append(broadcast[i], ev), e) = Numbers(broadcast[i], e) \cup {ev.n}
      BY <1>2, <2>1, <2>5, GainsNumber
    <3>3. Queued(i, e)' = Queued(i, e) \cup {ev.n}
      BY <2>5, <3>2 DEF Queued
    <3>4. /\ Before(Got(i, e) \cup Queued(i, e), {ev.n}, Lost(e))
          /\ Before({ev.n}, Sending(e) \cup Leaving(e), Lost(e))
      BY <2>1, <2>5, <3>1 DEF Travels, InOrder, Before
    <3>5. AllRise(i, e)'
      <4>1. /\ Rising(broadcast[i], e, Loose(i, e))
            /\ Before(Numbers(broadcast[i], e), {ev.n}, Loose(i, e))
        BY <2>1, <3>1, <3>4 DEF Travels, AllRise, Queued, Before
      <4>2. Rising(Append(broadcast[i], ev), e, Loose(i, e))
        BY <1>2, <2>1, <2>5, <4>1, QueueGains
      <4> QED
        BY <2>1, <2>2, <2>5, <4>2 DEF AllRise
    <3>6. InOrder(i, e)'
      BY <2>1, <2>2, <2>5, <3>1, <3>3, <3>4 DEF Travels, InOrder, Before
    <3>7. Abroad(i, e)' \subseteq Abroad(i, e) /\ Everywhere(i, e)' \subseteq Everywhere(i, e)
      BY <2>1, <2>2, <2>5, <3>1, <3>3 DEF Abroad, Everywhere
    <3> QED
      BY <1>1, <2>1, <2>2, <3>1, <3>3, <3>5, <3>6, <3>7, StillTravels
  <2> QED
    BY <1>4, <2>3, <2>4, <2>5
<1> QED
  BY <1>5, <1>6, <1>8 DEF BridgeInv

\* handleBroadcast: from an instance's hub to its listener.
LEMMA DeliveryKeeps ==
    ASSUME BridgeInv, NEW x \in Nodes, handleBroadcast(x)
    PROVE  BridgeInv'
<1>v. PICK ev : ev = Head(broadcast[x])
  OBVIOUS
<1>1. /\ broadcast[x] \in Seq(Event) /\ broadcast[x] # <<>> /\ seen[x] \in Seq(Event)
      /\ broadcast' = [broadcast EXCEPT ![x] = Tail(@)]
      /\ seen' = [seen EXCEPT ![x] = Append(@, ev)]
      /\ UNCHANGED <<emitted, publishing, pub, sending, late, wire, resent>>
  BY <1>v, Queues DEF handleBroadcast
<1>2. ev \in Event /\ Tail(broadcast[x]) \in Seq(Event)
  BY <1>1, <1>v, QueueLoses
<1>3. Append(seen[x], ev) \in Seq(Event)
  BY <1>1, <1>2, QueueGains
<1>4. /\ broadcast' \in [Nodes -> Seq(Event)] /\ broadcast'[x] = Tail(broadcast[x])
      /\ seen' \in [Nodes -> Seq(Event)] /\ seen'[x] = Append(seen[x], ev)
      /\ \A j \in Nodes : j # x => broadcast'[j] = broadcast[j] /\ seen'[j] = seen[j]
  BY <1>1, <1>2, <1>3 DEF BridgeInv, BridgeTypes
<1>5. BridgeTypes'
  BY <1>1, <1>4 DEF BridgeInv, BridgeTypes
<1>6. OwnOnly' /\ \A c \in late' : c.event \in resent'
  BY <1>1 DEF BridgeInv, OwnOnly
<1>7. \A e, excused :
        /\ Numbers(broadcast'[x], e) \subseteq Numbers(broadcast[x], e)
        /\ Rising(broadcast[x], e, excused) => Rising(broadcast'[x], e, excused)
        /\ Rising(broadcast[x], e, excused) /\ ev.from = e =>
             Before({ev.n}, Numbers(broadcast'[x], e), excused)
        /\ ev.from = e => ev.n \in Numbers(broadcast[x], e)
  BY <1>1, <1>4, <1>v, QueueLoses
<1>8. ASSUME NEW i \in Nodes, NEW e \in Emitters
      PROVE  Travels(i, e)'
  <2>1. /\ Travels(i, e) /\ seen[i] \in Seq(Event)
        /\ Coming(i, e)' = Coming(i, e) /\ Leaving(e)' = Leaving(e)
        /\ Sending(e)' = Sending(e) /\ Late(e)' = Late(e)
        /\ Lost(e)' = Lost(e) /\ Loose(i, e)' = Loose(i, e)
        /\ Rising(wire'[i], e, Lost(e)) /\ Rising(pub'[Home[e]], e, {})
    BY <1>1, Queues, NoCallMoves DEF BridgeInv, Coming, Leaving, Travels, AllRise
  <2>2. Queued(i, e)' \subseteq Queued(i, e) /\ Rising(broadcast'[i], e, Loose(i, e))
    BY <1>4, <1>7, <2>1 DEF Queued, Travels, AllRise
  <2>3. CASE i # x
    <3>1. Got(i, e)' = Got(i, e) /\ AllRise(i, e)'
      BY <1>4, <2>1, <2>2, <2>3 DEF Got, Travels, AllRise
    <3> QED
      BY <1>1, <2>1, <2>2, <3>1, StillInOrder
  <2>4. CASE i = x /\ e # ev.from
    <3>1. /\ Numbers(Append(seen[i], ev), e) = Numbers(seen[i], e)
          /\ \A excused : Rising(seen[i], e, excused) => Rising(Append(seen[i], ev), e, excused)
      BY <1>2, <2>1, <2>4, GainsOther
    <3>2. Got(i, e)' = Got(i, e) /\ AllRise(i, e)'
      BY <1>4, <2>1, <2>2, <2>4, <3>1 DEF Got, Travels, AllRise
    <3> QED
      BY <1>1, <2>1, <2>2, <3>2, StillInOrder
  <2>5. CASE i = x /\ e = ev.from
    <3>1. ev.n \in Queued(i, e) /\ Before({ev.n}, Queued(i, e)', Loose(i, e))
      BY <1>7, <2>1, <2>5 DEF Queued, Travels, AllRise
    <3>2. Numbers(Append(seen[i], ev), e) = Numbers(seen[i], e) \cup {ev.n}
      BY <1>2, <2>1, <2>5, GainsNumber
    <3>3. Got(i, e)' = Got(i, e) \cup {ev.n}
      BY <1>4, <2>5, <3>2 DEF Got
    <3>4. Before(Got(i, e), {ev.n}, Loose(i, e))
      BY <2>1, <3>1 DEF Travels, InOrder, Before
    <3>5. AllRise(i, e)'
      <4>1. /\ Rising(seen[i], e, Loose(i, e))
            /\ Before(Numbers(seen[i], e), {ev.n}, Loose(i, e))
        BY <2>1, <3>4 DEF Travels, AllRise, Got
      <4>2. Rising(Append(seen[i], ev), e, Loose(i, e))
        BY <1>2, <2>1, <2>5, <4>1, QueueGains
      <4> QED
        BY <1>4, <2>1, <2>2, <2>5, <4>2 DEF AllRise
    <3>6. InOrder(i, e)'
      BY <2>1, <2>2, <3>1, <3>3 DEF Travels, InOrder, Before
    <3>7. Abroad(i, e)' \subseteq Abroad(i, e) /\ Everywhere(i, e)' \subseteq Everywhere(i, e)
      BY <2>1, <2>2, <3>1, <3>3 DEF Abroad, Everywhere
    <3> QED
      BY <1>1, <2>1, <2>2, <3>1, <3>3, <3>5, <3>6, <3>7, StillTravels
  <2> QED
    BY <2>3, <2>4, <2>5
<1> QED
  BY <1>5, <1>6, <1>8 DEF BridgeInv

\* A broken subscription loses what was on its way.
LEMMA DisconnectKeeps ==
    ASSUME BridgeInv, NEW x \in Nodes, Disconnect(x)
    PROVE  BridgeInv'
<1>1. /\ wire' = [wire EXCEPT ![x] = <<>>]
      /\ UNCHANGED <<emitted, publishing, broadcast, pub, sending, late, seen, resent>>
  BY DEF Disconnect
<1>2. BridgeTypes' /\ OwnOnly' /\ \A c \in late' : c.event \in resent'
  BY <1>1 DEF BridgeInv, BridgeTypes, OwnOnly
<1>3. \A j \in Nodes : wire'[j] = <<>> \/ wire'[j] = wire[j]
  BY <1>1 DEF BridgeInv, BridgeTypes
<1>4. ASSUME NEW i \in Nodes, NEW e \in Emitters
      PROVE  Travels(i, e)'
  <2>1. /\ Travels(i, e) /\ Got(i, e)' = Got(i, e)
        /\ Queued(i, e)' = Queued(i, e) /\ Leaving(e)' = Leaving(e)
        /\ Lost(e)' = Lost(e) /\ Loose(i, e)' = Loose(i, e)
    BY <1>1, NoCallMoves DEF BridgeInv, Got, Queued, Leaving
  <2>2. Coming(i, e)' \subseteq Coming(i, e) /\ AllRise(i, e)'
    BY <1>1, <1>3, <2>1, EmptyQueue DEF Coming, Travels, AllRise
  <2> QED
    BY <1>1, <2>1, <2>2, StillInOrder
<1> QED
  BY <1>2, <1>4 DEF BridgeInv

LEMMA SameQueues ==
    ASSUME BridgeInv,
           UNCHANGED <<emitted, publishing, broadcast, pub, sending, late, wire, seen, resent>>
    PROVE  BridgeInv'
<1>1. BridgeTypes' /\ OwnOnly' /\ \A c \in late' : c.event \in resent'
  BY DEF BridgeInv, BridgeTypes, OwnOnly
<1>2. ASSUME NEW i \in Nodes, NEW e \in Emitters
      PROVE  Travels(i, e)'
  <2>1. Travels(i, e)
    BY DEF BridgeInv
  <2> QED
    BY <2>1 DEF Travels, AllRise, InOrder, Emits, Everywhere, Abroad, Got, Queued, Coming,
                Leaving, Sending, Late, Lost, Loose
<1> QED
  BY <1>1, <1>2 DEF BridgeInv

-----------------------------------------------------------------------------

LEMMA BridgeStep ==
    ASSUME BridgeInv, [BridgeNext]_bridgeVars
    PROVE  BridgeInv'
<1>1. ASSUME NEW e \in Emitters, Emit(e) \/ Publish(e)
      PROVE  BridgeInv'
  BY <1>1, EmitKeeps, PublishKeeps
<1>2. ASSUME NEW i \in Nodes, Loops(i)
      PROVE  BridgeInv'
  BY <1>2, PublisherKeeps, AnsweredKeeps, LoseAnswerKeeps, DispatchKeeps, DeliveryKeeps
     DEF Loops, Call
<1>3. ASSUME NEW i \in Nodes, Disconnect(i)
      PROVE  BridgeInv'
  BY <1>3, DisconnectKeeps
<1>4. ASSUME NEW i \in Nodes, Start(i) \/ Resubscribe(i)
      PROVE  BridgeInv'
  BY <1>4, SameQueues DEF Start, Resubscribe
<1>5. ASSUME NEW c \in late, Straggle(c)
      PROVE  BridgeInv'
  BY <1>5, StraggleKeeps
<1>6. CASE UNCHANGED bridgeVars
  BY <1>6, SameQueues DEF bridgeVars
<1> QED
  BY <1>1, <1>2, <1>3, <1>4, <1>5, <1>6 DEF BridgeNext

\* The parts hold in every reachable state of the bridge.
THEOREM BridgeInvariant == BridgeSpec => []BridgeInv
<1> QED
  BY InitBridge, BridgeStep, PTL DEF BridgeSpec

\* Whatever the queues drop, the connections lose and the client sends again: at
\* home a listener gets one emitter's events in the order of emit and none twice,
\* and at a peer the only ones out of place are those sent again.
THEOREM ArriveInOrder == BridgeSpec => []EmitterOrder
<1>1. BridgeInv => EmitterOrder
  <2> SUFFICES ASSUME BridgeInv, NEW i \in Nodes,
                      NEW j \in 1 .. Len(seen[i]), NEW k \in 1 .. Len(seen[i]),
                      j < k, seen[i][j].from = seen[i][k].from
               PROVE  \/ seen[i][j].n < seen[i][k].n
                      \/ Origin(seen[i][k]) # i /\ seen[i][k] \in resent
    BY DEF EmitterOrder
  <2>1. PICK ev \in Event : ev = seen[i][k]
    BY Queues
  <2>2. ev.from \in Emitters
    BY Numbered
  <2>3. Rising(seen[i], ev.from, Loose(i, ev.from))
    BY <2>2 DEF BridgeInv, Travels, AllRise
  <2>4. seen[i][j].n < ev.n \/ ev.n \in Loose(i, ev.from)
    BY <2>1, <2>3 DEF Rising
  <2>5. ASSUME ev.n \in Loose(i, ev.from)
        PROVE  Origin(ev) # i /\ ev \in resent
    <3>1. Home[ev.from] # i /\ ev.n \in Lost(ev.from)
      BY <2>5 DEF Loose
    <3>2. PICK twin \in resent : twin.from = ev.from /\ twin.n = ev.n
      BY <3>1 DEF Lost
    <3>3. twin \in Event
      BY DEF BridgeInv, BridgeTypes
    <3>4. twin = ev
      BY <3>2, <3>3 DEF Event
    <3> QED
      BY <3>1, <3>4 DEF Origin
  <2> QED
    BY <2>1, <2>4, <2>5
<1> QED
  BY <1>1, BridgeInvariant, PTL
=============================================================================
