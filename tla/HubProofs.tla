------------------------------ MODULE HubProofs ------------------------------
(***************************************************************************)
(* Proofs about one instance's hub, for every set of connections and rooms *)
(* and any capacities.  The select of the event loop takes the channels in *)
(* any order, so what makes it safe is the life of a connection: it passes *)
(* through register at most once and through unregister at most once, the  *)
(* second only when its read pump has ended, and a client whose send       *)
(* channel is closed is in neither.                                        *)
(***************************************************************************)
EXTENDS RealtimeHub, TLAPS

Distinct(q) == \A j, k \in 1 .. Len(q) : q[j] = q[k] => j = k

\* Where a connection can be at each point of its life.
Life(c) ==
    /\ InChannel(c, register) => c \notin clients /\ ~ At(c, "none") /\ ~ At(c, "enter")
    /\ InChannel(c, unregister) => At(c, "gone")
    /\ c \in clients => ~ At(c, "none") /\ ~ At(c, "enter")
    /\ c \in shut => /\ At(c, "gone") /\ c \notin clients
                     /\ ~ InChannel(c, register) /\ ~ InChannel(c, unregister)
    /\ c \notin clients \cup shut => joined[c] = {}

\* The loop does not close a channel while it delivers.
DeliversToClients == loop.pc = "send" => loop.to \subseteq clients

HubInv ==
    /\ TypeOK
    /\ RoomsMirrorClients
    /\ \A c \in Conns : Life(c)
    /\ Distinct(register) /\ Distinct(unregister)
    /\ DeliversToClients

ReaderState == [pc : {"none", "enter", "read", "leave", "gone"}]
               \cup [pc : {"authorize", "join"}, room : Rooms]

-----------------------------------------------------------------------------
(* The channels.                                                           *)

LEMMA AppendsTo ==
    ASSUME NEW S, NEW q \in Seq(S), NEW x \in S
    PROVE  /\ Append(q, x) \in Seq(S) /\ Len(Append(q, x)) = Len(q) + 1
           /\ \A c : InChannel(c, Append(q, x)) <=> InChannel(c, q) \/ c = x
           /\ Distinct(q) /\ ~ InChannel(x, q) => Distinct(Append(q, x))
<1>1. /\ Append(q, x) \in Seq(S) /\ Len(Append(q, x)) = Len(q) + 1 /\ Len(q) \in Nat
      /\ \A j \in 1 .. Len(q) : Append(q, x)[j] = q[j]
      /\ Append(q, x)[Len(q) + 1] = x
  OBVIOUS
<1>2. \A j \in 1 .. Len(q) + 1 : j \in 1 .. Len(q) \/ j = Len(q) + 1
  BY <1>1
<1>3. Len(q) + 1 \in 1 .. Len(q) + 1 /\ 1 .. Len(q) \subseteq 1 .. Len(q) + 1
  BY <1>1
<1>4. \A c : InChannel(c, Append(q, x)) <=> InChannel(c, q) \/ c = x
  BY <1>1, <1>2, <1>3 DEF InChannel
<1>5. Distinct(q) /\ ~ InChannel(x, q) => Distinct(Append(q, x))
  BY <1>1, <1>2 DEF Distinct, InChannel
<1> QED
  BY <1>1, <1>4, <1>5

LEMMA TakesFrom ==
    ASSUME NEW S, NEW q \in Seq(S), q # <<>>, Distinct(q)
    PROVE  /\ Head(q) \in S /\ InChannel(Head(q), q)
           /\ Tail(q) \in Seq(S) /\ Len(Tail(q)) = Len(q) - 1
           /\ Distinct(Tail(q))
           /\ \A c : InChannel(c, Tail(q)) <=> InChannel(c, q) /\ c # Head(q)
<1>1. /\ Len(q) \in Nat \ {0} /\ Head(q) = q[1] /\ Head(q) \in S
      /\ Tail(q) \in Seq(S) /\ Len(Tail(q)) = Len(q) - 1
      /\ \A j \in 1 .. Len(q) - 1 : Tail(q)[j] = q[j + 1]
  OBVIOUS
<1>2. /\ 1 \in 1 .. Len(q)
      /\ \A j \in 1 .. Len(q) - 1 : j + 1 \in 1 .. Len(q) /\ j + 1 # 1
      /\ \A j \in 1 .. Len(q) : j # 1 => j - 1 \in 1 .. Len(q) - 1 /\ (j - 1) + 1 = j
      /\ \A j, k \in 1 .. Len(q) - 1 : j + 1 = k + 1 => j = k
  BY <1>1
<1>3. InChannel(Head(q), q)
  BY <1>1, <1>2 DEF InChannel
<1>4. Distinct(Tail(q))
  BY <1>1, <1>2 DEF Distinct
<1>5. ASSUME NEW c
      PROVE  InChannel(c, Tail(q)) <=> InChannel(c, q) /\ c # Head(q)
  <2>1. ASSUME InChannel(c, Tail(q))
        PROVE  InChannel(c, q) /\ c # Head(q)
    BY <1>1, <1>2, <2>1 DEF InChannel, Distinct
  <2>2. ASSUME InChannel(c, q), c # Head(q)
        PROVE  InChannel(c, Tail(q))
    <3>1. PICK j \in 1 .. Len(q) : q[j] = c
      BY <2>2 DEF InChannel
    <3>2. j - 1 \in 1 .. Len(q) - 1 /\ Tail(q)[j - 1] = c
      BY <1>1, <1>2, <2>2, <3>1
    <3> QED
      BY <1>1, <3>2 DEF InChannel
  <2> QED
    BY <2>1, <2>2
<1> QED
  BY <1>1, <1>3, <1>4, <1>5

\* What a full channel drops leaves it as it was.
LEMMA EmitFits ==
    ASSUME TypeOK, NEW ev \in Event, emit(ev)
    PROVE  broadcast' \in Seq(Event) /\ Len(broadcast') <= BroadcastCap
<1>1. broadcast \in Seq(Event) /\ Len(broadcast) \in Nat /\ Len(broadcast) <= BroadcastCap
  BY DEF TypeOK
<1>2. CASE Len(broadcast) < BroadcastCap
  BY <1>1, <1>2, HubSide DEF emit
<1>3. CASE ~ (Len(broadcast) < BroadcastCap)
  BY <1>1, <1>3 DEF emit
<1> QED
  BY <1>2, <1>3

-----------------------------------------------------------------------------
(* Steps that move one goroutine only.                                     *)

LEMMA InitHub == Init => HubInv
<1> SUFFICES ASSUME Init
             PROVE  HubInv
  OBVIOUS
<1>1. TypeOK
  BY HubSide DEF Init, TypeOK, Selecting
<1>2. \A c : ~ InChannel(c, register) /\ ~ InChannel(c, unregister)
  BY DEF Init, InChannel
<1>3. Distinct(register) /\ Distinct(unregister)
  BY DEF Init, Distinct
<1> QED
  BY <1>1, <1>2, <1>3 DEF Init, HubInv, RoomsMirrorClients, Life, DeliversToClients, Selecting

\* What matters to the invariant but its types is left alone.
LEMMA MapsAside ==
    ASSUME HubInv, TypeOK', UNCHANGED <<maps, register, unregister, shut, reader>>,
           loop'.pc = "send" => loop'.to \subseteq clients
    PROVE  HubInv'
<1>1. \A c \in Conns : Life(c)'
  BY DEF HubInv, Life, maps, At, InChannel
<1> QED
  BY <1>1 DEF HubInv, RoomsMirrorClients, Distinct, DeliversToClients, maps

\* A read pump goes on.
LEMMA ReaderMoves ==
    ASSUME HubInv, NEW c \in Conns, NEW state \in ReaderState, Reads(c, state),
           state.pc \in {"none", "enter"} => At(c, "none") \/ At(c, "enter"),
           ~ At(c, "gone"),
           UNCHANGED <<maps, channels, send, shut, writer, loop>>,
           socket' \in [Conns -> {"none", "open", "broken"}]
    PROVE  HubInv'
<1>1. TypeOK'
  BY DEF HubInv, TypeOK, Reads, ReaderState, maps, channels
<1>2. \A d \in Conns : reader'[d] = IF d = c THEN state ELSE reader[d]
  BY DEF HubInv, TypeOK, Reads
<1>3. \A d \in Conns : Life(d)'
  BY <1>2 DEF HubInv, Life, maps, channels, At, InChannel
<1> QED
  BY <1>1, <1>3 DEF HubInv, RoomsMirrorClients, Distinct, DeliversToClients, maps, channels

LEMMA UpgradeKeeps ==
    ASSUME HubInv, NEW c \in Conns, Upgrade(c)
    PROVE  HubInv'
<1>1. [pc |-> "enter"] \in ReaderState /\ [pc |-> "enter"].pc = "enter"
  BY DEF ReaderState
<1>2. socket' \in [Conns -> {"none", "open", "broken"}]
  BY DEF HubInv, TypeOK, Upgrade
<1> QED
  BY <1>1, <1>2, ReaderMoves DEF Upgrade, At

LEMMA SubscribeKeeps ==
    ASSUME HubInv, NEW c \in Conns, NEW r \in Rooms, Subscribe(c, r)
    PROVE  HubInv'
<1>1. /\ [pc |-> "authorize", room |-> r] \in ReaderState
      /\ [pc |-> "authorize", room |-> r].pc = "authorize"
  BY DEF ReaderState
<1>2. socket' \in [Conns -> {"none", "open", "broken"}]
  BY DEF HubInv, TypeOK, Subscribe
<1> QED
  BY <1>1, <1>2, ReaderMoves DEF Subscribe, At

LEMMA AuthorizeKeeps ==
    ASSUME HubInv, NEW c \in Conns, Authorize(c)
    PROVE  HubInv'
<1>1. reader[c] \in [pc : {"authorize", "join"}, room : Rooms]
  BY DEF HubInv, TypeOK, Authorize, At
<1>2. /\ [reader[c] EXCEPT !.pc = "join"] \in ReaderState
      /\ [reader[c] EXCEPT !.pc = "join"].pc = "join"
      /\ [pc |-> "read"] \in ReaderState /\ [pc |-> "read"].pc = "read"
  BY <1>1 DEF ReaderState
<1>3. socket' \in [Conns -> {"none", "open", "broken"}]
  BY DEF HubInv, TypeOK, Authorize
<1> QED
  BY <1>2, <1>3, ReaderMoves DEF Authorize, At

LEMMA ReadFailsKeeps ==
    ASSUME HubInv, NEW c \in Conns, ReadFails(c)
    PROVE  HubInv'
<1>1. [pc |-> "leave"] \in ReaderState /\ [pc |-> "leave"].pc = "leave"
  BY DEF ReaderState
<1>2. socket' \in [Conns -> {"none", "open", "broken"}]
  BY DEF HubInv, TypeOK, ReadFails
<1> QED
  BY <1>1, <1>2, ReaderMoves DEF ReadFails, At

LEMMA PingKeeps ==
    ASSUME HubInv, NEW c \in Conns, Ping(c)
    PROVE  HubInv'
<1>1. TypeOK'
  BY HubSide DEF HubInv, TypeOK, Ping, maps, channels
<1> QED
  BY <1>1, MapsAside DEF Ping, HubInv, DeliversToClients, channels

LEMMA BreakKeeps ==
    ASSUME HubInv, NEW c \in Conns, Break(c)
    PROVE  HubInv'
<1>1. TypeOK'
  BY DEF HubInv, TypeOK, Break, maps, channels
<1> QED
  BY <1>1, MapsAside DEF Break, HubInv, DeliversToClients, channels

LEMMA PumpKeeps ==
    ASSUME HubInv, NEW c \in Conns, Pump(c)
    PROVE  HubInv'
<1>1. send' \in [Conns -> 0 .. SendCap]
  BY HubSide DEF HubInv, TypeOK, Pump
<1>2. /\ writer' \in [Conns -> {"none", "run", "done"}]
      /\ socket' \in [Conns -> {"none", "open", "broken"}]
  BY DEF HubInv, TypeOK, Pump
<1>3. TypeOK'
  BY <1>1, <1>2 DEF HubInv, TypeOK, Pump, maps, channels
<1> QED
  BY <1>3, MapsAside DEF Pump, HubInv, DeliversToClients, channels

LEMMA BroadcastKeeps ==
    ASSUME HubInv, NEW ev \in Handled, BroadcastToRoom(ev)
    PROVE  HubInv'
<1>1. ev \in Event
  BY HubSide DEF Event
<1>2. TypeOK'
  BY <1>1, EmitFits DEF HubInv, TypeOK, BroadcastToRoom, maps
<1> QED
  BY <1>2, MapsAside DEF BroadcastToRoom, HubInv, DeliversToClients

-----------------------------------------------------------------------------
(* Deliveries.                                                             *)

LEMMA HandleBroadcastKeeps ==
    ASSUME HubInv, handleBroadcast
    PROVE  HubInv'
<1> DEFINE to == {c \in rooms[Head(broadcast).room] : Member[c] # Head(broadcast).actor}
<1>1. /\ broadcast \in Seq(Event) /\ broadcast # <<>> /\ Len(broadcast) <= BroadcastCap
      /\ loop' = [pc |-> "send", to |-> to] /\ broadcast' = Tail(broadcast)
      /\ UNCHANGED <<maps, register, unregister, send, shut, socket, reader, writer>>
  BY DEF HubInv, TypeOK, handleBroadcast
<1>2. /\ Head(broadcast) \in Event /\ broadcast' \in Seq(Event)
      /\ Len(broadcast') <= BroadcastCap
  BY <1>1, HubSide
<1>3. to \subseteq clients
  BY <1>2 DEF HubInv, RoomsMirrorClients, Event
<1> HIDE DEF to
<1>4. TypeOK'
  BY <1>1, <1>2, <1>3 DEF HubInv, TypeOK, maps
<1> QED
  BY <1>1, <1>3, <1>4, MapsAside

LEMMA SendToKeeps ==
    ASSUME HubInv, NEW c \in Conns, SendTo(c)
    PROVE  HubInv'
<1>1. /\ loop \in [pc : {"send"}, to : SUBSET Conns] /\ loop.to \subseteq clients
      /\ loop' = [loop EXCEPT !.to = @ \ {c}]
  BY DEF HubInv, TypeOK, DeliversToClients, SendTo, Selecting
<1>2. loop' \in [pc : {"send"}, to : SUBSET Conns] /\ loop'.to \subseteq clients
  BY <1>1
<1>3. send' \in [Conns -> 0 .. SendCap]
  BY HubSide DEF HubInv, TypeOK, SendTo
<1>4. TypeOK'
  BY <1>2, <1>3 DEF HubInv, TypeOK, SendTo, maps, channels
<1> QED
  BY <1>2, <1>4, MapsAside DEF SendTo, channels

LEMMA SendDoneKeeps ==
    ASSUME HubInv, SendDone
    PROVE  HubInv'
<1>1. TypeOK'
  BY DEF HubInv, TypeOK, SendDone, maps, channels
<1> QED
  BY <1>1, MapsAside DEF SendDone, Selecting, channels

-----------------------------------------------------------------------------
(* The maps.                                                               *)

\* The loop takes a connection in: it is nowhere in the maps before.
LEMMA RegisterKeeps ==
    ASSUME HubInv, handleRegister
    PROVE  HubInv'
<1>c. PICK c : c = Head(register)
  OBVIOUS
<1> DEFINE home == HomeRoom[c]
<1>1. /\ register \in Seq(Conns) /\ register # <<>> /\ Len(register) <= QueueCap
      /\ Distinct(register) /\ register' = Tail(register)
      /\ clients' = clients \cup {c}
      /\ joined' = [joined EXCEPT ![c] = @ \cup {home}]
      /\ rooms' = [rooms EXCEPT ![home] = @ \cup {c}]
      /\ emit([room |-> home, actor |-> Member[c]])
      /\ loop = Selecting
      /\ UNCHANGED <<unregister, send, shut, socket, reader, writer, loop>>
  BY <1>c DEF HubInv, TypeOK, handleRegister
<1>2. /\ c \in Conns /\ InChannel(c, register) /\ register' \in Seq(Conns)
      /\ Len(register') = Len(register) - 1 /\ Distinct(register')
      /\ \A d : InChannel(d, register') <=> InChannel(d, register) /\ d # c
  BY <1>1, <1>c, TakesFrom
<1>3. home \in Rooms /\ [room |-> home, actor |-> Member[c]] \in Event
  BY <1>2, HubSide DEF Event
<1> HIDE DEF home
<1>4. c \notin clients /\ c \notin shut /\ joined[c] = {} /\ ~ At(c, "none") /\ ~ At(c, "enter")
  BY <1>2 DEF HubInv, Life
<1>5. TypeOK'
  <2>1. broadcast' \in Seq(Event) /\ Len(broadcast') <= BroadcastCap
    BY <1>1, <1>3, EmitFits DEF HubInv
  <2>2. Len(register') <= QueueCap
    <3>1. Len(register) \in Nat
      BY <1>1
    <3> QED
      BY <1>1, <1>2, <3>1, HubSide
  <2> QED
    BY <1>1, <1>2, <1>3, <2>1, <2>2 DEF HubInv, TypeOK
<1>6. RoomsMirrorClients'
  BY <1>1, <1>2, <1>3, <1>4 DEF HubInv, RoomsMirrorClients, TypeOK
<1>7. \A d \in Conns : Life(d)'
  <2>1. \A d \in Conns : d # c => joined'[d] = joined[d]
    BY <1>1 DEF HubInv, TypeOK
  <2>2. \A d \in Conns : Life(d)
    BY DEF HubInv
  <2>3. Life(c)'
    BY <1>1, <1>2, <1>4, <2>2 DEF Life, At
  <2>4. \A d \in Conns : d # c => Life(d)'
    BY <1>1, <1>2, <2>1, <2>2 DEF Life, At
  <2> QED
    BY <2>3, <2>4
<1> QED
  BY <1>1, <1>2, <1>5, <1>6, <1>7 DEF HubInv, Distinct, DeliversToClients, Selecting

\* It lets one go: whoever it knows leaves every room.
LEMMA UnregisterKeeps ==
    ASSUME HubInv, handleUnregister
    PROVE  HubInv'
<1>c. PICK c : c = Head(unregister)
  OBVIOUS
<1>1. /\ unregister \in Seq(Conns) /\ unregister # <<>> /\ Len(unregister) <= QueueCap
      /\ Distinct(unregister) /\ unregister' = Tail(unregister)
      /\ loop = Selecting
      /\ UNCHANGED <<joined, register, send, socket, reader, writer, loop>>
      /\ \/ /\ c \in clients /\ clients' = clients \ {c}
            /\ rooms' = [r \in Rooms |-> IF r \in joined[c] THEN rooms[r] \ {c} ELSE rooms[r]]
            /\ shut' = shut \cup {c}
            /\ emit([room |-> HomeRoom[c], actor |-> Member[c]])
         \/ c \notin clients /\ UNCHANGED <<clients, rooms, shut, broadcast>>
  BY <1>c DEF HubInv, TypeOK, handleUnregister
<1>2. /\ c \in Conns /\ InChannel(c, unregister) /\ unregister' \in Seq(Conns)
      /\ Len(unregister') = Len(unregister) - 1 /\ Distinct(unregister')
      /\ \A d : InChannel(d, unregister') <=> InChannel(d, unregister) /\ d # c
  BY <1>1, <1>c, TakesFrom
<1>3. [room |-> HomeRoom[c], actor |-> Member[c]] \in Event
  BY <1>2, HubSide DEF Event
<1>4. /\ At(c, "gone") /\ c \notin shut /\ (c \in clients => ~ InChannel(c, register))
      /\ \A d \in Conns : Life(d)
  BY <1>2 DEF HubInv, Life
<1>5. Len(unregister') <= QueueCap
  <2>1. Len(unregister) \in Nat
    BY <1>1
  <2> QED
    BY <1>1, <1>2, <2>1, HubSide
<1>6. CASE c \notin clients /\ UNCHANGED <<clients, rooms, shut, broadcast>>
  <2>1. TypeOK'
    BY <1>1, <1>2, <1>5, <1>6 DEF HubInv, TypeOK
  <2>2. \A d \in Conns : Life(d)'
    BY <1>1, <1>2, <1>4, <1>6 DEF Life, At
  <2> QED
    BY <1>1, <1>2, <1>6, <2>1, <2>2
       DEF HubInv, RoomsMirrorClients, Distinct, DeliversToClients, Selecting
<1>7. CASE /\ c \in clients /\ clients' = clients \ {c}
           /\ rooms' = [r \in Rooms |-> IF r \in joined[c] THEN rooms[r] \ {c} ELSE rooms[r]]
           /\ shut' = shut \cup {c}
           /\ emit([room |-> HomeRoom[c], actor |-> Member[c]])
  <2>1. TypeOK'
    <3>1. broadcast' \in Seq(Event) /\ Len(broadcast') <= BroadcastCap
      BY <1>3, <1>7, EmitFits DEF HubInv
    <3>2. rooms' \in [Rooms -> SUBSET Conns]
      BY <1>7 DEF HubInv, TypeOK
    <3>3. clients' \subseteq Conns /\ shut' \subseteq Conns
      BY <1>2, <1>7 DEF HubInv, TypeOK
    <3> QED
      BY <1>1, <1>2, <1>5, <3>1, <3>2, <3>3 DEF HubInv, TypeOK
  <2>2. RoomsMirrorClients'
    BY <1>1, <1>7 DEF HubInv, RoomsMirrorClients
  <2>3. Life(c)'
    BY <1>1, <1>2, <1>4, <1>7 DEF Life, At
  <2>4. \A d \in Conns : d # c => Life(d)'
    BY <1>1, <1>2, <1>4, <1>7 DEF Life, At
  <2> QED
    BY <1>1, <1>2, <2>1, <2>2, <2>3, <2>4
       DEF HubInv, Distinct, DeliversToClients, Selecting
<1> QED
  BY <1>1, <1>6, <1>7

\* A client the lock finds in the map joins; its read pump goes on.
LEMMA JoinKeeps ==
    ASSUME HubInv, NEW c \in Conns, Join(c)
    PROVE  HubInv'
<1> DEFINE r == reader[c].room
<1>1. /\ At(c, "join") /\ r \in Rooms
      /\ \/ /\ c \in clients
            /\ joined' = [joined EXCEPT ![c] = @ \cup {r}]
            /\ rooms' = [rooms EXCEPT ![r] = @ \cup {c}]
         \/ UNCHANGED <<joined, rooms>>
      /\ Reads(c, [pc |-> "read"])
      /\ UNCHANGED <<clients, channels, send, shut, socket, writer, loop>>
  BY DEF HubInv, TypeOK, Join, At
<1> HIDE DEF r
<1>2. [pc |-> "read"] \in ReaderState /\ [pc |-> "read"].pc = "read"
  BY DEF ReaderState
<1>3. CASE UNCHANGED <<joined, rooms>>
  <2>1. socket' \in [Conns -> {"none", "open", "broken"}]
    BY <1>1 DEF HubInv, TypeOK
  <2> QED
    BY <1>1, <1>2, <1>3, <2>1, ReaderMoves DEF At, maps
<1>4. CASE /\ c \in clients
           /\ joined' = [joined EXCEPT ![c] = @ \cup {r}]
           /\ rooms' = [rooms EXCEPT ![r] = @ \cup {c}]
  <2>1. \A d \in Conns : reader'[d] = IF d = c THEN [pc |-> "read"] ELSE reader[d]
    BY <1>1 DEF HubInv, TypeOK, Reads
  <2>2. /\ joined' \in [Conns -> SUBSET Rooms] /\ rooms' \in [Rooms -> SUBSET Conns]
        /\ \A d \in Conns : d # c => joined'[d] = joined[d]
    BY <1>1, <1>4 DEF HubInv, TypeOK
  <2>3. TypeOK'
    BY <1>1, <1>2, <2>2 DEF HubInv, TypeOK, Reads, ReaderState, channels
  <2>4. RoomsMirrorClients'
    BY <1>1, <1>4 DEF HubInv, RoomsMirrorClients, TypeOK
  <2>5. \A d \in Conns : Life(d)'
    BY <1>1, <1>2, <1>4, <2>1, <2>2 DEF HubInv, Life, At, channels
  <2> QED
    BY <1>1, <2>3, <2>4, <2>5 DEF HubInv, Distinct, DeliversToClients, channels
<1> QED
  BY <1>1, <1>3, <1>4

LEMMA UnsubscribeKeeps ==
    ASSUME HubInv, NEW c \in Conns, NEW r \in Rooms, Unsubscribe(c, r)
    PROVE  HubInv'
<1>1. /\ joined' = IF c \in clients THEN [joined EXCEPT ![c] = @ \ {r}] ELSE joined
      /\ rooms' = [rooms EXCEPT ![r] = @ \ {c}]
      /\ UNCHANGED <<clients, channels, send, shut, socket, reader, writer, loop>>
  BY DEF Unsubscribe
<1>2. TypeOK'
  BY <1>1 DEF HubInv, TypeOK, channels
<1>3. RoomsMirrorClients'
  BY <1>1 DEF HubInv, RoomsMirrorClients, TypeOK
<1>4. \A d \in Conns : Life(d)'
  <2>1. \A d \in Conns : joined'[d] = joined[d] \/ (d = c /\ c \in clients)
    BY <1>1 DEF HubInv, TypeOK
  <2> QED
    BY <1>1, <2>1 DEF HubInv, Life, At, InChannel, channels
<1> QED
  BY <1>1, <1>2, <1>3, <1>4 DEF HubInv, Distinct, DeliversToClients, channels

-----------------------------------------------------------------------------
(* The two ends of a connection's life.                                    *)

LEMMA EnterKeeps ==
    ASSUME HubInv, NEW c \in Conns, Enter(c)
    PROVE  HubInv'
<1>1. /\ At(c, "enter") /\ Len(register) < QueueCap /\ register' = Append(register, c)
      /\ Reads(c, [pc |-> "read"]) /\ writer' = [writer EXCEPT ![c] = "run"]
      /\ UNCHANGED <<maps, unregister, broadcast, send, shut, socket, loop>>
      /\ register \in Seq(Conns)
  BY DEF HubInv, TypeOK, Enter
<1>2. /\ c \notin clients /\ c \notin shut /\ ~ InChannel(c, register) /\ ~ InChannel(c, unregister)
  BY <1>1 DEF HubInv, Life, At
<1>3. /\ register' \in Seq(Conns) /\ Len(register') = Len(register) + 1
      /\ \A d : InChannel(d, register') <=> InChannel(d, register) \/ d = c
      /\ Distinct(register')
  BY <1>1, <1>2, AppendsTo DEF HubInv
<1>4. /\ \A d \in Conns : reader'[d] = IF d = c THEN [pc |-> "read"] ELSE reader[d]
      /\ [pc |-> "read"].pc = "read"
  BY <1>1 DEF HubInv, TypeOK, Reads
<1>5. TypeOK'
  <2>1. Len(register') <= QueueCap
    <3>1. Len(register) \in Nat
      BY <1>1
    <3> QED
      BY <1>1, <1>3, <3>1, HubSide
  <2> QED
    BY <1>1, <1>3, <2>1 DEF HubInv, TypeOK, Reads, maps
<1>6. \A d \in Conns : Life(d)'
  BY <1>1, <1>2, <1>3, <1>4 DEF HubInv, Life, At, InChannel, maps
<1> QED
  BY <1>1, <1>3, <1>5, <1>6 DEF HubInv, RoomsMirrorClients, Distinct, DeliversToClients, maps

LEMMA LeaveKeeps ==
    ASSUME HubInv, NEW c \in Conns, Leave(c)
    PROVE  HubInv'
<1>1. /\ At(c, "leave") /\ Len(unregister) < QueueCap /\ unregister' = Append(unregister, c)
      /\ Reads(c, [pc |-> "gone"])
      /\ UNCHANGED <<maps, register, broadcast, send, shut, socket, writer, loop>>
      /\ unregister \in Seq(Conns)
  BY DEF HubInv, TypeOK, Leave
<1>2. c \notin shut /\ ~ InChannel(c, unregister)
  BY <1>1 DEF HubInv, Life, At
<1>3. /\ unregister' \in Seq(Conns) /\ Len(unregister') = Len(unregister) + 1
      /\ \A d : InChannel(d, unregister') <=> InChannel(d, unregister) \/ d = c
      /\ Distinct(unregister')
  BY <1>1, <1>2, AppendsTo DEF HubInv
<1>4. /\ \A d \in Conns : reader'[d] = IF d = c THEN [pc |-> "gone"] ELSE reader[d]
      /\ [pc |-> "gone"].pc = "gone"
  BY <1>1 DEF HubInv, TypeOK, Reads
<1>5. TypeOK'
  <2>1. Len(unregister') <= QueueCap
    <3>1. Len(unregister) \in Nat
      BY <1>1
    <3> QED
      BY <1>1, <1>3, <3>1, HubSide
  <2> QED
    BY <1>1, <1>3, <2>1 DEF HubInv, TypeOK, Reads, maps
<1>6. \A d \in Conns : Life(d)'
  BY <1>1, <1>2, <1>3, <1>4 DEF HubInv, Life, At, InChannel, maps
<1> QED
  BY <1>1, <1>3, <1>5, <1>6 DEF HubInv, RoomsMirrorClients, Distinct, DeliversToClients, maps

\* A slot that nothing holds is as it was before the first connection.
LEMMA ReuseKeeps ==
    ASSUME HubInv, NEW c \in Conns, Reuse(c)
    PROVE  HubInv'
<1>1. /\ c \notin clients /\ ~ InChannel(c, register) /\ ~ InChannel(c, unregister)
      /\ Reads(c, [pc |-> "none"])
      /\ joined' = [joined EXCEPT ![c] = {}]
      /\ send' = [send EXCEPT ![c] = 0]
      /\ shut' = shut \ {c}
      /\ socket' = [socket EXCEPT ![c] = "none"]
      /\ writer' = [writer EXCEPT ![c] = "none"]
      /\ UNCHANGED <<clients, rooms, channels, loop>>
  BY DEF Reuse
<1>2. /\ \A d \in Conns : reader'[d] = IF d = c THEN [pc |-> "none"] ELSE reader[d]
      /\ [pc |-> "none"].pc = "none"
      /\ \A d \in Conns : joined'[d] = IF d = c THEN {} ELSE joined[d]
  BY <1>1 DEF HubInv, TypeOK, Reads
<1>3. TypeOK'
  BY <1>1, HubSide DEF HubInv, TypeOK, Reads, channels
<1>4. RoomsMirrorClients'
  BY <1>1, <1>2 DEF HubInv, RoomsMirrorClients, TypeOK
<1>5. \A d \in Conns : Life(d)'
  BY <1>1, <1>2 DEF HubInv, Life, At, InChannel, channels
<1> QED
  BY <1>1, <1>3, <1>4, <1>5 DEF HubInv, Distinct, DeliversToClients, channels

-----------------------------------------------------------------------------

LEMMA HubStep ==
    ASSUME HubInv, [Next]_vars
    PROVE  HubInv'
<1>1. CASE Run
  BY <1>1, RegisterKeeps, UnregisterKeeps, HandleBroadcastKeeps, SendDoneKeeps, SendToKeeps DEF Run
<1>2. ASSUME NEW c \in Conns, Pumps(c)
      PROVE  HubInv'
  BY <1>2, EnterKeeps, AuthorizeKeeps, JoinKeeps, ReadFailsKeeps, LeaveKeeps, PumpKeeps DEF Pumps
<1>3. ASSUME NEW c \in Conns, Upgrade(c) \/ Break(c) \/ Ping(c) \/ Reuse(c)
      PROVE  HubInv'
  BY <1>3, UpgradeKeeps, BreakKeeps, PingKeeps, ReuseKeeps
<1>4. ASSUME NEW c \in Conns, NEW r \in Rooms, Subscribe(c, r) \/ Unsubscribe(c, r)
      PROVE  HubInv'
  BY <1>4, SubscribeKeeps, UnsubscribeKeeps
<1>5. ASSUME NEW ev \in Handled, BroadcastToRoom(ev)
      PROVE  HubInv'
  BY <1>5, BroadcastKeeps
<1>6. CASE UNCHANGED vars
  <2>1. TypeOK'
    BY <1>6 DEF HubInv, TypeOK, vars, maps, channels
  <2> QED
    BY <1>6, <2>1, MapsAside DEF HubInv, DeliversToClients, vars, channels
<1> QED
  BY <1>1, <1>2, <1>3, <1>4, <1>5, <1>6 DEF Next

\* The parts hold in every reachable state of the hub.
THEOREM HubInvariant == Spec => []HubInv
<1> QED
  BY InitHub, HubStep, PTL DEF Spec

\* Every variable keeps its type, and no channel exceeds its capacity.
THEOREM TypesOfHub == Spec => []TypeOK
<1>1. HubInv => TypeOK
  BY DEF HubInv
<1> QED
  BY <1>1, HubInvariant, PTL

\* h.rooms and the clients' own rooms agree, through subscriptions that race
\* an unregister: a client that left is in no room.
THEOREM RoomsMirror == Spec => []RoomsMirrorClients
<1>1. HubInv => RoomsMirrorClients
  BY DEF HubInv
<1> QED
  BY <1>1, HubInvariant, PTL

\* When handleUnregister closes c.send the read pump has ended and neither the
\* maps nor a delivery in progress leads to the client: no send panics.
THEOREM ClosedIsUnreachable == Spec => []NoSendOnClosed
<1>1. HubInv => NoSendOnClosed
  BY DEF HubInv, TypeOK, Life, RoomsMirrorClients, DeliversToClients, NoSendOnClosed
<1> QED
  BY <1>1, HubInvariant, PTL
=============================================================================
