----------------------------- MODULE RealtimeHub -----------------------------
(***************************************************************************)
(* One instance's WebSocket hub (internal/realtime/hub.go).  An event loop  *)
(* selects over three buffered channels - register, unregister, broadcast - *)
(* and a select with several ready takes any of them.  Every connection has *)
(* a read pump, which subscribes, pings and at the end unregisters, and a   *)
(* write pump, which drains the connection's send buffer.  The pumps and    *)
(* the loop meet in the clients and rooms maps under one lock, in the       *)
(* channels and in the send buffers.                                        *)
(*                                                                         *)
(* A queued message is a count: its content never decides anything here.    *)
(* RealtimeBridge models the fan-out to the other instances.                *)
(***************************************************************************)
EXTENDS Naturals, Sequences, FiniteSets

CONSTANTS
    Conns,        \* connections; a closed one's slot serves a later one
    Rooms,
    HomeRoom,     \* connection |-> the room of its workspace
    Allowed,      \* pairs authorizeRoom grants
    Member,       \* connection |-> the member behind it
    Members,
    Handled,      \* events the request handlers emit
    QueueCap,     \* capacity of the register and unregister channels
    BroadcastCap, \* of the broadcast channel
    SendCap       \* of a connection's send buffer

ASSUME HubSide ==
    /\ HomeRoom \in [Conns -> Rooms]
    /\ Allowed \subseteq Conns \X Rooms
    /\ Member \in [Conns -> Members]
    /\ Handled \subseteq [room : Rooms, actor : Members]
    /\ QueueCap \in Nat \ {0} /\ BroadcastCap \in Nat \ {0} /\ SendCap \in Nat \ {0}

VARIABLES
    clients,    \* h.clients
    rooms,      \* h.rooms: room |-> the clients in it
    joined,     \* c.rooms: client |-> its rooms
    register, unregister, broadcast,   \* the channels
    send,       \* client |-> messages queued in c.send
    shut,       \* clients whose c.send is closed
    socket,     \* connection |-> none, open or broken
    reader, writer,
    loop        \* the event loop

maps == <<clients, rooms, joined>>
channels == <<register, unregister, broadcast>>
vars == <<maps, channels, send, shut, socket, reader, writer, loop>>

Event == [room : Rooms, actor : Members]

Selecting == [pc |-> "select"]

TypeOK ==
    /\ clients \subseteq Conns
    /\ rooms \in [Rooms -> SUBSET Conns]
    /\ joined \in [Conns -> SUBSET Rooms]
    /\ register \in Seq(Conns) /\ Len(register) <= QueueCap
    /\ unregister \in Seq(Conns) /\ Len(unregister) <= QueueCap
    /\ broadcast \in Seq(Event) /\ Len(broadcast) <= BroadcastCap
    /\ send \in [Conns -> 0 .. SendCap]
    /\ shut \subseteq Conns
    /\ socket \in [Conns -> {"none", "open", "broken"}]
    /\ reader \in [Conns -> [pc : {"none", "enter", "read", "leave", "gone"}]
                            \cup [pc : {"authorize", "join"}, room : Rooms]]
    /\ writer \in [Conns -> {"none", "run", "done"}]
    /\ loop \in {Selecting} \cup [pc : {"send"}, to : SUBSET Conns]

Init ==
    /\ clients = {} /\ shut = {}
    /\ rooms = [r \in Rooms |-> {}]
    /\ joined = [c \in Conns |-> {}]
    /\ register = <<>> /\ unregister = <<>> /\ broadcast = <<>>
    /\ send = [c \in Conns |-> 0]
    /\ socket = [c \in Conns |-> "none"]
    /\ reader = [c \in Conns |-> [pc |-> "none"]]
    /\ writer = [c \in Conns |-> "none"]
    /\ loop = Selecting

Reads(c, state) == reader' = [reader EXCEPT ![c] = state]
At(c, p) == reader[c].pc = p

\* emit's local half: queued, or dropped when the channel is full.
emit(ev) ==
    broadcast' = IF Len(broadcast) < BroadcastCap THEN Append(broadcast, ev) ELSE broadcast

-----------------------------------------------------------------------------
(* The event loop.                                                         *)

\* Fault: emit waits for room in the channel the loop itself drains.
handleRegisterBlocking ==
    /\ loop = Selecting /\ register # <<>>
    /\ LET c == Head(register)
           home == HomeRoom[c]
       IN  /\ clients' = clients \cup {c}
           /\ joined' = [joined EXCEPT ![c] = @ \cup {home}]
           /\ rooms' = [rooms EXCEPT ![home] = @ \cup {c}]
           /\ emit([room |-> home, actor |-> Member[c]])
    /\ loop' = IF Len(broadcast) < BroadcastCap THEN loop ELSE [pc |-> "blocked"]
    /\ register' = Tail(register)
    /\ UNCHANGED <<unregister, send, shut, socket, reader, writer>>

handleRegister ==
    /\ loop = Selecting /\ register # <<>>
    /\ LET c == Head(register)
           home == HomeRoom[c]
       IN  /\ clients' = clients \cup {c}
           /\ joined' = [joined EXCEPT ![c] = @ \cup {home}]
           /\ rooms' = [rooms EXCEPT ![home] = @ \cup {c}]
           /\ emit([room |-> home, actor |-> Member[c]])
    /\ register' = Tail(register)
    /\ UNCHANGED <<unregister, send, shut, socket, reader, writer, loop>>

\* Fault: only the workspace room is left.
handleUnregisterHomeOnly ==
    /\ loop = Selecting /\ unregister # <<>>
    /\ LET c == Head(unregister)
           home == HomeRoom[c]
       IN  IF c \in clients
             THEN /\ clients' = clients \ {c}
                  /\ rooms' = [rooms EXCEPT ![home] = @ \ {c}]
                  /\ shut' = shut \cup {c}
                  /\ emit([room |-> home, actor |-> Member[c]])
             ELSE UNCHANGED <<clients, rooms, shut, broadcast>>
    /\ unregister' = Tail(unregister)
    /\ UNCHANGED <<joined, register, send, socket, reader, writer, loop>>

\* A client the loop does not know is ignored; one it knows leaves every room
\* and has its send channel closed.
handleUnregister ==
    /\ loop = Selecting /\ unregister # <<>>
    /\ LET c == Head(unregister)
       IN  IF c \in clients
             THEN /\ clients' = clients \ {c}
                  /\ rooms' = [r \in Rooms |->
                                IF r \in joined[c] THEN rooms[r] \ {c} ELSE rooms[r]]
                  /\ shut' = shut \cup {c}
                  /\ emit([room |-> HomeRoom[c], actor |-> Member[c]])
             ELSE UNCHANGED <<clients, rooms, shut, broadcast>>
    /\ unregister' = Tail(unregister)
    /\ UNCHANGED <<joined, register, send, socket, reader, writer, loop>>

\* The recipients are collected under the read lock; the actor is not one.
handleBroadcast ==
    /\ loop = Selecting /\ broadcast # <<>>
    /\ LET ev == Head(broadcast)
       IN  loop' = [pc |-> "send", to |-> {c \in rooms[ev.room] : Member[c] # ev.actor}]
    /\ broadcast' = Tail(broadcast)
    /\ UNCHANGED <<maps, register, unregister, send, shut, socket, reader, writer>>

\* Then each gets the message, or loses it when its buffer is full.
SendTo(c) ==
    /\ loop.pc = "send" /\ c \in loop.to
    /\ send' = [send EXCEPT ![c] = IF @ < SendCap THEN @ + 1 ELSE @]
    /\ loop' = [loop EXCEPT !.to = @ \ {c}]
    /\ UNCHANGED <<maps, channels, shut, socket, reader, writer>>

SendDone ==
    /\ loop.pc = "send" /\ loop.to = {}
    /\ loop' = Selecting
    /\ UNCHANGED <<maps, channels, send, shut, socket, reader, writer>>

Run ==
    \/ handleRegister \/ handleUnregister \/ handleBroadcast
    \/ SendDone \/ \E c \in Conns : SendTo(c)

-----------------------------------------------------------------------------
(* A connection.                                                           *)

\* ServeWS upgrades; the slot must have been forgotten by everyone.
Upgrade(c) ==
    /\ At(c, "none")
    /\ socket' = [socket EXCEPT ![c] = "open"]
    /\ Reads(c, [pc |-> "enter"])
    /\ UNCHANGED <<maps, channels, send, shut, writer, loop>>

\* h.register <- client blocks while the channel is full; then both pumps
\* start, and do not wait for the loop.
Enter(c) ==
    /\ At(c, "enter")
    /\ Len(register) < QueueCap
    /\ register' = Append(register, c)
    /\ Reads(c, [pc |-> "read"])
    /\ writer' = [writer EXCEPT ![c] = "run"]
    /\ UNCHANGED <<maps, unregister, broadcast, send, shut, socket, loop>>

\* Subscribe's look-up under the read lock; an unknown client is refused, and
\* not told.
Subscribe(c, r) ==
    /\ At(c, "read") /\ socket[c] = "open"
    /\ c \in clients
    /\ Reads(c, [pc |-> "authorize", room |-> r])
    /\ UNCHANGED <<maps, channels, send, shut, socket, writer, loop>>

\* authorizeRoom, outside the lock; a failed look-up denies.
Authorize(c) ==
    /\ At(c, "authorize")
    /\ \/ <<c, reader[c].room>> \in Allowed /\ Reads(c, [reader[c] EXCEPT !.pc = "join"])
       \/ Reads(c, [pc |-> "read"])
    /\ UNCHANGED <<maps, channels, send, shut, socket, writer, loop>>

\* Fault: the client's own set forgotten.
JoinRoomOnly(c) ==
    /\ At(c, "join")
    /\ LET r == reader[c].room
       IN  /\ joined' = joined
           /\ rooms' = [rooms EXCEPT ![r] = @ \cup {c}]
    /\ Reads(c, [pc |-> "read"])
    /\ UNCHANGED <<clients, channels, send, shut, socket, writer, loop>>

\* Subscribe's second critical section, which looks the client up again.
Join(c) ==
    /\ At(c, "join")
    /\ LET r == reader[c].room
       IN  IF c \in clients
             THEN /\ joined' = [joined EXCEPT ![c] = @ \cup {r}]
                  /\ rooms' = [rooms EXCEPT ![r] = @ \cup {c}]
             ELSE UNCHANGED <<joined, rooms>>
    /\ Reads(c, [pc |-> "read"])
    /\ UNCHANGED <<clients, channels, send, shut, socket, writer, loop>>

Unsubscribe(c, r) ==
    /\ At(c, "read") /\ socket[c] = "open"
    /\ joined' = IF c \in clients THEN [joined EXCEPT ![c] = @ \ {r}] ELSE joined
    /\ rooms' = [rooms EXCEPT ![r] = @ \ {c}]
    /\ UNCHANGED <<clients, channels, send, shut, socket, reader, writer, loop>>

\* The pong goes through the send buffer, or is dropped.
Ping(c) ==
    /\ At(c, "read") /\ socket[c] = "open"
    /\ send[c] < SendCap
    /\ send' = [send EXCEPT ![c] = @ + 1]
    /\ UNCHANGED <<maps, channels, shut, socket, reader, writer, loop>>

\* The peer closes, a deadline passes, or a write fails and closes the socket.
Break(c) ==
    /\ socket[c] = "open"
    /\ socket' = [socket EXCEPT ![c] = "broken"]
    /\ UNCHANGED <<maps, channels, send, shut, reader, writer, loop>>

\* ReadJSON fails and the deferred unregister begins.
ReadFails(c) ==
    /\ At(c, "read") /\ socket[c] = "broken"
    /\ Reads(c, [pc |-> "leave"])
    /\ UNCHANGED <<maps, channels, send, shut, socket, writer, loop>>

\* h.unregister <- c
Leave(c) ==
    /\ At(c, "leave")
    /\ Len(unregister) < QueueCap
    /\ unregister' = Append(unregister, c)
    /\ Reads(c, [pc |-> "gone"])
    /\ UNCHANGED <<maps, register, broadcast, send, shut, socket, writer, loop>>

\* The write pump takes a message, which a broken socket refuses, or finds the
\* channel closed and drained; either of these ends it and closes the socket.
Pump(c) ==
    /\ writer[c] = "run"
    /\ IF send[c] > 0 /\ socket[c] = "open"
         THEN UNCHANGED <<writer, socket>>
         ELSE /\ send[c] > 0 \/ c \in shut \/ socket[c] = "broken"
              /\ writer' = [writer EXCEPT ![c] = "done"]
              /\ socket' = [socket EXCEPT ![c] = "broken"]
    /\ send' = [send EXCEPT ![c] = IF @ > 0 THEN @ - 1 ELSE @]
    /\ UNCHANGED <<maps, channels, shut, reader, loop>>

Pumps(c) ==
    \/ Enter(c) \/ Authorize(c) \/ Join(c) \/ ReadFails(c) \/ Leave(c) \/ Pump(c)

-----------------------------------------------------------------------------

\* BroadcastToRoom from a request handler.
BroadcastToRoom(ev) ==
    /\ emit(ev)
    /\ UNCHANGED <<maps, register, unregister, send, shut, socket, reader, writer, loop>>

InChannel(c, q) == \E i \in 1 .. Len(q) : q[i] = c

\* Nothing holds the connection any more: its slot can serve a new one.
Reuse(c) ==
    /\ At(c, "gone") /\ writer[c] = "done"
    /\ c \notin clients /\ ~ InChannel(c, register) /\ ~ InChannel(c, unregister)
    /\ Reads(c, [pc |-> "none"])
    /\ joined' = [joined EXCEPT ![c] = {}]
    /\ send' = [send EXCEPT ![c] = 0]
    /\ shut' = shut \ {c}
    /\ socket' = [socket EXCEPT ![c] = "none"]
    /\ writer' = [writer EXCEPT ![c] = "none"]
    /\ UNCHANGED <<clients, rooms, channels, loop>>

Next ==
    \/ Run
    \/ \E c \in Conns :
         \/ Upgrade(c) \/ Pumps(c) \/ Break(c) \/ Ping(c) \/ Reuse(c)
         \/ \E r \in Rooms : Subscribe(c, r) \/ Unsubscribe(c, r)
    \/ \E ev \in Handled : BroadcastToRoom(ev)

\* Every goroutine that can run does.  A select with several channels ready
\* picks one at random, so none of them is passed over for ever.
Fairness ==
    /\ SF_vars(handleRegister) /\ SF_vars(handleUnregister) /\ SF_vars(handleBroadcast)
    /\ WF_vars(SendDone \/ \E c \in Conns : SendTo(c))
    /\ \A c \in Conns :
         /\ SF_vars(Enter(c)) /\ SF_vars(Leave(c))
         /\ WF_vars(Authorize(c) \/ Join(c) \/ ReadFails(c)) /\ WF_vars(Pump(c))

Spec == Init /\ [][Next]_vars /\ Fairness

-----------------------------------------------------------------------------

\* The two sides of a membership agree: a room holds exactly the known
\* clients that count it among their rooms, so whoever unregisters leaves
\* nothing behind.
RoomsMirrorClients ==
    \A r \in Rooms : rooms[r] = {c \in clients : r \in joined[c]}

\* Nobody sends on a closed channel, which would panic the instance: when the
\* loop closes a client's send channel its read pump has ended, and neither
\* the maps nor a broadcast being delivered lead to it.
NoSendOnClosed ==
    \A c \in shut :
        /\ At(c, "gone")
        /\ c \notin clients
        /\ \A r \in Rooms : c \notin rooms[r]
        /\ loop.pc = "send" => c \notin loop.to

\* The loop never blocks on what it drains itself, so no connection waits for
\* ever to get in or to get out.
EntersAndLeaves ==
    \A c \in Conns :
        /\ At(c, "enter") ~> ~ At(c, "enter")
        /\ At(c, "leave") ~> At(c, "gone")

\* hub_test.go, TestHub_RegistersAndUnregistersClients: a client that has
\* registered and unregistered is counted nowhere any more.
GoneIsForgotten ==
    \A c \in Conns :
        /\ At(c, "gone")
        /\ ~ InChannel(c, register) /\ ~ InChannel(c, unregister)
        => c \notin clients
=============================================================================
