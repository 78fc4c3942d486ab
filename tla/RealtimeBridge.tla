--------------------------- MODULE RealtimeBridge ---------------------------
(***************************************************************************)
(* Fan-out of realtime events between instances (internal/realtime: emit    *)
(* and injectRemote of hub.go, bridge.go).  Every goroutine that emits      *)
(* queues the event for its own hub and then for Redis; one publisher per   *)
(* instance drains that second queue; every instance, the publisher's own   *)
(* included, receives what is published and injects what is not its own.    *)
(* All three queues drop what does not fit, Redis forgets subscribers that  *)
(* are not connected, and the client sends a PUBLISH whose answer is lost   *)
(* again, so that Redis may execute it twice, or long after.  An instance   *)
(* whose bridge does not start keeps to itself.                             *)
(*                                                                         *)
(* A hub's connections (RealtimeHub) are one listener per instance here.    *)
(***************************************************************************)
EXTENDS Naturals, Sequences, FiniteSets

CONSTANTS
    Nodes,
    Emitters,      \* goroutines that emit: handlers and the hub's loop
    Home,          \* emitter |-> its instance
    MaxEvents,     \* bound: emitter |-> its events
    BroadcastCap,  \* capacity of hub.broadcast
    PublishCap,    \* publishQueueDepth
    Retries,       \* MaxRetries of the Redis client, which main leaves at its default
    MaxBreaks      \* bound: lost answers, failed and broken subscriptions

ASSUME BridgeSide ==
    /\ Home \in [Emitters -> Nodes]
    /\ MaxEvents \in [Emitters -> Nat]
    /\ MaxBreaks \in Nat /\ Retries \in Nat
    /\ BroadcastCap \in Nat \ {0} /\ PublishCap \in Nat \ {0}

VARIABLES
    started,     \* instance |-> what became of RedisBridge.Start
    emitted,     \* emitter |-> events so far
    publishing,  \* emitters between the two halves of emit
    broadcast,   \* instance |-> hub.broadcast
    pub,         \* instance |-> bridge.pub
    sending,     \* instance |-> the PUBLISH its publisher waits for, if it does
    late,        \* copies sent whose answer was lost; Redis may execute them yet
    wire,        \* instance |-> published, on the way to its subscription
    subscribed,  \* instances Redis knows
    seen,        \* instance |-> what its listener got
    missed,      \* history: pairs of an event and an instance it was dropped for
    resent,      \* history: events with a copy whose answer was lost
    breaks

bridgeVars == <<started, emitted, publishing, broadcast, pub, sending, late, wire,
                subscribed, seen, missed, resent, breaks>>

Event == [from : Emitters, n : Nat \ {0}]
Copy == [event : Event, try : 0 .. Retries]
Origin(ev) == Home[ev.from]

Running(i) == started[i] = "running"

BridgeInit ==
    /\ started = [i \in Nodes |-> "no"]
    /\ emitted = [e \in Emitters |-> 0]
    /\ publishing = {}
    /\ broadcast = [i \in Nodes |-> <<>>]
    /\ pub = [i \in Nodes |-> <<>>]
    /\ sending = [i \in Nodes |-> {}]
    /\ late = {}
    /\ wire = [i \in Nodes |-> <<>>]
    /\ subscribed = {}
    /\ seen = [i \in Nodes |-> <<>>]
    /\ missed = {}
    /\ resent = {}
    /\ breaks = 0

Break == breaks < MaxBreaks /\ breaks' = breaks + 1

\* Start, before the instance serves: it subscribes and launches the two loops.
\* When the subscription is not confirmed the hub keeps its bridge, no loop
\* runs, and nobody tries again.
Start(i) ==
    /\ started[i] = "no"
    /\ \/ /\ started' = [started EXCEPT ![i] = "running"]
          /\ subscribed' = subscribed \cup {i}
          /\ UNCHANGED breaks
       \/ /\ Break
          /\ started' = [started EXCEPT ![i] = "local"]
          /\ UNCHANGED subscribed
    /\ UNCHANGED <<emitted, publishing, broadcast, pub, sending, late, wire, seen,
                   missed, resent>>

\* The non-blocking send into hub.broadcast.
Queue(i, ev) ==
    IF Len(broadcast[i]) < BroadcastCap
      THEN /\ broadcast' = [broadcast EXCEPT ![i] = Append(@, ev)]
           /\ UNCHANGED missed
      ELSE /\ missed' = missed \cup {<<ev, i>>}
           /\ UNCHANGED broadcast

Latest(e) == [from |-> e, n |-> emitted[e]]

\* emit: first the local hub ...
Emit(e) ==
    /\ started[Home[e]] # "no"
    /\ e \notin publishing
    /\ emitted[e] < MaxEvents[e]
    /\ emitted' = [emitted EXCEPT ![e] = @ + 1]
    /\ publishing' = publishing \cup {e}
    /\ Queue(Home[e], [from |-> e, n |-> emitted[e] + 1])
    /\ UNCHANGED <<started, pub, sending, late, wire, subscribed, seen, resent, breaks>>

\* ... then bridge.Publish.
Publish(e) ==
    /\ e \in publishing
    /\ publishing' = publishing \ {e}
    /\ LET i == Home[e]
       IN  IF Len(pub[i]) < PublishCap
             THEN /\ pub' = [pub EXCEPT ![i] = Append(@, Latest(e))]
                  /\ UNCHANGED missed
             ELSE /\ missed' = missed \cup ({Latest(e)} \X (Nodes \ {i}))
                  /\ UNCHANGED pub
    /\ UNCHANGED <<started, emitted, broadcast, sending, late, wire, subscribed, seen,
                   resent, breaks>>

-----------------------------------------------------------------------------
(* The publisher.                                                          *)

Calls(i, ev) == sending' = [sending EXCEPT ![i] = {[event |-> ev, try |-> 0]}]

\* Fault: the loop ends at the first error.
runPublisherGivesUp(i) ==
    /\ Running(i) /\ sending[i] = {} /\ pub[i] # <<>>
    /\ \A ev \in resent : Origin(ev) # i
    /\ Calls(i, Head(pub[i]))
    /\ pub' = [pub EXCEPT ![i] = Tail(@)]
    /\ UNCHANGED <<started, emitted, publishing, broadcast, late, wire, subscribed, seen,
                   missed, resent, breaks>>

\* runPublisher takes the next event and calls Redis, whatever became of the
\* last call.
runPublisher(i) ==
    /\ Running(i) /\ sending[i] = {} /\ pub[i] # <<>>
    /\ Calls(i, Head(pub[i]))
    /\ pub' = [pub EXCEPT ![i] = Tail(@)]
    /\ UNCHANGED <<started, emitted, publishing, broadcast, late, wire, subscribed, seen,
                   missed, resent, breaks>>

\* Redis executes a PUBLISH: it hands the message to whoever is subscribed now.
HandOut(ev) ==
    wire' = [j \in Nodes |-> IF j \in subscribed THEN Append(wire[j], ev) ELSE wire[j]]

\* It executes, and the answer arrives.
Answered(i) ==
    /\ \E c \in sending[i] :
         /\ HandOut(c.event)
         /\ missed' = missed \cup ({c.event} \X (Nodes \ (subscribed \cup {i})))
    /\ sending' = [sending EXCEPT ![i] = {}]
    /\ UNCHANGED <<started, emitted, publishing, broadcast, pub, late, subscribed, seen,
                   resent, breaks>>

\* No answer, or an error: the client sends the event again, Retries times at
\* most, unless it takes the error for final; then the error is logged.  Nobody
\* can tell whether Redis executes what was sent.
LoseAnswer(i) ==
    /\ Break
    /\ \E c \in sending[i] :
         /\ late' = late \cup {c}
         /\ resent' = resent \cup {c.event}
         /\ \/ /\ c.try < Retries
               /\ sending' = [sending EXCEPT ![i] = {[c EXCEPT !.try = @ + 1]}]
               /\ UNCHANGED missed
            \/ /\ sending' = [sending EXCEPT ![i] = {}]
               /\ missed' = missed \cup ({c.event} \X (Nodes \ {i}))
    /\ UNCHANGED <<started, emitted, publishing, broadcast, pub, wire, subscribed, seen>>

\* It may, at any time.
Straggle(c) ==
    /\ late' = late \ {c}
    /\ HandOut(c.event)
    /\ UNCHANGED <<started, emitted, publishing, broadcast, pub, sending, subscribed, seen,
                   missed, resent, breaks>>

-----------------------------------------------------------------------------
(* The subscriber.                                                         *)

\* Fault: the envelope's origin is not looked at.
dispatchEcho(i) ==
    /\ wire[i] # <<>>
    /\ wire' = [wire EXCEPT ![i] = Tail(@)]
    /\ Queue(i, Head(wire[i]))
    /\ UNCHANGED <<started, emitted, publishing, pub, sending, late, subscribed, seen,
                   resent, breaks>>

\* dispatch: our own publish was delivered locally; a peer's is injected.
dispatch(i) ==
    /\ wire[i] # <<>>
    /\ wire' = [wire EXCEPT ![i] = Tail(@)]
    /\ IF Origin(Head(wire[i])) = i
         THEN UNCHANGED <<broadcast, missed>>
         ELSE Queue(i, Head(wire[i]))
    /\ UNCHANGED <<started, emitted, publishing, pub, sending, late, subscribed, seen,
                   resent, breaks>>

\* The hub's loop delivers what is queued.
handleBroadcast(i) ==
    /\ broadcast[i] # <<>>
    /\ broadcast' = [broadcast EXCEPT ![i] = Tail(@)]
    /\ seen' = [seen EXCEPT ![i] = Append(@, Head(broadcast[i]))]
    /\ UNCHANGED <<started, emitted, publishing, pub, sending, late, wire, subscribed,
                   missed, resent, breaks>>

\* The connection to Redis breaks: what was on its way is lost ...
Disconnect(i) ==
    /\ i \in subscribed
    /\ Break
    /\ subscribed' = subscribed \ {i}
    /\ wire' = [wire EXCEPT ![i] = <<>>]
    /\ missed' = missed \cup
         {<<wire[i][k], i>> : k \in {x \in 1 .. Len(wire[i]) : Origin(wire[i][x]) # i}}
    /\ UNCHANGED <<started, emitted, publishing, broadcast, pub, sending, late, seen, resent>>

\* ... and the client library subscribes again.
Resubscribe(i) ==
    /\ Running(i) /\ i \notin subscribed
    /\ subscribed' = subscribed \cup {i}
    /\ UNCHANGED <<started, emitted, publishing, broadcast, pub, sending, late, wire, seen,
                   missed, resent, breaks>>

-----------------------------------------------------------------------------

Call(i) == Answered(i) \/ LoseAnswer(i)
Loops(i) == runPublisher(i) \/ Call(i) \/ dispatch(i) \/ handleBroadcast(i)

BridgeNext ==
    \/ \E e \in Emitters : Emit(e) \/ Publish(e)
    \/ \E i \in Nodes : Start(i) \/ Loops(i) \/ Disconnect(i) \/ Resubscribe(i)
    \/ \E c \in late : Straggle(c)

\* An emitter does not stop between its halves; each loop is a goroutine, once
\* Start launched it; a call to Redis returns.  Nothing promises that Start
\* succeeds or that Redis executes a copy nobody waits for.
BridgeFairness ==
    /\ \A e \in Emitters : WF_bridgeVars(Publish(e))
    /\ \A i \in Nodes : /\ WF_bridgeVars(runPublisher(i)) /\ WF_bridgeVars(Call(i))
                            /\ WF_bridgeVars(dispatch(i)) /\ WF_bridgeVars(handleBroadcast(i))

BridgeSpec == BridgeInit /\ [][BridgeNext]_bridgeVars /\ BridgeFairness

-----------------------------------------------------------------------------

\* What one goroutine emits arrives at home in the order it was emitted and
\* once: an instance recognises the echo of its own publishes, copies sent
\* again included.  At a peer the order is broken by nothing but such a copy.
EmitterOrder ==
    \A i \in Nodes : \A j, k \in 1 .. Len(seen[i]) :
        j < k /\ seen[i][j].from = seen[i][k].from =>
            \/ seen[i][j].n < seen[i][k].n
            \/ Origin(seen[i][k]) # i /\ seen[i][k] \in resent

Sees(i, ev) == \E k \in 1 .. Len(seen[i]) : seen[i][k] = ev

\* An event reaches every instance unless a full queue, a call that failed for
\* good or a broken subscription dropped it there, or its own instance's bridge
\* did not start: nothing gets stuck on the way.
ReachesEveryone ==
    \A e \in Emitters, i \in Nodes : \A n \in 1 .. MaxEvents[e] :
        LET ev == [from |-> e, n |-> n]
        IN  (emitted[e] >= n) ~>
                \/ Sees(i, ev) \/ <<ev, i>> \in missed
                \/ started[Home[e]] = "local" /\ i # Home[e]
=============================================================================
