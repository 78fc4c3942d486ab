--------------------------- MODULE WebhookOutbox ---------------------------
(***************************************************************************)
(* Outgoing webhooks (internal/webhooks).  An event becomes one row per    *)
(* subscribed endpoint; each instance's loop claims the rows that are due  *)
(* by stamping attempted_at, posts them concurrently and, for each that    *)
(* failed, inserts the row of the next attempt.                            *)
(*                                                                         *)
(* Times are abstracted to whether a row is due.  Rotate, which changes    *)
(* the secret the next post is signed with, is left out.                   *)
(***************************************************************************)
EXTENDS OutboxInstances

CONSTANTS
    Hooks,         \* endpoints a workspace registers
    Subscribed,    \* endpoint |-> the events it asked for
    Retries        \* len(Backoff)

ASSUME HooksSide ==
    /\ Subscribed \in [Hooks -> SUBSET Events]
    /\ Retries \in Nat

VARIABLES
    hooks,         \* rows of workspace_webhooks
    spent,         \* endpoints that were registered: an id is not used again
    deliveries,    \* attempt |-> its row in workspace_webhook_deliveries
    sends,         \* goroutines of DeliverDue
    posts          \* attempt |-> the requests sent for it

hookVars == <<hooks, spent, deliveries, sends, posts>>

Attempts == [hook : Hooks, event : Events, n : 1 .. Retries + 1]
Following(k) == [k EXCEPT !.n = @ + 1]

\* What Track makes of one post: a 2xx, an address safehttp refuses, all else.
Answers == {"ok", "blocked", "failed"}
Row == [due : BOOLEAN, claimed : BOOLEAN, status : Answers \cup {"none"}]
Fresh(due) == [due |-> due, claimed |-> FALSE, status |-> "none"]

Send == [by : Instances, key : Attempts, step : {"post", "record", "retry"},
         answer : Answers \cup {"none"}]

HooksTypeOK ==
    /\ hooks \subseteq spent /\ spent \subseteq Hooks
    /\ DOMAIN deliveries \subseteq Attempts
    /\ \A k \in DOMAIN deliveries : deliveries[k] \in Row
    /\ sends \subseteq Send
    /\ posts \in [Attempts -> Nat]

HooksInit ==
    /\ hooks = {} /\ spent = {}
    /\ deliveries = <<>>
    /\ sends = {}
    /\ posts = [k \in Attempts |-> 0]

\* Store.Create.
Register(h) ==
    /\ h \notin spent
    /\ hooks' = hooks \cup {h} /\ spent' = spent \cup {h}
    /\ UNCHANGED <<deliveries, sends, posts, faults>>

\* Store.Delete: the rows go by cascade, the goroutines that send them do not.
Remove(h) ==
    /\ h \in hooks
    /\ hooks' = hooks \ {h}
    /\ deliveries' = Restrict(deliveries, {k \in DOMAIN deliveries : k.hook # h})
    /\ UNCHANGED <<spent, sends, posts, faults>>

\* Rows added to the table; one that is there stays (ON CONFLICT DO NOTHING).
With(keys, due) ==
    [k \in keys \cup DOMAIN deliveries |->
        IF k \in DOMAIN deliveries THEN deliveries[k] ELSE Fresh(due)]

\* The statement of enqueue.
EnqueueHooks(e) ==
    /\ \/ /\ deliveries' = With([hook : {h \in hooks : e \in Subscribed[h]}, event : {e}, n : {1}], TRUE)
          /\ Ok
       \/ Fault /\ UNCHANGED deliveries
    /\ UNCHANGED <<hooks, spent, sends, posts>>

HookDue(k) ==
    /\ k \in DOMAIN deliveries /\ ~deliveries[k].due
    /\ deliveries' = [deliveries EXCEPT ![k].due = TRUE]
    /\ UNCHANGED <<hooks, spent, sends, posts, faults>>

Waiting == {k \in DOMAIN deliveries : deliveries[k].due /\ ~deliveries[k].claimed}

\* Fault: the claim reads the rows that are due and does not stamp them.
StampNothing(keys) == deliveries

\* The rows with attempted_at = NOW().
Stamp(keys) == [k \in DOMAIN deliveries |->
    [deliveries[k] EXCEPT !.claimed = @ \/ k \in keys]]

\* DeliverDue, up to its goroutines.  The loop waits for those of its last
\* turn (wg.Wait).  If the claim commits and its result is not read, nobody
\* sends what it stamped.
DeliverDue(i) ==
    /\ \A s \in sends : s.by # i
    /\ Waiting # {}
    /\ deliveries' = Stamp(Waiting)
    /\ \/ sends' = sends \cup [by : {i}, key : Waiting, step : {"post"}, answer : {"none"}] /\ Ok
       \/ Fault /\ UNCHANGED sends
    /\ UNCHANGED <<hooks, spent, posts>>

Becomes(s, t) == sends' = (sends \ {s}) \cup {t}

\* post: the secret is read first, so nothing is sent to an endpoint that is
\* gone; "failed" covers answers other than 2xx, lost answers and lost requests.
Post(s) ==
    /\ s.step = "post"
    /\ \E a \in IF s.key.hook \in hooks THEN Answers ELSE {"failed"} :
        /\ posts' = IF s.key.hook \in hooks /\ a # "blocked"
                      THEN [posts EXCEPT ![s.key] = @ + 1] ELSE posts
        /\ Becomes(s, [s EXCEPT !.step = "record", !.answer = a])
    /\ UNCHANGED <<hooks, spent, deliveries, faults>>

\* Fault: an off-by-one gives up an attempt early.
RetryFewer(s) == s.answer = "failed" /\ s.key.n < Retries

\* The early return of send, negated.
RetryWanted(s) == s.answer = "failed" /\ s.key.n <= Retries

\* The answer is stored; if that fails send carries on.
Record(s) ==
    /\ s.step = "record"
    /\ IF s.key \in DOMAIN deliveries
         THEN \/ deliveries' = [deliveries EXCEPT ![s.key].status = s.answer] /\ Ok
              \/ Fault /\ UNCHANGED deliveries
         ELSE UNCHANGED <<deliveries, faults>>
    /\ IF RetryWanted(s) THEN Becomes(s, [s EXCEPT !.step = "retry"])
                         ELSE sends' = sends \ {s}
    /\ UNCHANGED <<hooks, spent, posts>>

\* INSERT ... SELECT from the row of this attempt.
ScheduleRetry(s) ==
    /\ s.step = "retry"
    /\ \/ /\ deliveries' = With({Following(s.key)} \cap {Following(k) : k \in DOMAIN deliveries}, FALSE)
          /\ Ok
       \/ Fault /\ UNCHANGED deliveries
    /\ sends' = sends \ {s}
    /\ UNCHANGED <<hooks, spent, posts>>

StopHooks(i) ==
    /\ sends' = {s \in sends : s.by # i}
    /\ UNCHANGED <<hooks, spent, deliveries, posts>>

HooksNext ==
    \/ \E h \in Hooks : Register(h) \/ Remove(h)
    \/ \E k \in Attempts : HookDue(k)
    \/ \E i \in Instances : DeliverDue(i)
    \/ \E s \in sends : Post(s) \/ Record(s) \/ ScheduleRetry(s)

-----------------------------------------------------------------------------
\* No attempt is sent twice, whichever instances run the loop
\* ("two Track instances never send the same attempt", DeliverDue).
AttemptSentOnce == \A k \in Attempts : posts[k] <= 1

Accepted(k) == \/ k \in DOMAIN deliveries /\ deliveries[k].status = "ok"
               \/ \E s \in sends : s.key = k /\ s.answer = "ok"

SameEvent(k, l) == k.hook = l.hook /\ k.event = l.event

\* The event of attempt k was accepted, refused or given up.
Concluded(k) == \E l \in DOMAIN deliveries : SameEvent(k, l)
    /\ \/ deliveries[l].status \in {"ok", "blocked"}
       \/ deliveries[l].status = "failed" /\ l.n = Retries + 1

\* A queued event is retried until the endpoint accepts it, its address is
\* refused or the schedule is used up, unless the endpoint is deleted or a
\* fault strands it (the shortcut DeliverDue's comment admits).
EventSettles ==
    \A k \in Attempts :
        k \in DOMAIN deliveries ~> Concluded(k) \/ k.hook \notin hooks \/ faults > 0
=============================================================================
