------------------------------ MODULE Outboxes ------------------------------
(***************************************************************************)
(* The two outboxes behind the issue handler (cmd/track/main.go).  The      *)
(* handler hands each event to the notifiers of teeNotifier one after the  *)
(* other: the webhook outbox, then the mail outbox.  An instance that stops *)
(* takes the loops of both with it, and the requests it serves.            *)
(***************************************************************************)
EXTENDS WebhookOutbox, MailOutbox

VARIABLE tee       \* event |-> the notifiers that were told

vars == <<hookVars, mailVars, faults, tee>>

TypeOK ==
    /\ HooksTypeOK /\ MailTypeOK
    /\ faults \in 0 .. MaxFaults
    /\ tee \in [Events -> {"new", "webhooks", "told"}]

Init ==
    /\ HooksInit /\ MailInit
    /\ faults = 0
    /\ tee = [e \in Events |-> "new"]

TellWebhooks(e) ==
    /\ tee[e] = "new"
    /\ EnqueueHooks(e)
    /\ tee' = [tee EXCEPT ![e] = "webhooks"]
    /\ UNCHANGED mailVars

TellMail(e) ==
    /\ tee[e] = "webhooks"
    /\ EnqueueMail(e)
    /\ tee' = [tee EXCEPT ![e] = "told"]
    /\ UNCHANGED hookVars

\* An instance stops; another starts in its place.
Stop(i) ==
    /\ Fault
    /\ StopHooks(i) /\ StopMail(i)
    /\ \E lost \in SUBSET {e \in Events : tee[e] = "webhooks"} :
        tee' = [e \in Events |-> IF e \in lost THEN "told" ELSE tee[e]]

Webhooks == HooksNext /\ UNCHANGED <<mailVars, tee>>
Mails == MailNext /\ UNCHANGED <<hookVars, tee>>

Next ==
    \/ \E e \in Events : TellWebhooks(e) \/ TellMail(e)
    \/ \E i \in Instances : Stop(i)
    \/ Webhooks \/ Mails

\* What the loops of one instance do; the goroutines of DeliverDue are part of
\* its loop, which waits for them.
HookLoop(i) ==
    /\ DeliverDue(i) \/ \E s \in sends : s.by = i /\ (Post(s) \/ Record(s) \/ ScheduleRetry(s))
    /\ UNCHANGED <<mailVars, tee>>
MailLoop(i) ==
    /\ ClaimDue(i) \/ RecordMail(i) \/ \E e \in Events : SendMail(i, e)
    /\ UNCHANGED <<hookVars, tee>>
DigestLoop(i) ==
    /\ StartDigest(i) \/ EndDigest(i) \/ \E m \in Members : DigestOne(i, m)
    /\ UNCHANGED <<hookVars, tee>>
Time ==
    \/ \E k \in Attempts : HookDue(k) /\ UNCHANGED <<mailVars, tee>>
    \/ \E e \in Events : MailDue(e) /\ UNCHANGED <<hookVars, tee>>

\* The loops are goroutines on tickers (10 s, 30 s, daily); times come.
Fairness ==
    /\ WF_vars(Time)
    /\ \A i \in Instances : WF_vars(HookLoop(i)) /\ WF_vars(MailLoop(i)) /\ WF_vars(DigestLoop(i))

Spec == Init /\ [][Next]_vars /\ Fairness
=============================================================================
