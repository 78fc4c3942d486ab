----------------------------- MODULE MailOutbox -----------------------------
(***************************************************************************)
(* Assignment mail (internal/email).  An event writes one outbox row for   *)
(* the assignee; each instance's loop claims the rows that are due by      *)
(* pushing due_at forward (a lease) and sends them one after the other.    *)
(* Once a day every instance sends each member who asked for a digest one   *)
(* mail about all of their rows, which stay locked while it is sent.       *)
(*                                                                         *)
(* Times are abstracted to whether a row is due: a lease may run out while  *)
(* its holder still works through its batch (50 sends of up to 45 s).      *)
(***************************************************************************)
EXTENDS OutboxInstances

CONSTANTS
    Members,
    Assignee,      \* event |-> the member it assigns the issue to
    MaxAttempts,
    MaxToggles,    \* bound: changes of preferences
    None

ASSUME MailSide ==
    /\ Assignee \in [Events -> Members]
    /\ MaxAttempts \in Nat \ {0}
    /\ MaxToggles \in Nat

VARIABLES
    outbox,        \* event |-> its row in notification_outbox
    digesting,     \* members whose preference for a digest is on
    batches,       \* instance |-> what SendDue still has to send and what it sends now
    digests,       \* instance |-> the run of SendDigests
    inbox,         \* event |-> mails about it that its assignee got
    toggles

mailVars == <<outbox, digesting, batches, digests, inbox, toggles>>

Mail == [attempts : Nat, due : BOOLEAN, sent : BOOLEAN]
Results == {"none", "sent", "error"}
Batch == [rest : SUBSET Events, now : Events \cup {None}, result : Results]
Digest == [members : SUBSET Members, rows : SUBSET Events, result : Results]
NoBatch == [rest |-> {}, now |-> None, result |-> "none"]
NoDigest == [members |-> {}, rows |-> {}, result |-> "none"]

MailTypeOK ==
    /\ DOMAIN outbox \subseteq Events
    /\ \A e \in DOMAIN outbox : outbox[e] \in Mail
    /\ digesting \subseteq Members
    /\ batches \in [Instances -> Batch]
    /\ digests \in [Instances -> Digest]
    /\ inbox \in [Events -> Nat]
    /\ toggles \in 0 .. MaxToggles

MailInit ==
    /\ outbox = <<>>
    /\ digesting \in SUBSET Members
    /\ batches = [i \in Instances |-> NoBatch]
    /\ digests = [i \in Instances |-> NoDigest]
    /\ inbox = [e \in Events |-> 0]
    /\ toggles = 0

\* Handler.put for kind digest, with a value that is not the stored one.
Put(m) ==
    /\ toggles < MaxToggles /\ toggles' = toggles + 1
    /\ digesting' = IF m \in digesting THEN digesting \ {m} ELSE digesting \cup {m}
    /\ UNCHANGED <<outbox, batches, digests, inbox, faults>>

\* assigned: there is no row when the issue names somebody else by then, or
\* the assignee turned assignment mail off.
EnqueueMail(e) ==
    /\ \/ /\ outbox' = [x \in DOMAIN outbox \cup {e} |->
                IF x = e THEN [attempts |-> 0, due |-> TRUE, sent |-> FALSE] ELSE outbox[x]]
          /\ Ok
       \/ UNCHANGED outbox /\ Ok
       \/ UNCHANGED outbox /\ Fault
    /\ UNCHANGED <<digesting, batches, digests, inbox, toggles>>

\* Time passes: a backoff or a lease runs out.
MailDue(e) ==
    /\ e \in DOMAIN outbox /\ ~outbox[e].due
    /\ outbox' = [outbox EXCEPT ![e].due = TRUE]
    /\ UNCHANGED <<digesting, batches, digests, inbox, toggles, faults>>

\* Rows some digest's transaction holds.
Locked == UNION {digests[i].rows : i \in Instances}
Open == {e \in DOMAIN outbox : ~outbox[e].sent /\ outbox[e].attempts < MaxAttempts}

\* Fault: rows a digest holds are not skipped.
SendableAnyway == {e \in Open : outbox[e].due /\ Assignee[e] \notin digesting}

\* Fault: only rows never tried are selected, so nothing is retried.
SendableOnce == {e \in Open \ Locked : outbox[e].due /\ Assignee[e] \notin digesting /\ outbox[e].attempts = 0}

\* The rows SendDue's statement selects.
Sendable == {e \in Open \ Locked : outbox[e].due /\ Assignee[e] \notin digesting}

\* Fault: the claim takes the lease and does not count the attempt.
ClaimUncounted(es) == [e \in DOMAIN outbox |->
    IF e \in es THEN [outbox[e] EXCEPT !.due = FALSE] ELSE outbox[e]]

Claim(es) == [e \in DOMAIN outbox |->
    IF e \in es THEN [outbox[e] EXCEPT !.attempts = @ + 1, !.due = FALSE] ELSE outbox[e]]

\* SendDue's statement; if its result is not read, only the lease remains.
ClaimDue(i) ==
    /\ batches[i] = NoBatch
    /\ Sendable # {}
    /\ outbox' = Claim(Sendable)
    /\ \/ batches' = [batches EXCEPT ![i].rest = Sendable] /\ Ok
       \/ Fault /\ UNCHANGED batches
    /\ UNCHANGED <<digesting, digests, inbox, toggles>>

\* What sender.Send may come to.  QUIT is part of it, so a mail the server
\* took can still be an error.
Outcome == [result : {"sent", "error"}, arrived : BOOLEAN]
Outcomes == {o \in Outcome : o.result = "sent" => o.arrived}

SendMail(i, e) ==
    /\ batches[i].now = None /\ e \in batches[i].rest
    /\ \E o \in Outcomes :
        /\ batches' = [batches EXCEPT ![i] = [rest |-> @.rest \ {e}, now |-> e, result |-> o.result]]
        /\ inbox' = [inbox EXCEPT ![e] = @ + (IF o.arrived THEN 1 ELSE 0)]
    /\ UNCHANGED <<outbox, digesting, digests, toggles, faults>>

\* The row after either UPDATE that follows a send.
AfterSend(mail, result) ==
    IF result = "sent" THEN [mail EXCEPT !.sent = TRUE] ELSE [mail EXCEPT !.due = FALSE]

\* Either UPDATE.  It waits for a digest that holds the row.
RecordMail(i) ==
    LET e == batches[i].now IN
    /\ e # None /\ e \notin Locked
    /\ \/ /\ outbox' = [outbox EXCEPT ![e] = AfterSend(@, batches[i].result)]
          /\ Ok
       \/ Fault /\ UNCHANGED outbox
    /\ batches' = [batches EXCEPT ![i].now = None, ![i].result = "none"]
    /\ UNCHANGED <<digesting, digests, inbox, toggles>>

\* SendDigests' query, at 09:00.
StartDigest(i) ==
    /\ digests[i] = NoDigest
    /\ LET due == {Assignee[e] : e \in {x \in Open : Assignee[x] \in digesting}} IN
        /\ due # {}
        /\ digests' = [digests EXCEPT ![i].members = due]
    /\ UNCHANGED <<outbox, digesting, batches, inbox, toggles, faults>>

\* The rows digestOne locks: whatever their due_at, and skipping locked ones.
Holdable(m) == {e \in Open \ Locked : Assignee[e] = m}

\* digestOne: Begin, the SELECT ... FOR UPDATE SKIP LOCKED and the send.
DigestOne(i, m) ==
    /\ m \in digests[i].members /\ digests[i].rows = {}
    /\ \E o \in Outcomes :
        /\ digests' = [digests EXCEPT ![i] =
                [members |-> @.members \ {m}, rows |-> Holdable(m),
                 result |-> IF Holdable(m) = {} THEN "none" ELSE o.result]]
        /\ inbox' = [e \in Events |-> inbox[e] + (IF e \in Holdable(m) /\ o.arrived THEN 1 ELSE 0)]
    /\ UNCHANGED <<outbox, digesting, batches, toggles, faults>>

\* The transaction's UPDATE and its commit, or a rollback.
EndDigest(i) ==
    LET held == digests[i].rows IN
    /\ held # {}
    /\ \/ /\ outbox' = [e \in DOMAIN outbox |->
                IF e \notin held THEN outbox[e]
                ELSE IF digests[i].result = "sent" THEN [outbox[e] EXCEPT !.sent = TRUE]
                ELSE [outbox[e] EXCEPT !.attempts = @ + 1]]
          /\ Ok
       \/ Fault /\ UNCHANGED outbox
    /\ digests' = [digests EXCEPT ![i].rows = {}, ![i].result = "none"]
    /\ UNCHANGED <<digesting, batches, inbox, toggles>>

StopMail(i) ==
    /\ batches' = [batches EXCEPT ![i] = NoBatch]
    /\ digests' = [digests EXCEPT ![i] = NoDigest]
    /\ UNCHANGED <<outbox, digesting, inbox, toggles>>

MailNext ==
    \/ \E m \in Members : Put(m)
    \/ \E e \in Events : MailDue(e)
    \/ \E i \in Instances :
        \/ ClaimDue(i) \/ RecordMail(i) \/ StartDigest(i) \/ EndDigest(i)
        \/ \E e \in Events : SendMail(i, e)
        \/ \E m \in Members : DigestOne(i, m)

-----------------------------------------------------------------------------
\* Mails sent by a digest whose transaction is still open.
InDigest(e) == Cardinality({i \in Instances : e \in digests[i].rows})

\* The copies an assignee can get of one mail: one for each attempt counted,
\* one for the digest that marked it sent or is about to, and one for each
\* fault.  Neither leases that run out nor preferences that change add to it.
CopiesAreCounted ==
    \A e \in DOMAIN outbox :
        inbox[e] <= outbox[e].attempts + (IF outbox[e].sent THEN 1 ELSE 0) + InDigest(e) + faults

\* While a digest holds a mail nothing else writes its row, neither a batch nor
\* another digest ("SendDue and a second digest run skip them", digestOne).
HeldIsUntouched ==
    [][\A i \in Instances : \A e \in digests[i].rows \cap digests[i].rows' :
            outbox[e].attempts = outbox'[e].attempts /\ outbox[e].sent = outbox'[e].sent
      ]_<<mailVars, faults>>

\* A mail written to the outbox is sent or runs out of attempts, through
\* stopped instances, failed statements and changes of preference.
MailSettles ==
    \A e \in Events : e \in DOMAIN outbox ~> e \in DOMAIN outbox \ Open
=============================================================================
