---------------------------- MODULE OutboxProofs ----------------------------
(***************************************************************************)
(* Proofs about the two outboxes behind the issue handler, for every set   *)
(* of instances, events, endpoints and members and any number of faults.   *)
(***************************************************************************)
EXTENDS Outboxes, FiniteSetTheorems, TLAPS

-----------------------------------------------------------------------------
(***************************************************************************)
(* The webhook outbox.  A claim is a stamp that is never taken back, rows  *)
(* go with their endpoint only, and an endpoint's id is not used again: so *)
(* an attempt that somebody sends or sent is a claimed row for as long as  *)
(* its endpoint is there.                                                  *)
(***************************************************************************)

\* Every row is of an endpoint that is registered.
RowsHaveHooks == \A k \in DOMAIN deliveries : k.hook \in hooks

Used(k) == posts[k] > 0 \/ \E s \in sends : s.key = k

UsedIsClaimed ==
    \A k \in Attempts : Used(k) =>
        /\ k.hook \in spent
        /\ k.hook \in hooks => k \in DOMAIN deliveries /\ deliveries[k].claimed

\* One goroutine has an attempt, and has not posted it before its first step.
OneSender ==
    /\ \A s, t \in sends : s.key = t.key => s = t
    /\ \A s \in sends : s.step = "post" => posts[s.key] = 0

\* A retry is within the schedule.
RetriesLeft == \A s \in sends : s.step = "retry" => s.key.n <= Retries

HooksInv ==
    /\ HooksTypeOK
    /\ RowsHaveHooks
    /\ UsedIsClaimed
    /\ OneSender
    /\ RetriesLeft
    /\ AttemptSentOnce

LEMMA FollowingIsAttempt ==
    ASSUME NEW k \in Attempts
    PROVE  /\ k.n <= Retries => Following(k) \in Attempts
           /\ Following(k).hook = k.hook
BY HooksSide DEF Attempts, Following

LEMMA InitHooks == HooksInit => HooksInv
BY DEF HooksInit, HooksInv, HooksTypeOK, RowsHaveHooks, UsedIsClaimed, OneSender,
       RetriesLeft, AttemptSentOnce, Used

\* Rows are added and change, a stamp stays, and goroutines go on or end.
LEMMA RowsGrow ==
    ASSUME HooksInv, UNCHANGED <<hooks, spent, posts>>,
           DOMAIN deliveries \subseteq DOMAIN deliveries',
           DOMAIN deliveries' \subseteq Attempts,
           \A k \in DOMAIN deliveries' : deliveries'[k] \in Row /\ k.hook \in hooks,
           \A k \in DOMAIN deliveries : deliveries[k].claimed => deliveries'[k].claimed,
           sends' \subseteq Send,
           \A t \in sends' : \E s \in sends :
              s.key = t.key /\ (t.step = "post" => s.step = "post"),
           \A s, t \in sends' : s.key = t.key => s = t,
           \A t \in sends' : t.step = "retry" => t.key.n <= Retries
    PROVE  HooksInv'
<1>1. HooksTypeOK'
  BY DEF HooksInv, HooksTypeOK
<1>2. RowsHaveHooks'
  BY DEF RowsHaveHooks
<1>3. UsedIsClaimed'
  <2>1. \A k \in Attempts : Used(k)' => Used(k)
    BY DEF Used
  <2> QED
    BY <2>1 DEF HooksInv, UsedIsClaimed
<1>4. OneSender'
  BY DEF HooksInv, OneSender
<1> QED
  BY <1>1, <1>2, <1>3, <1>4 DEF HooksInv, RetriesLeft, AttemptSentOnce

\* What an insert adds are fresh rows.
LEMMA Inserts ==
    ASSUME HooksInv, UNCHANGED <<hooks, spent, posts>>, sends' \subseteq sends,
           NEW keys \in SUBSET Attempts, \A k \in keys : k.hook \in hooks,
           NEW due \in BOOLEAN, deliveries' = With(keys, due)
    PROVE  HooksInv'
<1>1. /\ DOMAIN deliveries' = keys \cup DOMAIN deliveries
      /\ \A k \in DOMAIN deliveries : deliveries'[k] = deliveries[k]
      /\ \A k \in keys \ DOMAIN deliveries : deliveries'[k] = Fresh(due)
  BY DEF With
<1>2. Fresh(due) \in Row
  BY DEF Fresh, Row
<1>3. /\ DOMAIN deliveries \subseteq Attempts /\ sends \subseteq Send
      /\ \A k \in DOMAIN deliveries : deliveries[k] \in Row /\ k.hook \in hooks
      /\ \A s, t \in sends : s.key = t.key => s = t
      /\ \A t \in sends : t.step = "retry" => t.key.n <= Retries
  BY DEF HooksInv, HooksTypeOK, RowsHaveHooks, OneSender, RetriesLeft
<1> QED
  BY <1>1, <1>2, <1>3, RowsGrow

LEMMA SameTable ==
    ASSUME HooksInv, UNCHANGED <<hooks, spent, posts, deliveries>>, sends' \subseteq sends
    PROVE  HooksInv'
<1>1. /\ DOMAIN deliveries \subseteq Attempts /\ sends \subseteq Send
      /\ \A k \in DOMAIN deliveries : deliveries[k] \in Row /\ k.hook \in hooks
      /\ \A s, t \in sends : s.key = t.key => s = t
      /\ \A t \in sends : t.step = "retry" => t.key.n <= Retries
  BY DEF HooksInv, HooksTypeOK, RowsHaveHooks, OneSender, RetriesLeft
<1> QED
  BY <1>1, RowsGrow

LEMMA RegisterKeeps ==
    ASSUME HooksInv, NEW h \in Hooks, Register(h)
    PROVE  HooksInv'
<1>1. /\ h \notin spent /\ hooks' = hooks \cup {h} /\ spent' = spent \cup {h}
      /\ UNCHANGED <<deliveries, sends, posts>>
  BY DEF Register
<1>2. \A k \in Attempts : Used(k)' <=> Used(k)
  BY <1>1 DEF Used
<1>3. UsedIsClaimed'
  BY <1>1, <1>2 DEF HooksInv, UsedIsClaimed
<1> QED
  BY <1>1, <1>3 DEF HooksInv, HooksTypeOK, RowsHaveHooks, OneSender, RetriesLeft, AttemptSentOnce

LEMMA RemoveKeeps ==
    ASSUME HooksInv, NEW h \in Hooks, Remove(h)
    PROVE  HooksInv'
<1>1. /\ hooks' = hooks \ {h} /\ UNCHANGED <<spent, sends, posts>>
      /\ DOMAIN deliveries' = {k \in DOMAIN deliveries : k.hook # h}
      /\ \A k \in DOMAIN deliveries' : deliveries'[k] = deliveries[k]
  BY DEF Remove, Restrict
<1>2. \A k \in Attempts : Used(k)' <=> Used(k)
  BY <1>1 DEF Used
<1>3. UsedIsClaimed'
  BY <1>1, <1>2 DEF HooksInv, UsedIsClaimed
<1> QED
  BY <1>1, <1>3 DEF HooksInv, HooksTypeOK, RowsHaveHooks, OneSender, RetriesLeft, AttemptSentOnce

LEMMA EnqueueHooksKeeps ==
    ASSUME HooksInv, NEW e \in Events, EnqueueHooks(e)
    PROVE  HooksInv'
<1> DEFINE keys == [hook : {h \in hooks : e \in Subscribed[h]}, event : {e}, n : {1}]
<1>1. UNCHANGED <<hooks, spent, sends, posts>>
  BY DEF EnqueueHooks
<1>2. keys \in SUBSET Attempts /\ \A k \in keys : k.hook \in hooks
  BY HooksSide DEF Attempts, HooksInv, HooksTypeOK
<1>3. CASE deliveries' = With(keys, TRUE)
  <2> HIDE DEF keys
  <2> QED
    BY <1>1, <1>2, <1>3, Inserts
<1>4. CASE UNCHANGED deliveries
  BY <1>1, <1>4, SameTable
<1> QED
  BY <1>3, <1>4 DEF EnqueueHooks

LEMMA HookDueKeeps ==
    ASSUME HooksInv, NEW k \in Attempts, HookDue(k)
    PROVE  HooksInv'
<1>1. /\ k \in DOMAIN deliveries /\ deliveries' = [deliveries EXCEPT ![k].due = TRUE]
      /\ UNCHANGED <<hooks, spent, sends, posts>>
  BY DEF HookDue
<1>2. /\ DOMAIN deliveries \subseteq Attempts /\ sends \subseteq Send
      /\ \A x \in DOMAIN deliveries : deliveries[x] \in Row /\ x.hook \in hooks
      /\ \A s, t \in sends : s.key = t.key => s = t
      /\ \A t \in sends : t.step = "retry" => t.key.n <= Retries
  BY DEF HooksInv, HooksTypeOK, RowsHaveHooks, OneSender, RetriesLeft
<1>3. /\ DOMAIN deliveries' = DOMAIN deliveries
      /\ \A x \in DOMAIN deliveries :
           deliveries'[x] = IF x = k THEN [deliveries[x] EXCEPT !.due = TRUE] ELSE deliveries[x]
  BY <1>1
<1>4. \A x \in DOMAIN deliveries :
        deliveries'[x] \in Row /\ deliveries'[x].claimed = deliveries[x].claimed
  BY <1>2, <1>3 DEF Row
<1> QED
  BY <1>1, <1>2, <1>3, <1>4, RowsGrow

LEMMA DeliverDueKeeps ==
    ASSUME HooksInv, NEW i \in Instances, DeliverDue(i)
    PROVE  HooksInv'
<1> DEFINE new == [by : {i}, key : Waiting, step : {"post"}, answer : {"none"}]
<1>1. /\ deliveries' = Stamp(Waiting)
      /\ sends' = sends \cup new \/ UNCHANGED sends
      /\ UNCHANGED <<hooks, spent, posts>>
  BY DEF DeliverDue
<1>2. /\ DOMAIN deliveries' = DOMAIN deliveries
      /\ \A k \in DOMAIN deliveries :
           deliveries'[k] = [deliveries[k] EXCEPT !.claimed = @ \/ k \in Waiting]
  BY <1>1 DEF Stamp
<1>3. \A k \in DOMAIN deliveries :
        /\ deliveries'[k] \in Row
        /\ deliveries[k].claimed \/ k \in Waiting => deliveries'[k].claimed
  BY <1>2 DEF HooksInv, HooksTypeOK, Row
<1>4. \A k \in Waiting : /\ k \in DOMAIN deliveries /\ k \in Attempts
                         /\ k.hook \in hooks /\ k.hook \in spent /\ ~ Used(k)
  <2> SUFFICES ASSUME NEW k \in Waiting
               PROVE  /\ k \in DOMAIN deliveries /\ k \in Attempts
                      /\ k.hook \in hooks /\ k.hook \in spent /\ ~ Used(k)
    OBVIOUS
  <2>1. /\ k \in DOMAIN deliveries /\ ~ deliveries[k].claimed
        /\ k \in Attempts /\ k.hook \in hooks /\ k.hook \in spent
    BY DEF Waiting, HooksInv, HooksTypeOK, RowsHaveHooks
  <2> QED
    BY <2>1 DEF HooksInv, UsedIsClaimed
<1>5. \A t \in new : /\ t \in Send /\ t.key \in Waiting /\ t.step = "post"
                     /\ \A s \in new : s.key = t.key => s = t
  BY <1>4 DEF Send
<1> HIDE DEF new
<1>6. HooksTypeOK'
  BY <1>1, <1>2, <1>3, <1>5 DEF HooksInv, HooksTypeOK
<1>7. UsedIsClaimed'
  <2> SUFFICES ASSUME NEW k \in Attempts, Used(k)'
               PROVE  /\ k.hook \in spent
                      /\ k.hook \in hooks => k \in DOMAIN deliveries /\ deliveries'[k].claimed
    BY <1>1, <1>2 DEF UsedIsClaimed
  <2>1. Used(k) \/ k \in Waiting
    BY <1>1, <1>5 DEF Used
  <2> QED
    BY <1>3, <1>4, <2>1 DEF HooksInv, UsedIsClaimed
<1>8. OneSender'
  <2>1. \A s \in sends : s.key \in Attempts
    BY DEF HooksInv, HooksTypeOK, Send
  <2>2. \A s \in sends : s.key \notin Waiting
    BY <1>4, <2>1 DEF Used
  <2>3. \A k \in Waiting : posts[k] = 0
    BY <1>4 DEF HooksInv, HooksTypeOK, Used
  <2> QED
    BY <1>1, <1>5, <2>2, <2>3 DEF HooksInv, OneSender
<1> QED
  BY <1>1, <1>2, <1>5, <1>6, <1>7, <1>8 DEF HooksInv, RowsHaveHooks, RetriesLeft, AttemptSentOnce

\* A goroutine's next state, with its attempt kept.
LEMMA NextSend ==
    ASSUME HooksInv, NEW s \in sends, NEW t \in Send, t.key = s.key, Becomes(s, t)
    PROVE  /\ sends' \subseteq Send
           /\ \A u, v \in sends' : u.key = v.key => u = v
BY DEF HooksInv, HooksTypeOK, OneSender, Becomes

LEMMA PostKeeps ==
    ASSUME HooksInv, NEW s \in sends, Post(s)
    PROVE  HooksInv'
<1>1. PICK a \in Answers :
        /\ posts' = IF s.key.hook \in hooks /\ a # "blocked"
                      THEN [posts EXCEPT ![s.key] = @ + 1] ELSE posts
        /\ Becomes(s, [s EXCEPT !.step = "record", !.answer = a])
  BY DEF Post, Answers
<1>2. s.step = "post" /\ UNCHANGED <<hooks, spent, deliveries>>
  BY DEF Post
<1>3. s \in Send /\ s.key \in Attempts /\ posts[s.key] = 0 /\ posts \in [Attempts -> Nat]
  BY <1>2 DEF HooksInv, HooksTypeOK, OneSender, Send
<1> DEFINE t == [s EXCEPT !.step = "record", !.answer = a]
<1>4. t \in Send /\ t.key = s.key /\ t.step = "record"
  BY <1>3 DEF Send, Answers
<1> HIDE DEF t
<1>5. /\ sends' = (sends \ {s}) \cup {t}
      /\ sends' \subseteq Send /\ \A u, v \in sends' : u.key = v.key => u = v
  BY <1>1, <1>4, NextSend DEF Becomes, t
<1>6. /\ posts' \in [Attempts -> Nat] /\ posts'[s.key] <= 1
      /\ \A k \in Attempts : k # s.key => posts'[k] = posts[k]
  BY <1>1, <1>3
<1>7. HooksTypeOK'
  BY <1>2, <1>5, <1>6 DEF HooksInv, HooksTypeOK
<1>8. UsedIsClaimed'
  <2>1. \A k \in Attempts : Used(k)' => Used(k)
    BY <1>4, <1>5, <1>6 DEF Used
  <2> QED
    BY <1>2, <2>1 DEF HooksInv, UsedIsClaimed
<1>9. OneSender'
  <2>1. \A u \in sends' : u.step = "post" => u \in sends /\ u.key # s.key /\ u.key \in Attempts
    BY <1>4, <1>5 DEF HooksInv, OneSender, Send
  <2> QED
    BY <1>5, <1>6, <2>1 DEF HooksInv, OneSender
<1>10. AttemptSentOnce'
  BY <1>3, <1>6 DEF HooksInv, AttemptSentOnce
<1> QED
  BY <1>2, <1>4, <1>5, <1>7, <1>8, <1>9, <1>10 DEF HooksInv, RowsHaveHooks, RetriesLeft

LEMMA RecordKeeps ==
    ASSUME HooksInv, NEW s \in sends, Record(s)
    PROVE  HooksInv'
<1>1. /\ s.step = "record"
      /\ UNCHANGED <<hooks, spent, posts>>
      /\ \/ s.key \in DOMAIN deliveries /\ deliveries' = [deliveries EXCEPT ![s.key].status = s.answer]
         \/ UNCHANGED deliveries
      /\ \/ Becomes(s, [s EXCEPT !.step = "retry"]) /\ s.key.n <= Retries
         \/ sends' = sends \ {s}
  BY DEF Record, RetryWanted
<1>2. /\ DOMAIN deliveries \subseteq Attempts /\ sends \subseteq Send
      /\ \A x \in DOMAIN deliveries : deliveries[x] \in Row /\ x.hook \in hooks
      /\ \A u, v \in sends : u.key = v.key => u = v
      /\ \A t \in sends : t.step = "retry" => t.key.n <= Retries
  BY DEF HooksInv, HooksTypeOK, RowsHaveHooks, OneSender, RetriesLeft
<1>3. s \in Send /\ s.answer \in Answers \cup {"none"}
  BY <1>2 DEF Send
<1>4. /\ DOMAIN deliveries' = DOMAIN deliveries
      /\ \A x \in DOMAIN deliveries :
           deliveries'[x] \in Row /\ deliveries'[x].claimed = deliveries[x].claimed
  <2>1. CASE UNCHANGED deliveries
    BY <1>2, <2>1
  <2>2. CASE deliveries' = [deliveries EXCEPT ![s.key].status = s.answer]
    <3>1. /\ DOMAIN deliveries' = DOMAIN deliveries
          /\ \A x \in DOMAIN deliveries :
               deliveries'[x] = IF x = s.key THEN [deliveries[x] EXCEPT !.status = s.answer]
                                ELSE deliveries[x]
      BY <2>2
    <3> QED
      BY <1>2, <1>3, <3>1 DEF Row
  <2> QED
    BY <1>1, <2>1, <2>2
<1>5. CASE sends' = sends \ {s}
  BY <1>1, <1>2, <1>4, <1>5, RowsGrow
<1>6. CASE Becomes(s, [s EXCEPT !.step = "retry"]) /\ s.key.n <= Retries
  <2> DEFINE t == [s EXCEPT !.step = "retry"]
  <2>1. t \in Send /\ t.key = s.key /\ t.step = "retry"
    BY <1>3 DEF Send
  <2> HIDE DEF t
  <2>2. /\ sends' = (sends \ {s}) \cup {t}
        /\ sends' \subseteq Send /\ \A u, v \in sends' : u.key = v.key => u = v
    BY <1>6, <2>1, NextSend DEF Becomes, t
  <2>3. \A v \in sends' :
          /\ \E u \in sends : u.key = v.key /\ (v.step = "post" => u.step = "post")
          /\ v.step = "retry" => v.key.n <= Retries
    BY <1>2, <1>6, <2>1, <2>2
  <2> QED
    BY <1>1, <1>2, <1>4, <2>2, <2>3, RowsGrow
<1> QED
  BY <1>1, <1>5, <1>6

LEMMA ScheduleRetryKeeps ==
    ASSUME HooksInv, NEW s \in sends, ScheduleRetry(s)
    PROVE  HooksInv'
<1> DEFINE keys == {Following(s.key)} \cap {Following(k) : k \in DOMAIN deliveries}
<1>1. /\ sends' = sends \ {s} /\ UNCHANGED <<hooks, spent, posts>>
      /\ deliveries' = With(keys, FALSE) \/ UNCHANGED deliveries
  BY DEF ScheduleRetry
<1>2. /\ s.key \in Attempts /\ s.key.n <= Retries
      /\ DOMAIN deliveries \subseteq Attempts /\ \A k \in DOMAIN deliveries : k.hook \in hooks
  BY DEF ScheduleRetry, HooksInv, HooksTypeOK, Send, RowsHaveHooks, RetriesLeft
<1>3. Following(s.key) \in Attempts /\ \A k \in DOMAIN deliveries : Following(k).hook = k.hook
  BY <1>2, FollowingIsAttempt
<1>4. keys \in SUBSET Attempts /\ \A k \in keys : k.hook \in hooks
  BY <1>2, <1>3
<1> HIDE DEF keys
<1> QED
  BY <1>1, <1>4, Inserts, SameTable

LEMMA StopHooksKeeps ==
    ASSUME HooksInv, NEW i \in Instances, StopHooks(i)
    PROVE  HooksInv'
BY SameTable DEF StopHooks

LEMMA HooksStep ==
    ASSUME HooksInv, HooksNext
    PROVE  HooksInv'
BY RegisterKeeps, RemoveKeeps, HookDueKeeps, DeliverDueKeeps, PostKeeps, RecordKeeps,
   ScheduleRetryKeeps DEF HooksNext

-----------------------------------------------------------------------------
(***************************************************************************)
(* The mail outbox.  A claim pays for one send with one attempt, so the    *)
(* sends that the batches still owe are counted beside the mails that have *)
(* arrived: an instance that stops, or a lease that runs out, only makes   *)
(* the attempts exceed the two.  A digest pays by the row it holds, which  *)
(* becomes the mark, an attempt or a fault when its transaction ends.      *)
(***************************************************************************)

\* Batches and digests are about rows that are there.
RowsKnown ==
    \A i \in Instances :
        /\ batches[i].rest \subseteq DOMAIN outbox
        /\ batches[i].now # None => batches[i].now \in DOMAIN outbox
        /\ digests[i].rows \subseteq DOMAIN outbox

NoneYet == \A e \in Events \ DOMAIN outbox : inbox[e] = 0

\* A row is held by one digest, and nobody has marked it.
HeldApart ==
    /\ \A i, j \in Instances : i # j => digests[i].rows \cap digests[j].rows = {}
    /\ \A i \in Instances : \A e \in digests[i].rows : ~ outbox[e].sent

\* The instances whose batch has a mail to send.
Owed(e) == {i \in Instances : e \in batches[i].rest}

One(b) == IF b THEN 1 ELSE 0
Allowance(e) == outbox[e].attempts + One(outbox[e].sent) + One(e \in Locked) + faults

CopiesOwed ==
    \A e \in DOMAIN outbox :
        /\ IsFiniteSet(Owed(e))
        /\ inbox[e] + Cardinality(Owed(e)) <= Allowance(e)

MailInv ==
    /\ MailTypeOK /\ faults \in Nat
    /\ RowsKnown
    /\ NoneYet
    /\ HeldApart
    /\ CopiesOwed

LEMMA InitMail == MailInit /\ faults = 0 => MailInv
<1> SUFFICES ASSUME MailInit, faults = 0
             PROVE  MailInv
  OBVIOUS
<1>1. MailTypeOK
  BY MailSide DEF MailInit, MailTypeOK, Batch, Digest, NoBatch, NoDigest, Results
<1> QED
  BY <1>1 DEF MailInit, MailInv, RowsKnown, NoneYet, HeldApart, CopiesOwed, NoBatch, NoDigest

\* What the types say of the entries.
LEMMA MailEntries ==
    ASSUME MailInv
    PROVE  /\ \A e \in DOMAIN outbox :
                /\ e \in Events /\ outbox[e] \in Mail
                /\ outbox[e].attempts \in Nat /\ outbox[e].sent \in BOOLEAN
                /\ inbox[e] \in Nat /\ Allowance(e) \in Nat
           /\ \A i \in Instances : batches[i] \in Batch /\ digests[i] \in Digest
           /\ \A e \in DOMAIN outbox : IsFiniteSet(Owed(e)) /\ Cardinality(Owed(e)) \in Nat
BY FS_CardinalityType DEF MailInv, MailTypeOK, Mail, CopiesOwed, Allowance, One

\* Batches and digests let go of rows, and nothing arrives: it is enough that
\* the allowances do not fall.
LEMMA LetsGo ==
    ASSUME MailInv, MailTypeOK', faults' \in Nat, UNCHANGED inbox,
           DOMAIN outbox' = DOMAIN outbox,
           \A e \in DOMAIN outbox : Allowance(e) <= Allowance(e)',
           \A i \in Instances :
              /\ batches'[i].rest \subseteq batches[i].rest
              /\ batches'[i].now # None => batches'[i].now \in DOMAIN outbox
              /\ digests'[i].rows \subseteq digests[i].rows
              /\ \A e \in digests'[i].rows : ~ outbox'[e].sent
    PROVE  MailInv'
<1>1. RowsKnown' /\ NoneYet' /\ HeldApart'
  BY DEF MailInv, RowsKnown, NoneYet, HeldApart
<1>2. CopiesOwed'
  <2> SUFFICES ASSUME NEW e \in DOMAIN outbox
               PROVE  /\ IsFiniteSet(Owed(e)')
                      /\ inbox[e] + Cardinality(Owed(e)') <= Allowance(e)'
    BY DEF CopiesOwed
  <2>1. Owed(e)' \subseteq Owed(e)
    BY DEF Owed
  <2>2. /\ IsFiniteSet(Owed(e)') /\ Cardinality(Owed(e)') <= Cardinality(Owed(e))
        /\ Cardinality(Owed(e)') \in Nat
    BY <2>1, MailEntries, FS_Subset, FS_CardinalityType
  <2>3. /\ inbox[e] + Cardinality(Owed(e)) <= Allowance(e)
        /\ inbox[e] \in Nat /\ Cardinality(Owed(e)) \in Nat /\ Allowance(e) \in Nat
    BY MailEntries DEF MailInv, CopiesOwed
  <2>4. Allowance(e)' \in Nat
    BY DEF MailTypeOK, Mail, Allowance, One
  <2> QED
    BY <2>2, <2>3, <2>4
<1> QED
  BY <1>1, <1>2 DEF MailInv

LEMMA FaultsGo ==
    ASSUME MailInv, Fault \/ Ok
    PROVE  faults' \in Nat /\ faults <= faults' /\ (Fault => faults' = faults + 1)
BY DEF MailInv, Fault, Ok

LEMMA AllowanceGrows ==
    ASSUME MailInv, NEW e \in DOMAIN outbox, faults' \in Nat, faults <= faults',
           outbox'[e].attempts \in Nat, outbox[e].attempts <= outbox'[e].attempts,
           outbox'[e].sent = outbox[e].sent, Locked' = Locked
    PROVE  Allowance(e) <= Allowance(e)'
<1>1. /\ outbox[e].attempts \in Nat /\ faults \in Nat
      /\ One(outbox[e].sent) \in Nat /\ One(e \in Locked) \in Nat
  BY MailEntries DEF One, MailInv
<1>2. Allowance(e)' = outbox'[e].attempts + One(outbox[e].sent) + One(e \in Locked) + faults'
  BY DEF Allowance
<1> QED
  BY <1>1, <1>2 DEF Allowance

\* Statements that leave the rows, the batches and the digests alone, but for
\* when a mail is due.
LEMMA SameMails ==
    ASSUME MailInv, MailTypeOK', Fault \/ Ok, UNCHANGED <<inbox, batches>>,
           DOMAIN outbox' = DOMAIN outbox,
           \A e \in DOMAIN outbox : /\ outbox'[e].attempts = outbox[e].attempts
                                    /\ outbox'[e].sent = outbox[e].sent,
           \A i \in Instances : digests'[i].rows = digests[i].rows
    PROVE  MailInv'
<1>1. Locked' = Locked
  BY DEF Locked
<1>2. \A e \in DOMAIN outbox : Allowance(e) <= Allowance(e)'
  BY <1>1, FaultsGo, MailEntries, AllowanceGrows
<1> QED
  BY <1>2, FaultsGo, LetsGo DEF MailInv, RowsKnown, HeldApart

LEMMA PutKeeps ==
    ASSUME MailInv, NEW m \in Members, Put(m)
    PROVE  MailInv'
<1>1. MailTypeOK'
  BY MailSide DEF Put, MailInv, MailTypeOK
<1> QED
  BY <1>1, SameMails DEF Put, Ok

LEMMA MailDueKeeps ==
    ASSUME MailInv, NEW e \in Events, MailDue(e)
    PROVE  MailInv'
<1>1. /\ e \in DOMAIN outbox /\ outbox' = [outbox EXCEPT ![e].due = TRUE]
      /\ UNCHANGED <<digesting, batches, digests, inbox, toggles, faults>>
  BY DEF MailDue
<1>2. /\ DOMAIN outbox' = DOMAIN outbox
      /\ \A x \in DOMAIN outbox :
           outbox'[x] = IF x = e THEN [outbox[x] EXCEPT !.due = TRUE] ELSE outbox[x]
  BY <1>1
<1>3. \A x \in DOMAIN outbox : /\ outbox'[x] \in Mail
                               /\ outbox'[x].attempts = outbox[x].attempts
                               /\ outbox'[x].sent = outbox[x].sent
  BY <1>2, MailEntries DEF Mail
<1>4. MailTypeOK'
  BY <1>1, <1>2, <1>3 DEF MailInv, MailTypeOK
<1> QED
  BY <1>1, <1>2, <1>3, <1>4, SameMails DEF Ok

LEMMA StartDigestKeeps ==
    ASSUME MailInv, NEW i \in Instances, StartDigest(i)
    PROVE  MailInv'
<1> DEFINE due == {Assignee[e] : e \in {x \in Open : Assignee[x] \in digesting}}
<1>1. /\ digests' = [digests EXCEPT ![i].members = due]
      /\ UNCHANGED <<outbox, digesting, batches, inbox, toggles, faults>>
  BY DEF StartDigest
<1>5. due \in SUBSET Members
  BY MailSide, MailEntries DEF Open
<1> HIDE DEF due
<1>2. \A j \in Instances : digests'[j] = IF j = i THEN [digests[j] EXCEPT !.members = due] ELSE digests[j]
  BY <1>1 DEF MailInv, MailTypeOK
<1>3. \A j \in Instances : digests'[j] \in Digest /\ digests'[j].rows = digests[j].rows
  BY <1>2, <1>5, MailEntries DEF Digest
<1>4. MailTypeOK'
  <2>1. digests' \in [Instances -> Digest]
    BY <1>1, <1>3 DEF MailInv, MailTypeOK
  <2> QED
    BY <1>1, <2>1 DEF MailInv, MailTypeOK
<1> QED
  BY <1>1, <1>3, <1>4, SameMails DEF Ok

\* The row of an event that has none yet.
LEMMA EnqueueMailKeeps ==
    ASSUME MailInv, NEW e \in Events, e \notin DOMAIN outbox, EnqueueMail(e)
    PROVE  MailInv'
<1> DEFINE fresh == [attempts |-> 0, due |-> TRUE, sent |-> FALSE]
<1>1. UNCHANGED <<digesting, batches, digests, inbox, toggles>> /\ (Fault \/ Ok)
  BY DEF EnqueueMail
<1>2. CASE UNCHANGED outbox
  <2>1. MailTypeOK'
    BY <1>1, <1>2 DEF MailInv, MailTypeOK
  <2> QED
    BY <1>1, <1>2, <2>1, SameMails
<1>3. CASE Ok /\ outbox' = [x \in DOMAIN outbox \cup {e} |-> IF x = e THEN fresh ELSE outbox[x]]
  <2>1. /\ DOMAIN outbox' = DOMAIN outbox \cup {e}
        /\ outbox'[e] = fresh /\ \A x \in DOMAIN outbox : outbox'[x] = outbox[x]
    BY <1>3
  <2>2. fresh \in Mail /\ fresh.attempts = 0 /\ ~ fresh.sent
    BY DEF Mail
  <2> HIDE DEF fresh
  <2>3. MailTypeOK'
    BY <1>1, <2>1, <2>2 DEF MailInv, MailTypeOK
  <2>4. RowsKnown' /\ NoneYet' /\ HeldApart'
    BY <1>1, <2>1 DEF MailInv, RowsKnown, NoneYet, HeldApart
  <2>5. Locked' = Locked /\ (\A x : Owed(x)' = Owed(x)) /\ faults' = faults
    BY <1>1, <1>3 DEF Locked, Owed, Ok
  <2>6. CopiesOwed'
    <3> SUFFICES ASSUME NEW x \in DOMAIN outbox'
                 PROVE  /\ IsFiniteSet(Owed(x)')
                        /\ inbox[x] + Cardinality(Owed(x)') <= Allowance(x)'
      BY <1>1 DEF CopiesOwed
    <3>1. CASE x = e
      <4>1. Owed(x) = {} /\ inbox[x] = 0
        BY <3>1 DEF MailInv, RowsKnown, NoneYet, Owed
      <4>2. Allowance(x)' \in Nat
        BY <2>1, <2>2, <2>5, <3>1 DEF Allowance, One, MailInv
      <4> QED
        BY <2>5, <4>1, <4>2, FS_EmptySet
    <3>2. CASE x # e
      <4>1. x \in DOMAIN outbox /\ Allowance(x)' = Allowance(x)
        BY <2>1, <2>5, <3>2 DEF Allowance
      <4> QED
        BY <2>5, <4>1 DEF MailInv, CopiesOwed
    <3> QED
      BY <3>1, <3>2
  <2> QED
    BY <1>1, <2>3, <2>4, <2>6, FaultsGo DEF MailInv
<1> QED
  BY <1>2, <1>3 DEF EnqueueMail

LEMMA ClaimedRow ==
    ASSUME NEW t \in Mail, NEW n \in Nat, NEW d \in BOOLEAN
    PROVE  [t EXCEPT !.attempts = n, !.due = d] =
             [attempts |-> n, due |-> d, sent |-> t.sent]
<1>1. [t EXCEPT !.attempts = n] = [attempts |-> n, due |-> t.due, sent |-> t.sent]
  BY DEF Mail
<1>2. [t EXCEPT !.attempts = n, !.due = d] = [[t EXCEPT !.attempts = n] EXCEPT !.due = d]
  OBVIOUS
<1>3. [[attempts |-> n, due |-> t.due, sent |-> t.sent] EXCEPT !.due = d] =
        [attempts |-> n, due |-> d, sent |-> t.sent]
  OBVIOUS
<1> QED
  BY <1>1, <1>2, <1>3, Zenon

\* SendDue's claim: an attempt for each send the batch owes.
LEMMA ClaimDueKeeps ==
    ASSUME MailInv, NEW i \in Instances, ClaimDue(i)
    PROVE  MailInv'
<1>1. /\ batches[i] = NoBatch /\ outbox' = Claim(Sendable)
      /\ UNCHANGED <<digesting, digests, inbox, toggles>>
      /\ \/ batches' = [batches EXCEPT ![i].rest = Sendable] /\ Ok
         \/ Fault /\ UNCHANGED batches
  BY DEF ClaimDue
<1>2. \A e \in Sendable : e \in DOMAIN outbox /\ e \notin Locked /\ ~ outbox[e].sent
  BY DEF Sendable, Open
<1>3. /\ DOMAIN outbox' = DOMAIN outbox
      /\ \A e \in DOMAIN outbox :
           outbox'[e] = IF e \in Sendable
                          THEN [outbox[e] EXCEPT !.attempts = @ + 1, !.due = FALSE]
                          ELSE outbox[e]
  BY <1>1 DEF Claim
<1>4. \A e \in DOMAIN outbox :
        /\ outbox'[e] \in Mail /\ outbox'[e].sent = outbox[e].sent
        /\ outbox'[e].attempts = outbox[e].attempts + One(e \in Sendable)
  <2> SUFFICES ASSUME NEW e \in DOMAIN outbox
               PROVE  /\ outbox'[e] \in Mail /\ outbox'[e].sent = outbox[e].sent
                      /\ outbox'[e].attempts = outbox[e].attempts + One(e \in Sendable)
    OBVIOUS
  <2>1. outbox[e] \in Mail /\ outbox[e].attempts \in Nat
    BY MailEntries
  <2>2. CASE e \in Sendable
    <3>1. outbox'[e] = [attempts |-> outbox[e].attempts + 1, due |-> FALSE, sent |-> outbox[e].sent]
      <4>1. outbox'[e] = [outbox[e] EXCEPT !.attempts = outbox[e].attempts + 1, !.due = FALSE]
        BY <1>3, <2>2
      <4>2. [outbox[e] EXCEPT !.attempts = outbox[e].attempts + 1, !.due = FALSE] =
              [attempts |-> outbox[e].attempts + 1, due |-> FALSE, sent |-> outbox[e].sent]
        <5>1. outbox[e].attempts + 1 \in Nat
          BY <2>1
        <5> QED
          BY <2>1, <5>1, ClaimedRow, Zenon
      <4> QED
        BY <4>1, <4>2, Zenon
    <3>2. One(e \in Sendable) = 1
      BY <2>2 DEF One
    <3> QED
      BY <2>1, <3>1, <3>2 DEF Mail
  <2>3. CASE e \notin Sendable
    <3>1. One(e \in Sendable) = 0 /\ outbox'[e] = outbox[e]
      BY <1>3, <2>3 DEF One
    <3> QED
      BY <2>1, <3>1
  <2> QED
    BY <2>2, <2>3
<1>5. Locked' = Locked
  BY <1>1 DEF Locked
<1>6. Sendable \subseteq Events
  BY <1>2, MailEntries
<1>7. CASE Fault /\ UNCHANGED batches
  <2>1. MailTypeOK'
    BY <1>1, <1>3, <1>4, <1>7 DEF MailInv, MailTypeOK
  <2>2. \A e \in DOMAIN outbox : Allowance(e) <= Allowance(e)'
    BY <1>4, <1>5, <1>7, FaultsGo, MailEntries, AllowanceGrows DEF One
  <2> QED
    BY <1>1, <1>3, <1>4, <1>7, <2>1, <2>2, FaultsGo, LetsGo DEF MailInv, RowsKnown, HeldApart
<1>8. CASE Ok /\ batches' = [batches EXCEPT ![i].rest = Sendable]
  <2>1. batches[i].rest = {} /\ batches[i].now = None
    BY <1>1 DEF NoBatch
  <2>2. \A j \in Instances :
          batches'[j] = IF j = i THEN [batches[j] EXCEPT !.rest = Sendable] ELSE batches[j]
    BY <1>8 DEF MailInv, MailTypeOK
  <2>3. \A j \in Instances :
          /\ batches'[j] \in Batch /\ batches'[j].now = batches[j].now
          /\ batches'[j].rest = IF j = i THEN Sendable ELSE batches[j].rest
    BY <1>6, <2>2, MailEntries DEF Batch
  <2>4. MailTypeOK'
    <3>1. batches' \in [Instances -> Batch]
      BY <1>8, <2>3 DEF MailInv, MailTypeOK
    <3> QED
      BY <1>1, <1>3, <1>4, <3>1 DEF MailInv, MailTypeOK
  <2>5. RowsKnown' /\ NoneYet' /\ HeldApart'
    BY <1>1, <1>2, <1>3, <1>4, <2>3 DEF MailInv, RowsKnown, NoneYet, HeldApart
  <2>6. CopiesOwed'
    <3> SUFFICES ASSUME NEW e \in DOMAIN outbox
                 PROVE  /\ IsFiniteSet(Owed(e)')
                        /\ inbox[e] + Cardinality(Owed(e)') <= Allowance(e)'
      BY <1>1, <1>3 DEF CopiesOwed
    <3>1. /\ inbox[e] + Cardinality(Owed(e)) <= Allowance(e)
          /\ inbox[e] \in Nat /\ Allowance(e) \in Nat
          /\ IsFiniteSet(Owed(e)) /\ Cardinality(Owed(e)) \in Nat
      BY MailEntries DEF MailInv, CopiesOwed
    <3>2. Allowance(e)' = Allowance(e) + One(e \in Sendable)
      BY <1>4, <1>5, <1>8, MailEntries DEF Allowance, One, Ok, MailInv
    <3>3. CASE e \in Sendable
      <4>1. Owed(e)' = Owed(e) \cup {i} /\ i \notin Owed(e)
        BY <2>1, <2>3, <3>3 DEF Owed
      <4>2. IsFiniteSet(Owed(e)') /\ Cardinality(Owed(e)') = Cardinality(Owed(e)) + 1
        BY <3>1, <4>1, FS_AddElement
      <4> QED
        BY <3>1, <3>2, <3>3, <4>2 DEF One
    <3>4. CASE e \notin Sendable
      <4>1. Owed(e)' = Owed(e)
        BY <2>1, <2>3, <3>4 DEF Owed
      <4> QED
        BY <3>1, <3>2, <3>4, <4>1 DEF One
    <3> QED
      BY <3>3, <3>4
  <2> QED
    BY <1>1, <1>8, <2>4, <2>5, <2>6, FaultsGo DEF MailInv
<1> QED
  BY <1>1, <1>7, <1>8

\* An attempt to send: the batch no longer owes it, and it may have arrived.
LEMMA SendMailKeeps ==
    ASSUME MailInv, NEW i \in Instances, NEW e \in Events, SendMail(i, e)
    PROVE  MailInv'
<1>1. /\ e \in batches[i].rest /\ batches[i] \in Batch /\ e \in DOMAIN outbox
      /\ inbox[e] \in Nat
      /\ UNCHANGED <<outbox, digesting, digests, toggles, faults>>
  BY MailEntries DEF SendMail, MailInv, RowsKnown
<1>2. PICK o \in Outcomes :
        /\ batches' = [batches EXCEPT ![i] = [rest |-> @.rest \ {e}, now |-> e, result |-> o.result]]
        /\ inbox' = [inbox EXCEPT ![e] = @ + (IF o.arrived THEN 1 ELSE 0)]
  BY DEF SendMail
<1>3. /\ batches' \in [Instances -> Batch]
      /\ \A j \in Instances : batches'[j].rest = IF j = i THEN batches[j].rest \ {e} ELSE batches[j].rest
      /\ \A j \in Instances : batches'[j].now = IF j = i THEN e ELSE batches[j].now
  <2>1. [rest |-> batches[i].rest \ {e}, now |-> e, result |-> o.result] \in Batch
    BY <1>1 DEF Batch, Outcomes, Outcome, Results
  <2>2. batches \in [Instances -> Batch]
    BY DEF MailInv, MailTypeOK
  <2> QED
    BY <1>2, <2>1, <2>2
<1>4. /\ inbox' \in [Events -> Nat]
      /\ inbox'[e] <= inbox[e] + 1
      /\ \A x \in Events : x # e => inbox'[x] = inbox[x]
  BY <1>1, <1>2 DEF MailInv, MailTypeOK
<1>5. MailTypeOK'
  BY <1>1, <1>3, <1>4 DEF MailInv, MailTypeOK
<1>6. RowsKnown' /\ NoneYet' /\ HeldApart'
  BY <1>1, <1>3, <1>4 DEF MailInv, RowsKnown, NoneYet, HeldApart
<1>7. CopiesOwed'
  <2> SUFFICES ASSUME NEW x \in DOMAIN outbox
               PROVE  /\ IsFiniteSet(Owed(x)')
                      /\ inbox'[x] + Cardinality(Owed(x)') <= Allowance(x)'
    BY <1>1 DEF CopiesOwed
  <2>1. /\ inbox[x] + Cardinality(Owed(x)) <= Allowance(x)
        /\ inbox[x] \in Nat /\ inbox'[x] \in Nat /\ Allowance(x) \in Nat /\ x \in Events
        /\ IsFiniteSet(Owed(x)) /\ Cardinality(Owed(x)) \in Nat
    BY <1>4, MailEntries DEF MailInv, CopiesOwed
  <2>2. Allowance(x)' = Allowance(x)
    BY <1>1 DEF Allowance, Locked
  <2>3. CASE x = e
    <3>1. Owed(x)' = Owed(x) \ {i} /\ i \in Owed(x)
      BY <1>1, <1>3, <2>3 DEF Owed
    <3>2. IsFiniteSet(Owed(x)') /\ Cardinality(Owed(x)') = Cardinality(Owed(x)) - 1
      BY <2>1, <3>1, FS_RemoveElement
    <3> QED
      BY <1>4, <2>1, <2>2, <2>3, <3>2
  <2>4. CASE x # e
    <3>1. Owed(x)' = Owed(x)
      BY <1>3, <2>4 DEF Owed
    <3> QED
      BY <1>4, <2>1, <2>2, <2>4, <3>1
  <2> QED
    BY <2>3, <2>4
<1> QED
  BY <1>1, <1>5, <1>6, <1>7 DEF MailInv

LEMMA RecordMailKeeps ==
    ASSUME MailInv, NEW i \in Instances, RecordMail(i)
    PROVE  MailInv'
<1> DEFINE e == batches[i].now
<1>1. /\ e # None /\ e \notin Locked /\ e \in DOMAIN outbox /\ batches[i] \in Batch
      /\ batches' = [batches EXCEPT ![i].now = None, ![i].result = "none"]
      /\ UNCHANGED <<digesting, digests, inbox, toggles>>
      /\ \/ outbox' = [outbox EXCEPT ![e] = AfterSend(@, batches[i].result)] /\ Ok
         \/ Fault /\ UNCHANGED outbox
  BY MailEntries DEF RecordMail, MailInv, RowsKnown
<1>2. /\ batches' \in [Instances -> Batch]
      /\ \A j \in Instances : batches'[j].rest = batches[j].rest
      /\ \A j \in Instances : batches'[j].now = IF j = i THEN None ELSE batches[j].now
  <2>1. batches \in [Instances -> Batch]
    BY DEF MailInv, MailTypeOK
  <2>2. batches'[i] = [rest |-> batches[i].rest, now |-> None, result |-> "none"]
    <3>1. batches'[i] = [[batches[i] EXCEPT !.now = None] EXCEPT !.result = "none"]
      BY <1>1, <2>1
    <3>2. [batches[i] EXCEPT !.now = None] =
            [rest |-> batches[i].rest, now |-> None, result |-> batches[i].result]
      BY <1>1 DEF Batch
    <3>3. [[rest |-> batches[i].rest, now |-> None, result |-> batches[i].result]
             EXCEPT !.result = "none"] =
            [rest |-> batches[i].rest, now |-> None, result |-> "none"]
      OBVIOUS
    <3> QED
      BY <3>1, <3>2, <3>3, Zenon
  <2>3. batches'[i] \in Batch
    <3>1. batches[i].rest \in SUBSET Events
      BY <1>1 DEF Batch
    <3>2. [rest |-> batches[i].rest, now |-> None, result |-> "none"] \in Batch
      BY <3>1 DEF Batch, Results
    <3> QED
      BY <2>2, <3>2, Zenon
  <2>4. \A j \in Instances : j # i => batches'[j] = batches[j]
    BY <1>1, <2>1
  <2>5. batches' = [j \in Instances |-> batches'[j]]
    BY <1>1, <2>1
  <2> QED
    BY <2>1, <2>2, <2>3, <2>4, <2>5
<1>3. /\ DOMAIN outbox' = DOMAIN outbox
      /\ \A x \in DOMAIN outbox :
           /\ outbox'[x] \in Mail /\ outbox'[x].attempts = outbox[x].attempts
           /\ outbox'[x].sent = outbox[x].sent \/ (x = e /\ outbox'[x].sent)
  <2>1. \A t \in Mail, r \in Results :
          /\ AfterSend(t, r) \in Mail /\ AfterSend(t, r).attempts = t.attempts
          /\ AfterSend(t, r).sent = t.sent \/ AfterSend(t, r).sent
    BY DEF Mail, AfterSend
  <2>2. batches[i].result \in Results
    BY <1>1 DEF Batch
  <2> HIDE DEF e
  <2> QED
    BY <1>1, <2>1, <2>2, MailEntries
<1>4. MailTypeOK'
  BY <1>1, <1>2, <1>3 DEF MailInv, MailTypeOK
<1>5. \A x \in DOMAIN outbox : Allowance(x) <= Allowance(x)'
  <2> SUFFICES ASSUME NEW x \in DOMAIN outbox
               PROVE  Allowance(x) <= Allowance(x)'
    OBVIOUS
  <2>1. /\ faults' \in Nat /\ faults <= faults' /\ Locked' = Locked
        /\ outbox[x].attempts \in Nat /\ outbox'[x].attempts = outbox[x].attempts
    BY <1>1, <1>3, FaultsGo, MailEntries DEF Locked
  <2>2. CASE outbox'[x].sent = outbox[x].sent
    BY <2>1, <2>2, AllowanceGrows
  <2>3. CASE outbox'[x].sent
    BY <2>1, <2>3 DEF Allowance, One, MailInv
  <2> QED
    BY <1>3, <2>2, <2>3
<1>6. \A j \in Instances : \A x \in digests[j].rows : x \in DOMAIN outbox /\ x # e /\ ~ outbox[x].sent
  BY <1>1 DEF MailInv, RowsKnown, HeldApart, Locked
<1>7. \A j \in Instances : \A x \in digests'[j].rows : ~ outbox'[x].sent
  BY <1>1, <1>3, <1>6
<1> HIDE DEF e
<1> QED
  BY <1>1, <1>2, <1>3, <1>4, <1>5, <1>7, FaultsGo, LetsGo DEF MailInv, RowsKnown

LEMMA OneBounds == ASSUME NEW b PROVE One(b) \in Nat /\ One(b) <= 1
BY DEF One

\* A digest sends what nobody holds: every copy is of a row it holds now.
LEMMA DigestOneKeeps ==
    ASSUME MailInv, NEW i \in Instances, NEW m \in Members, DigestOne(i, m)
    PROVE  MailInv'
<1> DEFINE held == Holdable(m)
<1>1. /\ digests[i].rows = {} /\ digests[i] \in Digest
      /\ UNCHANGED <<outbox, digesting, batches, toggles, faults>>
  BY MailEntries DEF DigestOne
<1>2. PICK o \in Outcomes :
        /\ digests' = [digests EXCEPT ![i] =
                [members |-> @.members \ {m}, rows |-> held,
                 result |-> IF held = {} THEN "none" ELSE o.result]]
        /\ inbox' = [e \in Events |-> inbox[e] + (IF e \in held /\ o.arrived THEN 1 ELSE 0)]
  BY DEF DigestOne
<1>3. \A e \in held : e \in DOMAIN outbox /\ e \in Events /\ ~ outbox[e].sent /\ e \notin Locked
  BY MailEntries DEF Holdable, Open
<1> HIDE DEF held
<1>4. /\ digests' \in [Instances -> Digest]
      /\ \A j \in Instances : digests'[j].rows = IF j = i THEN held ELSE digests[j].rows
  <2>1. (IF held = {} THEN "none" ELSE o.result) \in Results /\ held \in SUBSET Events
    BY <1>3 DEF Outcomes, Outcome, Results
  <2>2. [members |-> digests[i].members \ {m}, rows |-> held,
         result |-> IF held = {} THEN "none" ELSE o.result] \in Digest
    BY <1>1, <2>1 DEF Digest
  <2>3. digests \in [Instances -> Digest]
    BY DEF MailInv, MailTypeOK
  <2> QED
    BY <1>2, <2>2, <2>3
<1>5. /\ inbox' \in [Events -> Nat]
      /\ \A e \in Events : inbox'[e] <= inbox[e] + One(e \in held)
      /\ \A e \in Events \ held : inbox'[e] = inbox[e]
  <2>1. inbox \in [Events -> Nat]
    BY DEF MailInv, MailTypeOK
  <2> QED
    BY <1>2, <2>1 DEF One
<1>6. MailTypeOK'
  BY <1>1, <1>4, <1>5 DEF MailInv, MailTypeOK
<1>7. \A j \in Instances : digests[j].rows \cap held = {}
  BY <1>3 DEF Locked
<1>8. RowsKnown' /\ NoneYet' /\ HeldApart'
  <2>1. RowsKnown' /\ NoneYet'
    BY <1>1, <1>3, <1>4, <1>5 DEF MailInv, RowsKnown, NoneYet
  <2>2. HeldApart'
    BY <1>1, <1>3, <1>4, <1>7 DEF MailInv, HeldApart
  <2> QED
    BY <2>1, <2>2
<1>9. \A e : e \in Locked' <=> e \in Locked \/ e \in held
  <2>1. \A e : e \in Locked <=> \E j \in Instances : e \in digests[j].rows
    BY DEF Locked
  <2>2. \A e : e \in Locked' <=> \E j \in Instances : e \in digests'[j].rows
    BY DEF Locked
  <2> QED
    BY <1>1, <1>4, <2>1, <2>2
<1>10. CopiesOwed'
  <2> SUFFICES ASSUME NEW e \in DOMAIN outbox
               PROVE  /\ IsFiniteSet(Owed(e)')
                      /\ inbox'[e] + Cardinality(Owed(e)') <= Allowance(e)'
    BY <1>1 DEF CopiesOwed
  <2>1. /\ inbox[e] + Cardinality(Owed(e)) <= Allowance(e)
        /\ inbox[e] \in Nat /\ inbox'[e] \in Nat /\ Allowance(e) \in Nat /\ e \in Events
        /\ IsFiniteSet(Owed(e)) /\ Cardinality(Owed(e)) \in Nat
    BY <1>5, MailEntries DEF MailInv, CopiesOwed
  <2>2. Owed(e)' = Owed(e)
    BY <1>1 DEF Owed
  <2>3. /\ outbox[e].attempts \in Nat /\ One(outbox[e].sent) \in Nat /\ faults \in Nat
        /\ One(e \in Locked) \in Nat /\ One(e \in held) \in Nat
    BY MailEntries, OneBounds DEF MailInv
  <2>4. Allowance(e)' = outbox[e].attempts + One(outbox[e].sent) + One(e \in Locked') + faults
    BY <1>1 DEF Allowance
  <2>5. One(e \in Locked') = One(e \in Locked) + One(e \in held)
    BY <1>3, <1>9 DEF One
  <2>6. Allowance(e)' = Allowance(e) + One(e \in held)
    BY <2>3, <2>4, <2>5 DEF Allowance
  <2> QED
    BY <1>5, <2>1, <2>2, <2>3, <2>6
<1> QED
  BY <1>1, <1>6, <1>8, <1>10 DEF MailInv

LEMMA RowsOfDigest ==
    ASSUME NEW d \in Digest, NEW es \in SUBSET Events
    PROVE  [d EXCEPT !.rows = es] = [members |-> d.members, rows |-> es, result |-> d.result]
BY DEF Digest

LEMMA CountedMail ==
    ASSUME NEW t \in Mail
    PROVE  /\ [t EXCEPT !.sent = TRUE] \in Mail
           /\ [t EXCEPT !.sent = TRUE].attempts = t.attempts /\ [t EXCEPT !.sent = TRUE].sent
           /\ [t EXCEPT !.attempts = @ + 1] \in Mail
           /\ [t EXCEPT !.attempts = @ + 1].attempts = t.attempts + 1
           /\ [t EXCEPT !.attempts = @ + 1].sent = t.sent
<1>1. [t EXCEPT !.sent = TRUE] \in Mail
  BY DEF Mail
<1>2. [t EXCEPT !.sent = TRUE].attempts = t.attempts
  BY DEF Mail
<1>3. [t EXCEPT !.sent = TRUE].sent
  BY DEF Mail
<1>4. [t EXCEPT !.attempts = @ + 1] \in Mail
  BY DEF Mail
<1>5. [t EXCEPT !.attempts = @ + 1].attempts = t.attempts + 1
  BY DEF Mail
<1>6. [t EXCEPT !.attempts = @ + 1].sent = t.sent
  BY DEF Mail
<1> QED
  BY <1>1, <1>2, <1>3, <1>4, <1>5, <1>6

\* What a digest held is marked, counted or left by a fault.
LEMMA EndDigestKeeps ==
    ASSUME MailInv, NEW i \in Instances, EndDigest(i)
    PROVE  MailInv'
<1> DEFINE held == digests[i].rows
           After(e) == IF digests[i].result = "sent" THEN [outbox[e] EXCEPT !.sent = TRUE]
                       ELSE [outbox[e] EXCEPT !.attempts = @ + 1]
<1>1. /\ digests[i] \in Digest /\ digests \in [Instances -> Digest]
      /\ digests' = [digests EXCEPT ![i].rows = {}, ![i].result = "none"]
      /\ UNCHANGED <<digesting, batches, inbox, toggles>>
      /\ \/ outbox' = [e \in DOMAIN outbox |-> IF e \notin held THEN outbox[e] ELSE After(e)] /\ Ok
         \/ Fault /\ UNCHANGED outbox
  BY MailEntries DEF EndDigest, MailInv, MailTypeOK
<1>2. /\ digests' \in [Instances -> Digest]
      /\ \A j \in Instances : digests'[j].rows = IF j = i THEN {} ELSE digests[j].rows
  <2>1. digests'[i] = [members |-> digests[i].members, rows |-> {}, result |-> "none"]
    <3>1. digests'[i] = [[digests[i] EXCEPT !.rows = {}] EXCEPT !.result = "none"]
      BY <1>1
    <3>2. [digests[i] EXCEPT !.rows = {}] =
            [members |-> digests[i].members, rows |-> {}, result |-> digests[i].result]
      BY <1>1, RowsOfDigest
    <3>3. [[members |-> digests[i].members, rows |-> {}, result |-> digests[i].result]
             EXCEPT !.result = "none"] =
            [members |-> digests[i].members, rows |-> {}, result |-> "none"]
      OBVIOUS
    <3> QED
      BY <3>1, <3>2, <3>3, Zenon
  <2>2. digests'[i] \in Digest
    <3>1. digests[i].members \in SUBSET Members
      BY <1>1 DEF Digest
    <3>2. [members |-> digests[i].members, rows |-> {}, result |-> "none"] \in Digest
      BY <3>1 DEF Digest, Results
    <3> QED
      BY <2>1, <3>2, Zenon
  <2>3. \A j \in Instances : j # i => digests'[j] = digests[j]
    BY <1>1
  <2>4. digests' = [j \in Instances |-> digests'[j]]
    BY <1>1
  <2> QED
    BY <1>1, <2>1, <2>2, <2>3, <2>4
<1>3. \A e \in DOMAIN outbox :
        /\ After(e) \in Mail
        /\ IF digests[i].result = "sent"
             THEN After(e).attempts = outbox[e].attempts /\ After(e).sent
             ELSE After(e).attempts = outbox[e].attempts + 1 /\ After(e).sent = outbox[e].sent
  BY MailEntries, CountedMail
<1>4. \A e \in held : e \in DOMAIN outbox /\ e \in Locked /\ ~ outbox[e].sent
  BY DEF MailInv, RowsKnown, HeldApart, Locked
<1> HIDE DEF After
<1>5. /\ DOMAIN outbox' = DOMAIN outbox
      /\ \A e \in DOMAIN outbox : outbox'[e] \in Mail /\ (e \notin held => outbox'[e] = outbox[e])
  BY <1>1, <1>3, MailEntries
<1>6. MailTypeOK'
  BY <1>1, <1>2, <1>5 DEF MailInv, MailTypeOK
<1>7. \A e \in DOMAIN outbox : Allowance(e) <= Allowance(e)'
  <2> SUFFICES ASSUME NEW e \in DOMAIN outbox
               PROVE  Allowance(e) <= Allowance(e)'
    OBVIOUS
  <2>1. /\ faults \in Nat /\ faults' \in Nat /\ faults <= faults'
        /\ Fault => faults' = faults + 1
        /\ outbox[e].attempts \in Nat /\ outbox'[e].attempts \in Nat
        /\ outbox[e].sent \in BOOLEAN
    BY <1>1, <1>5, FaultsGo, MailEntries DEF MailInv, Mail
  <2>2. /\ One(outbox[e].sent) \in Nat /\ One(outbox'[e].sent) \in Nat
        /\ One(e \in Locked) \in Nat /\ One(e \in Locked) <= 1 /\ One(e \in Locked') \in Nat
    BY OneBounds
  <2>3. Allowance(e)' = outbox'[e].attempts + One(outbox'[e].sent) + One(e \in Locked') + faults'
    BY DEF Allowance
  <2>4. CASE e \notin held
    <3>1. outbox'[e] = outbox[e] /\ (e \in Locked' <=> e \in Locked)
      BY <1>2, <1>5, <2>4 DEF Locked
    <3>2. One(e \in Locked') = One(e \in Locked)
      BY <3>1 DEF One
    <3> QED
      BY <2>1, <2>2, <2>3, <3>1, <3>2 DEF Allowance
  <2>5. CASE e \in held
    <3>1. One(outbox[e].sent) = 0
      BY <1>4, <2>5 DEF One
    <3>2. CASE Fault /\ UNCHANGED outbox
      BY <2>1, <2>2, <2>3, <3>1, <3>2 DEF Allowance
    <3>3. CASE outbox'[e] = After(e) /\ digests[i].result = "sent"
      <4>1. outbox'[e].attempts = outbox[e].attempts /\ One(outbox'[e].sent) = 1
        BY <1>3, <3>3 DEF One
      <4> QED
        BY <2>1, <2>2, <2>3, <3>1, <4>1 DEF Allowance
    <3>4. CASE outbox'[e] = After(e) /\ digests[i].result # "sent"
      <4>1. outbox'[e].attempts = outbox[e].attempts + 1
        BY <1>3, <3>4
      <4> QED
        BY <2>1, <2>2, <2>3, <3>1, <4>1 DEF Allowance
    <3> QED
      BY <1>1, <2>5, <3>2, <3>3, <3>4
  <2> QED
    BY <2>4, <2>5
<1>8. \A j \in Instances : \A e \in digests'[j].rows : e \notin held /\ e \in DOMAIN outbox
  BY <1>2 DEF MailInv, RowsKnown, HeldApart
<1>9. \A j \in Instances : /\ digests'[j].rows \subseteq digests[j].rows
                           /\ \A e \in digests'[j].rows : ~ outbox'[e].sent
  BY <1>2, <1>5, <1>8 DEF MailInv, HeldApart
<1> HIDE DEF held
<1> QED
  BY <1>1, <1>5, <1>6, <1>7, <1>9, FaultsGo, LetsGo DEF MailInv, RowsKnown

LEMMA StopMailKeeps ==
    ASSUME MailInv, NEW i \in Instances, StopMail(i), Fault
    PROVE  MailInv'
<1>1. /\ batches' = [batches EXCEPT ![i] = NoBatch]
      /\ digests' = [digests EXCEPT ![i] = NoDigest]
      /\ UNCHANGED <<outbox, digesting, inbox, toggles>>
  BY DEF StopMail
<1>2. NoBatch \in Batch /\ NoDigest \in Digest
  BY DEF NoBatch, NoDigest, Batch, Digest, Results
<1>3. MailTypeOK'
  BY <1>1, <1>2 DEF MailInv, MailTypeOK
<1>4. \A j \in Instances :
        /\ batches'[j].rest \subseteq batches[j].rest
        /\ batches'[j].now # None => batches'[j].now = batches[j].now
        /\ digests'[j].rows \subseteq digests[j].rows
  BY <1>1 DEF MailInv, MailTypeOK, NoBatch, NoDigest
<1>5. \A e \in DOMAIN outbox : Allowance(e) <= Allowance(e)'
  <2> SUFFICES ASSUME NEW e \in DOMAIN outbox
               PROVE  Allowance(e) <= Allowance(e)'
    OBVIOUS
  <2>1. /\ faults \in Nat /\ faults' = faults + 1 /\ outbox[e].attempts \in Nat
        /\ One(outbox[e].sent) \in Nat /\ One(e \in Locked) \in Nat
        /\ One(e \in Locked) <= 1 /\ One(e \in Locked') \in Nat
    BY MailEntries, OneBounds, FaultsGo DEF MailInv
  <2>2. Allowance(e)' = outbox[e].attempts + One(outbox[e].sent) + One(e \in Locked') + faults'
    BY <1>1 DEF Allowance
  <2> QED
    BY <2>1, <2>2 DEF Allowance
<1> QED
  BY <1>1, <1>3, <1>4, <1>5, FaultsGo, LetsGo DEF MailInv, RowsKnown, HeldApart

LEMMA MailStep ==
    ASSUME MailInv, MailNext
    PROVE  MailInv'
BY PutKeeps, MailDueKeeps, ClaimDueKeeps, RecordMailKeeps, StartDigestKeeps, EndDigestKeeps,
   SendMailKeeps, DigestOneKeeps DEF MailNext

\* No step but the insert changes which rows there are.
LEMMA MailRowsStay ==
    ASSUME MailNext
    PROVE  DOMAIN outbox' = DOMAIN outbox /\ (Fault \/ Ok)
<1>1. \A m \in Members : Put(m) => UNCHANGED outbox /\ Ok
  BY DEF Put, Ok
<1>2. \A e \in Events : MailDue(e) => DOMAIN outbox' = DOMAIN outbox /\ Ok
  BY DEF MailDue, Ok
<1>3. \A i \in Instances : ClaimDue(i) => DOMAIN outbox' = DOMAIN outbox /\ (Fault \/ Ok)
  BY DEF ClaimDue, Claim
<1>4. \A i \in Instances : RecordMail(i) => DOMAIN outbox' = DOMAIN outbox /\ (Fault \/ Ok)
  BY DEF RecordMail
<1>5. \A i \in Instances : StartDigest(i) => UNCHANGED outbox /\ Ok
  BY DEF StartDigest, Ok
<1>6. \A i \in Instances : EndDigest(i) => DOMAIN outbox' = DOMAIN outbox /\ (Fault \/ Ok)
  BY DEF EndDigest
<1>7. \A i \in Instances, e \in Events : SendMail(i, e) => UNCHANGED outbox /\ Ok
  BY DEF SendMail, Ok
<1>8. \A i \in Instances, m \in Members : DigestOne(i, m) => UNCHANGED outbox /\ Ok
  BY DEF DigestOne, Ok
<1> QED
  BY <1>1, <1>2, <1>3, <1>4, <1>5, <1>6, <1>7, <1>8 DEF MailNext

LEMMA HooksMoves == HooksNext => Fault \/ Ok
BY DEF HooksNext, Register, Remove, HookDue, DeliverDue, Post, Record, ScheduleRetry, Ok

-----------------------------------------------------------------------------
(***************************************************************************)
(* Both.  The two share the count of faults only; the order in which the   *)
(* handler tells them is why the mail's row is new when it is written.     *)
(***************************************************************************)

\* The mail outbox hears of an event once.
Untold == \A e \in Events : tee[e] # "told" => e \notin DOMAIN outbox

OutboxInv ==
    /\ HooksInv /\ MailInv
    /\ faults \in 0 .. MaxFaults
    /\ tee \in [Events -> {"new", "webhooks", "told"}]
    /\ Untold

LEMMA InitOutboxes == Init => OutboxInv
<1> SUFFICES ASSUME Init
             PROVE  OutboxInv
  OBVIOUS
<1>1. Untold
  BY DEF Init, MailInit, Untold
<1>2. tee \in [Events -> {"new", "webhooks", "told"}] /\ faults \in 0 .. MaxFaults
  BY FaultsBounded DEF Init
<1> QED
  BY <1>1, <1>2, InitHooks, InitMail DEF Init, OutboxInv

LEMMA MailsAside ==
    ASSUME OutboxInv, UNCHANGED mailVars, Fault \/ Ok
    PROVE  MailInv'
<1>1. MailTypeOK'
  BY DEF OutboxInv, MailInv, MailTypeOK, mailVars
<1> QED
  BY <1>1, SameMails DEF OutboxInv, mailVars

LEMMA HooksAside ==
    ASSUME OutboxInv, UNCHANGED hookVars
    PROVE  HooksInv'
BY SameTable DEF OutboxInv, hookVars

LEMMA FaultsBound ==
    ASSUME OutboxInv, Fault \/ Ok
    PROVE  faults' \in 0 .. MaxFaults
BY FaultsBounded DEF OutboxInv, Fault, Ok

LEMMA OutboxStep ==
    ASSUME OutboxInv, [Next]_vars
    PROVE  OutboxInv'
<1>1. ASSUME NEW e \in Events, TellWebhooks(e)
      PROVE  OutboxInv'
  <2>1. /\ EnqueueHooks(e) /\ UNCHANGED mailVars /\ (Fault \/ Ok)
        /\ tee' = [tee EXCEPT ![e] = "webhooks"] /\ tee[e] = "new"
    BY <1>1 DEF TellWebhooks, EnqueueHooks
  <2>2. HooksInv' /\ MailInv' /\ faults' \in 0 .. MaxFaults
    BY <2>1, EnqueueHooksKeeps, MailsAside, FaultsBound DEF OutboxInv
  <2> QED
    BY <2>1, <2>2 DEF OutboxInv, Untold, mailVars
<1>2. ASSUME NEW e \in Events, TellMail(e)
      PROVE  OutboxInv'
  <2>1. /\ EnqueueMail(e) /\ UNCHANGED hookVars /\ (Fault \/ Ok)
        /\ tee' = [tee EXCEPT ![e] = "told"] /\ tee[e] = "webhooks"
        /\ DOMAIN outbox' \subseteq DOMAIN outbox \cup {e}
    BY <1>2 DEF TellMail, EnqueueMail
  <2>2. e \notin DOMAIN outbox
    BY <2>1 DEF OutboxInv, Untold
  <2>3. HooksInv' /\ MailInv' /\ faults' \in 0 .. MaxFaults
    BY <2>1, <2>2, EnqueueMailKeeps, HooksAside, FaultsBound DEF OutboxInv
  <2> QED
    BY <2>1, <2>3 DEF OutboxInv, Untold
<1>3. ASSUME NEW i \in Instances, Stop(i)
      PROVE  OutboxInv'
  <2>1. Fault /\ StopHooks(i) /\ StopMail(i)
    BY <1>3 DEF Stop
  <2>2. PICK lost \in SUBSET {e \in Events : tee[e] = "webhooks"} :
          tee' = [e \in Events |-> IF e \in lost THEN "told" ELSE tee[e]]
    BY <1>3 DEF Stop
  <2>3. HooksInv' /\ MailInv' /\ faults' \in 0 .. MaxFaults
    BY <2>1, StopHooksKeeps, StopMailKeeps, FaultsBound DEF OutboxInv
  <2>4. tee' \in [Events -> {"new", "webhooks", "told"}] /\ Untold'
    BY <2>1, <2>2 DEF OutboxInv, Untold, StopMail
  <2> QED
    BY <2>3, <2>4 DEF OutboxInv
<1>4. CASE Webhooks
  <2>1. HooksInv' /\ MailInv' /\ faults' \in 0 .. MaxFaults
    BY <1>4, HooksStep, HooksMoves, MailsAside, FaultsBound DEF OutboxInv, Webhooks
  <2> QED
    BY <1>4, <2>1 DEF OutboxInv, Untold, Webhooks, mailVars
<1>5. CASE Mails
  <2>1. HooksInv' /\ MailInv' /\ faults' \in 0 .. MaxFaults
    BY <1>5, MailStep, MailRowsStay, HooksAside, FaultsBound DEF OutboxInv, Mails
  <2> QED
    BY <1>5, <2>1, MailRowsStay DEF OutboxInv, Untold, Mails
<1>6. CASE UNCHANGED vars
  <2>1. HooksInv' /\ MailInv' /\ faults' \in 0 .. MaxFaults
    BY <1>6, HooksAside, MailsAside, FaultsBound DEF OutboxInv, vars, Ok
  <2> QED
    BY <1>6, <2>1 DEF OutboxInv, Untold, vars, mailVars
<1> QED
  BY <1>1, <1>2, <1>3, <1>4, <1>5, <1>6 DEF Next

\* The parts hold in every reachable state of the two outboxes together.
THEOREM OutboxInvariant == Spec => []OutboxInv
<1> QED
  BY InitOutboxes, OutboxStep, PTL DEF Spec

\* Both outboxes, the faults and the handler's progress keep their types.
THEOREM TypesOfOutboxes == Spec => []TypeOK
<1>1. OutboxInv => TypeOK
  BY DEF OutboxInv, HooksInv, MailInv, TypeOK
<1> QED
  BY <1>1, OutboxInvariant, PTL

\* No attempt at a webhook is sent twice, however many instances run
\* DeliverDue, whatever stops and whichever statements fail.
THEOREM WebhooksSentOnce == Spec => []AttemptSentOnce
<1>1. OutboxInv => AttemptSentOnce
  BY DEF OutboxInv, HooksInv
<1> QED
  BY <1>1, OutboxInvariant, PTL

\* A row is in one digest at most.
LEMMA DigestsOfARow ==
    ASSUME MailInv, NEW e
    PROVE  InDigest(e) = One(e \in Locked)
<1> DEFINE holders == {i \in Instances : e \in digests[i].rows}
<1>1. CASE e \in Locked
  <2>1. PICK i \in Instances : e \in digests[i].rows
    BY <1>1 DEF Locked
  <2>2. holders = {i}
    BY <2>1 DEF MailInv, HeldApart
  <2> QED
    BY <1>1, <2>2, FS_Singleton DEF InDigest, One
<1>2. CASE e \notin Locked
  <2>1. holders = {}
    BY <1>2 DEF Locked
  <2> QED
    BY <1>2, <2>1, FS_EmptySet DEF InDigest, One
<1> QED
  BY <1>1, <1>2

\* An assignee gets at most one copy of a mail for each counted attempt, for
\* the digest that marked it or holds it, and for each fault: SendDue's lease
\* and digestOne's lock leave no other way to a second copy.
THEOREM CopiesCounted == Spec => []CopiesAreCounted
<1>1. OutboxInv => CopiesAreCounted
  <2> SUFFICES ASSUME OutboxInv, NEW e \in DOMAIN outbox
               PROVE  inbox[e] <= outbox[e].attempts + (IF outbox[e].sent THEN 1 ELSE 0)
                                    + InDigest(e) + faults
    BY DEF CopiesAreCounted
  <2>1. MailInv
    BY DEF OutboxInv
  <2>2. /\ inbox[e] + Cardinality(Owed(e)) <= Allowance(e)
        /\ inbox[e] \in Nat /\ Cardinality(Owed(e)) \in Nat /\ Allowance(e) \in Nat
    BY <2>1, MailEntries DEF MailInv, CopiesOwed
  <2>3. InDigest(e) = One(e \in Locked)
    BY <2>1, DigestsOfARow
  <2> QED
    BY <2>2, <2>3 DEF Allowance, One
<1> QED
  BY <1>1, OutboxInvariant, PTL

LEMMA HeldRowStays ==
    ASSUME OutboxInv, Next, NEW i \in Instances,
           NEW e, e \in digests[i].rows, e \in digests'[i].rows
    PROVE  outbox[e].attempts = outbox'[e].attempts /\ outbox[e].sent = outbox'[e].sent
<1>1. MailInv /\ e \in DOMAIN outbox /\ e \in Locked
  BY DEF OutboxInv, MailInv, RowsKnown, Locked
<1>2. CASE UNCHANGED outbox
  BY <1>2
<1>3. ASSUME NEW x \in Events, MailDue(x)
      PROVE  outbox[e].attempts = outbox'[e].attempts /\ outbox[e].sent = outbox'[e].sent
  <2>1. outbox[e] \in Mail /\ outbox' = [outbox EXCEPT ![x].due = TRUE]
    BY <1>1, <1>3, MailEntries DEF MailDue
  <2>2. outbox'[e] = outbox[e] \/ outbox'[e] = [outbox[e] EXCEPT !.due = TRUE]
    BY <1>1, <2>1
  <2> QED
    BY <2>1, <2>2 DEF Mail
<1>4. ASSUME NEW j \in Instances, ClaimDue(j)
      PROVE  UNCHANGED outbox[e]
  BY <1>1, <1>4 DEF ClaimDue, Claim, Sendable
<1>5. ASSUME NEW j \in Instances, RecordMail(j)
      PROVE  UNCHANGED outbox[e]
  BY <1>1, <1>5 DEF RecordMail
<1>6. ASSUME NEW j \in Instances, EndDigest(j)
      PROVE  UNCHANGED outbox[e]
  <2>1. digests' = [digests EXCEPT ![j].rows = {}, ![j].result = "none"]
    BY <1>6 DEF EndDigest
  <2>2. digests'[j].rows = {}
    <3>1. digests[j] \in Digest /\ digests \in [Instances -> Digest]
      BY <1>1, MailEntries DEF MailInv, MailTypeOK
    <3>2. digests'[j] = [[digests[j] EXCEPT !.rows = {}] EXCEPT !.result = "none"]
      BY <2>1, <3>1
    <3>3. [digests[j] EXCEPT !.rows = {}] =
            [members |-> digests[j].members, rows |-> {}, result |-> digests[j].result]
      BY <3>1, RowsOfDigest
    <3> QED
      BY <3>2, <3>3
  <2>3. e \notin digests[j].rows
    BY <1>1, <2>2 DEF MailInv, HeldApart
  <2> QED
    BY <1>1, <1>6, <2>3 DEF EndDigest
<1>7. ASSUME NEW x \in Events, TellMail(x)
      PROVE  UNCHANGED outbox[e]
  <2>1. x # e
    BY <1>1, <1>7 DEF TellMail, OutboxInv, Untold
  <2> QED
    BY <1>1, <1>7, <2>1 DEF TellMail, EnqueueMail
<1>8. CASE \E x \in Events : TellWebhooks(x)
  BY <1>2, <1>8 DEF TellWebhooks, mailVars
<1>9. CASE \E j \in Instances : Stop(j)
  BY <1>2, <1>9 DEF Stop, StopMail
<1>10. CASE Webhooks
  BY <1>2, <1>10 DEF Webhooks, mailVars
<1>11. CASE Mails
  <2>1. \A m \in Members : Put(m) => UNCHANGED outbox
    BY DEF Put
  <2>2. \A j \in Instances : StartDigest(j) => UNCHANGED outbox
    BY DEF StartDigest
  <2>3. \A j \in Instances, x \in Events : SendMail(j, x) => UNCHANGED outbox
    BY DEF SendMail
  <2>4. \A j \in Instances, m \in Members : DigestOne(j, m) => UNCHANGED outbox
    BY DEF DigestOne
  <2> QED
    BY <1>2, <1>3, <1>4, <1>5, <1>6, <1>11, <2>1, <2>2, <2>3, <2>4 DEF Mails, MailNext
<1> QED
  BY <1>7, <1>8, <1>9, <1>10, <1>11 DEF Next

\* While a digest holds a mail, neither SendDue nor another digest writes its
\* row (FOR UPDATE SKIP LOCKED in both).
THEOREM HeldUntouched == Spec => HeldIsUntouched
<1>1. OutboxInv /\ [Next]_vars =>
        [\A i \in Instances : \A e \in digests[i].rows \cap digests[i].rows' :
            outbox[e].attempts = outbox'[e].attempts /\ outbox[e].sent = outbox'[e].sent
        ]_<<mailVars, faults>>
  BY HeldRowStays DEF vars
<1> QED
  BY <1>1, OutboxInvariant, PTL DEF Spec, HeldIsUntouched
=============================================================================
