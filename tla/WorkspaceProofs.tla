--------------------------- MODULE WorkspaceProofs ---------------------------
(***************************************************************************)
(* Proofs about WorkspaceLifecycle for any number of workspaces, instances *)
(* and requests.  Of the schema they use SchemaFits only.                  *)
(***************************************************************************)
EXTENDS WorkspaceLifecycle, FiniteSetTheorems, TLAPS

Purges(i) == purge[i].pc = "purge"

\* Who purges a workspace holds its row, ...
Held == \A i \in Instances : Purges(i) => lock[purge[i].w] = i

\* ... which stays past its window meanwhile ...
Doomed == \A i \in Instances : Purges(i) => Expired(purge[i].w, purge[i].cutoff)

\* ... as it was when the sweep began.
Closed == \A i \in Instances : purge[i] # NoSweep => purge[i].cutoff <= clock - RestoreWindow

\* Nothing is in a workspace that is not there, or has not been created.
Rooted ==
    \A w \in Spaces :
      /\ rows[w] # {} => Exists(w) /\ w \in born
      /\ \A n \in 0 .. MaxWrites : <<"workspaces", n>> \in rows[w] => n = 0

\* One workspace has the slug, or is getting it.
OneSlug ==
    /\ inserted \cap born = {}
    /\ \A v, w \in Found \cup inserted : v = w

\* Behind the statements of a purge are only rows that no statement so far has
\* removed a parent of; the rows from the beginning are gone with their tables.
Swept ==
    \A i \in Instances : Purges(i) =>
      \A k \in 1 .. purge[i].step - 1, r \in rows[purge[i].w] :
        /\ r[1] \in Emptied[k] /\ r[2] = 0 => r \in purge[i].removed
        /\ r \notin purge[i].removed => Parents[r[1]] \cap Emptied[k] = {}

IInv == LifeTypeOK /\ Held /\ Doomed /\ Closed /\ Rooted /\ OneSlug /\ Swept

-----------------------------------------------------------------------------
\* What a purge is.
PurgeForms == [pc : {"purge"}, cutoff : Int, todo : SUBSET Spaces, w : Spaces,
               step : 1 .. Len(Emptied) + 1, removed : SUBSET TableRow]

\* What a sweep is, by its pc.
LEMMA SweepForms ==
    ASSUME LifeTypeOK, NEW i \in Instances
    PROVE  /\ purge[i] \in SweepStates
           /\ purge[i].pc \in {"idle", "sweep", "purge"}
           /\ purge[i].pc = "idle" <=> purge[i] = NoSweep
           /\ purge[i].pc = "sweep" =>
                purge[i] \in [pc : {"sweep"}, cutoff : Int, todo : SUBSET Spaces]
           /\ Purges(i) => purge[i] \in PurgeForms
<1>1. purge[i] \in SweepStates
  BY DEF LifeTypeOK
<1> QED
  BY <1>1 DEF SweepStates, NoSweep, Purges, PurgeForms

\* The next sweep state after a workspace.
LEMMA NextForms ==
    ASSUME NEW p, p.cutoff \in Int, p.todo \in SUBSET Spaces
    PROVE  /\ NextOf(p) \in SweepStates
           /\ NextOf(p).pc # "purge"
           /\ NextOf(p) # NoSweep => NextOf(p).cutoff = p.cutoff
BY DEF NextOf, SweepOf, SweepStates, NoSweep

\* Two purges are about two workspaces.
LEMMA OneEach ==
    ASSUME Held, NEW i \in Instances, NEW j \in Instances, Purges(i), Purges(j), i # j
    PROVE  purge[i].w # purge[j].w
BY LifeConstants DEF Held

\* At the end of its statements a purge has removed every row.
LEMMA AllRemoved ==
    ASSUME IInv, NEW i \in Instances, Purges(i), purge[i].step > Len(Emptied)
    PROVE  rows[purge[i].w] \subseteq purge[i].removed
<1> DEFINE w == purge[i].w
           n == Len(Emptied)
<1>1. /\ w \in Spaces
      /\ purge[i].step = n + 1
      /\ n \in Nat /\ n > 0 /\ DOMAIN Emptied = 1 .. n
  BY SweepForms, SchemaFits DEF IInv, PurgeForms
<1> SUFFICES ASSUME NEW r \in rows[w], r \notin purge[i].removed PROVE FALSE
  OBVIOUS
<1>2. r \in TableRow /\ r[1] \in Tables
  BY <1>1 DEF IInv, LifeTypeOK, TableRow
<1>3. \A k \in 1 .. n : Parents[r[1]] \cap Emptied[k] = {}
  BY <1>1 DEF IInv, Swept
<1>4. r[1] = "workspaces"
  BY <1>1, <1>2, <1>3, SchemaFits
<1>5. r[2] = 0
  <2>1. r[2] \in 0 .. MaxWrites /\ r = <<r[1], r[2]>>
    BY <1>2 DEF TableRow
  <2> QED
    BY <1>1, <1>4, <2>1 DEF IInv, Rooted
<1>6. r[1] \in Emptied[n]
  BY <1>4, SchemaFits
<1> QED
  BY <1>1, <1>5, <1>6 DEF IInv, Swept

-----------------------------------------------------------------------------
\* The initial states satisfy the invariant.
LEMMA InitInv == ASSUME LifeInit PROVE IInv
<1>1. LifeTypeOK
  BY LifeConstants, SchemaFits DEF LifeInit, LifeTypeOK, SweepStates, NoSweep, TableRow, Times
<1>2. Held /\ Doomed /\ Closed /\ Swept
  BY DEF LifeInit, Held, Doomed, Closed, Swept, NoSweep, Purges
<1>3. Rooted
  BY LifeConstants, SchemaFits DEF LifeInit, Rooted, Exists
<1>4. OneSlug
  BY LifeConstants, SchemaFits DEF LifeInit, OneSlug, Found, Exists
<1> QED
  BY <1>1, <1>2, <1>3, <1>4 DEF IInv

-----------------------------------------------------------------------------
\* Next, action by action.
LEMMA NextCases ==
    ASSUME LifeNext, NEW P,
           Login => P, Insert => P,
           \A w \in Spaces : Commit(w) => P,
           \A w \in Spaces : Seed(w) => P,
           \A w \in Spaces : Delete(w) => P,
           \A w \in Spaces : AskRestore(w) => P,
           \A w \in Spaces : Rename(w) => P,
           \A w \in Spaces, t \in Background : Arrive(w, t) => P,
           \A r \in restores : Restore(r) => P,
           \A i \in Instances : Scan(i) => P,
           \A i \in Instances : LockRow(i) => P,
           \A i \in Instances : Statement(i) => P,
           \A i \in Instances : CommitPurge(i) => P,
           \A i \in Instances : Fail(i) => P,
           Tick => P
    PROVE  P
BY DEF LifeNext, PurgeLoop

\* What a roll-back leaves of a purge.
LEMMA RollBackForms ==
    ASSUME LifeTypeOK, NEW i \in Instances, Purges(i), RollBack(i)
    PROVE  /\ purge' = [purge EXCEPT ![i] = NextOf(purge[i])]
           /\ lock' = [lock EXCEPT ![purge[i].w] = None]
           /\ purge' \in [Instances -> SweepStates]
           /\ lock' \in [Spaces -> Instances \cup {None}]
           /\ purge[i].w \in Spaces
           /\ purge'[i].pc # "purge"
           /\ purge'[i] # NoSweep => purge'[i].cutoff = purge[i].cutoff
<1>1. purge[i].cutoff \in Int /\ purge[i].todo \in SUBSET Spaces /\ purge[i].w \in Spaces
  BY SweepForms DEF PurgeForms
<1>2. /\ NextOf(purge[i]) \in SweepStates
      /\ NextOf(purge[i]).pc # "purge"
      /\ NextOf(purge[i]) # NoSweep => NextOf(purge[i]).cutoff = purge[i].cutoff
  BY <1>1, NextForms
<1> QED
  BY <1>1, <1>2 DEF RollBack, Sweeps, LifeTypeOK

\* A purge of a sweep's, and its parts.
LEMMA PurgeOfForms ==
    ASSUME NEW p, p.cutoff \in Int, p.todo \in SUBSET Spaces, NEW w \in Spaces,
           NEW n \in 1 .. Len(Emptied) + 1, NEW R \in SUBSET TableRow
    PROVE  LET next == PurgeOf(p, w, n, R) IN
           /\ next \in PurgeForms /\ next.pc = "purge"
           /\ next.cutoff = p.cutoff /\ next.w = w /\ next.step = n /\ next.removed = R
BY DEF PurgeOf, PurgeForms

\* The forms of LockRow's two outcomes.
LEMMA LockRowForms ==
    ASSUME LifeTypeOK, NEW i \in Instances, LockRow(i)
    PROVE  \/ /\ purge' = [purge EXCEPT ![i] = purge'[i]]
              /\ purge'[i] \in SweepStates /\ purge'[i].pc # "purge"
              /\ purge'[i] # NoSweep => purge'[i].cutoff = purge[i].cutoff
              /\ purge[i] # NoSweep
              /\ UNCHANGED lock
           \/ \E w \in Spaces :
                /\ lock[w] = None /\ Expired(w, purge[i].cutoff)
                /\ purge' = [purge EXCEPT ![i] = purge'[i]]
                /\ purge'[i] \in PurgeForms
                /\ purge'[i].cutoff = purge[i].cutoff /\ purge'[i].w = w
                /\ purge'[i].step = 1 /\ purge'[i].removed = {}
                /\ lock' = [lock EXCEPT ![w] = i]
                /\ purge[i] # NoSweep
<1>1. /\ purge[i] \in [pc : {"sweep"}, cutoff : Int, todo : SUBSET Spaces]
      /\ purge[i] # NoSweep
  BY SweepForms DEF LockRow, NoSweep
<1>2. PICK w \in purge[i].todo :
        /\ lock[w] = None
        /\ LET p == [purge[i] EXCEPT !.todo = @ \ {w}] IN
           IF Expired(w, p.cutoff)
             THEN /\ Sweeps(i, PurgeOf(p, w, 1, {}))
                  /\ lock' = [lock EXCEPT ![w] = i]
             ELSE Sweeps(i, NextOf(p)) /\ UNCHANGED lock
  BY DEF LockRow
<1> DEFINE p == [purge[i] EXCEPT !.todo = @ \ {w}]
<1>3. p.cutoff = purge[i].cutoff /\ p.cutoff \in Int /\ p.todo \in SUBSET Spaces /\ w \in Spaces
  BY <1>1
<1>4. CASE Expired(w, p.cutoff)
  <2>1. purge' = [purge EXCEPT ![i] = PurgeOf(p, w, 1, {})] /\ lock' = [lock EXCEPT ![w] = i]
    BY <1>2, <1>4 DEF Sweeps
  <2>2. purge'[i] = PurgeOf(p, w, 1, {})
    BY <2>1 DEF LifeTypeOK
  <2>3. 1 \in 1 .. Len(Emptied) + 1 /\ {} \in SUBSET TableRow
    BY SchemaFits
  <2>4. /\ purge'[i] \in PurgeForms
        /\ purge'[i].cutoff = p.cutoff /\ purge'[i].w = w
        /\ purge'[i].step = 1 /\ purge'[i].removed = {}
    <3> HIDE DEF p
    <3> QED
      BY <1>3, <2>2, <2>3, PurgeOfForms
  <2> HIDE DEF p
  <2> QED
    BY <1>1, <1>2, <1>3, <1>4, <2>1, <2>2, <2>4
<1>5. CASE ~ Expired(w, p.cutoff)
  <2>1. purge' = [purge EXCEPT ![i] = NextOf(p)] /\ UNCHANGED lock
    BY <1>2, <1>5 DEF Sweeps
  <2>2. purge'[i] = NextOf(p)
    BY <2>1 DEF LifeTypeOK
  <2> HIDE DEF p
  <2> QED
    BY <1>1, <1>3, <2>1, <2>2, NextForms
<1> QED
  BY <1>4, <1>5

\* The forms of a statement that was not refused.
LEMMA StatementForms ==
    ASSUME LifeTypeOK, NEW i \in Instances, Statement(i)
    PROVE  /\ Purges(i)
           /\ \/ RollBack(i)
              \/ /\ purge' = [purge EXCEPT ![i] = purge'[i]]
                 /\ UNCHANGED lock
                 /\ purge'[i] \in PurgeForms
                 /\ purge'[i].cutoff = purge[i].cutoff /\ purge'[i].w = purge[i].w
                 /\ purge'[i].step = purge[i].step + 1
                 /\ purge[i].step \in DOMAIN Emptied
                 /\ purge[i].removed \subseteq purge'[i].removed
                 /\ \A r \in rows[purge[i].w] :
                      /\ r[1] \in Emptied[purge[i].step] => r \in purge'[i].removed
                      /\ r \notin purge'[i].removed =>
                           r[1] \notin Emptied[purge[i].step] \cup Refusing[purge[i].step]
<1> DEFINE p == purge[i]
           removed == p.removed \cup {r \in rows[p.w] : r[1] \in Emptied[p.step]}
           refused == \E r \in rows[p.w] \ removed : r[1] \in Refusing[p.step]
<1>1. /\ Purges(i)
      /\ p \in PurgeForms
      /\ Len(Emptied) \in Nat /\ DOMAIN Emptied = 1 .. Len(Emptied)
      /\ p.step <= Len(Emptied)
  BY SweepForms, SchemaFits DEF Statement, Purges, PurgeForms
<1>2. CASE refused
  BY <1>1, <1>2 DEF Statement
<1>3. CASE ~ refused
  <2>1. /\ purge' = [purge EXCEPT ![i] = PurgeOf(p, p.w, p.step + 1, removed)]
        /\ UNCHANGED lock
    BY <1>3 DEF Statement, Sweeps
  <2>2. purge'[i] = PurgeOf(p, p.w, p.step + 1, removed)
    BY <2>1 DEF LifeTypeOK
  <2>3. /\ removed \in SUBSET TableRow /\ p.step + 1 \in 1 .. Len(Emptied) + 1
        /\ p.cutoff \in Int /\ p.todo \in SUBSET Spaces /\ p.w \in Spaces
    BY <1>1 DEF LifeTypeOK, PurgeForms
  <2>4. /\ purge'[i] \in PurgeForms
        /\ purge'[i].cutoff = p.cutoff /\ purge'[i].w = p.w
        /\ purge'[i].step = p.step + 1 /\ purge'[i].removed = removed
    <3> HIDE DEF p, removed
    <3> QED
      BY <2>2, <2>3, PurgeOfForms
  <2>5. \A r \in rows[p.w] :
          /\ r[1] \in Emptied[p.step] => r \in removed
          /\ r \notin removed => r[1] \notin Emptied[p.step] \cup Refusing[p.step]
    BY <1>3
  <2>6. purge' = [purge EXCEPT ![i] = purge'[i]]
    BY <2>1, <2>2
  <2>7. p.step \in DOMAIN Emptied
    BY <1>1 DEF PurgeForms
  <2>8. p.removed \subseteq removed
    OBVIOUS
  <2>9. /\ p.removed \subseteq purge'[i].removed
        /\ \A r \in rows[p.w] :
             /\ r[1] \in Emptied[p.step] => r \in purge'[i].removed
             /\ r \notin purge'[i].removed => r[1] \notin Emptied[p.step] \cup Refusing[p.step]
    <3> HIDE DEF removed
    <3> QED
      BY <2>4, <2>5, <2>8
  <2> HIDE DEF removed, refused
  <2> QED
    BY <1>1, <2>1, <2>4, <2>6, <2>7, <2>9
<1> QED
  BY <1>2, <1>3

\* What a scan starts.
LEMMA ScanForms ==
    ASSUME LifeTypeOK, NEW i \in Instances, Scan(i)
    PROVE  /\ purge' = [purge EXCEPT ![i] = purge'[i]]
           /\ purge'[i] \in SweepStates /\ purge'[i].pc # "purge"
           /\ purge'[i].cutoff = clock - RestoreWindow
           /\ UNCHANGED lock
<1> DEFINE cutoff == clock - RestoreWindow
           todo == {w \in Spaces : Expired(w, cutoff)}
           next == [pc |-> "sweep", cutoff |-> cutoff, todo |-> todo]
<1>1. purge' = [purge EXCEPT ![i] = next] /\ UNCHANGED lock
  BY DEF Scan, Sweeps
<1>2. cutoff \in Int
  BY LifeConstants DEF LifeTypeOK, Times
<1>3. next \in SweepStates /\ next.pc # "purge" /\ next.cutoff = cutoff
  <2> HIDE DEF cutoff
  <2> QED
    BY <1>2 DEF SweepStates
<1>4. purge'[i] = next
  BY <1>1 DEF LifeTypeOK
<1> HIDE DEF next
<1> QED
  BY <1>1, <1>3, <1>4

\* What is left of the sweep of an instance that fails.
LEMMA FailForms ==
    ASSUME LifeTypeOK, NEW i \in Instances, Fail(i)
    PROVE  /\ purge[i] # NoSweep
           /\ \/ Purges(i) /\ RollBack(i)
              \/ /\ purge' = [purge EXCEPT ![i] = NoSweep]
                 /\ lock' = [w \in Spaces |-> IF lock[w] = i THEN None ELSE lock[w]]
BY DEF Fail, Sweeps, Purges

-----------------------------------------------------------------------------
\* Every action keeps every variable in its set.
LEMMA TypeStep == ASSUME LifeTypeOK, LifeNext PROVE LifeTypeOK'
<1> USE DEF LifeTypeOK, Times
<1>1. ASSUME Login PROVE LifeTypeOK'
  BY <1>1 DEF Login, space, rest
<1>2. ASSUME Insert PROVE LifeTypeOK'
  BY <1>2, LifeConstants DEF Insert, space, rest
<1>3. ASSUME NEW w \in Spaces, Commit(w) PROVE LifeTypeOK'
  <2>1. {"workspaces", "members", "teams"} \X {0} \in SUBSET TableRow
    BY LifeConstants DEF TableRow
  <2> QED
    BY <1>3, <2>1, LifeConstants DEF Commit, Failure, rest
<1>4. ASSUME NEW w \in Spaces, Seed(w) PROVE LifeTypeOK'
  <2>1. PICK seeded \in {{}, {"issue_templates", "workflow_statuses"}} :
          rows' = [rows EXCEPT ![w] = IF Exists(w) THEN @ \cup seeded \X {0} ELSE @]
    BY <1>4 DEF Seed
  <2>2. seeded \X {0} \in SUBSET TableRow
    BY LifeConstants DEF TableRow
  <2>3. rows' \in [Spaces -> SUBSET TableRow]
    BY <2>1, <2>2
  <2> QED
    BY <1>4, <2>3 DEF Seed, rest
<1>5. ASSUME NEW w \in Spaces, Delete(w) PROVE LifeTypeOK'
  BY <1>5 DEF Delete, requests, rest
<1>6. ASSUME NEW w \in Spaces, AskRestore(w) PROVE LifeTypeOK'
  BY <1>6 DEF AskRestore, space, rest
<1>7. ASSUME NEW w \in Spaces, Rename(w) PROVE LifeTypeOK'
  BY <1>7, LifeConstants DEF Rename, requests
<1>8. ASSUME NEW w \in Spaces, NEW t \in Background, Arrive(w, t) PROVE LifeTypeOK'
  <2>1. <<t, writes + 1>> \in TableRow
    BY <1>8, LifeConstants DEF Arrive, TableRow
  <2> QED
    BY <1>8, <2>1, LifeConstants DEF Arrive, requests
<1>9. ASSUME NEW r \in restores, Restore(r) PROVE LifeTypeOK'
  BY <1>9 DEF Restore, rest
<1>10. ASSUME NEW i \in Instances, Scan(i) PROVE LifeTypeOK'
  BY <1>10, ScanForms DEF Scan, visible, requests
<1>11. ASSUME NEW i \in Instances, LockRow(i) PROVE LifeTypeOK'
  <2>1. purge' \in [Instances -> SweepStates] /\ lock' \in [Spaces -> Instances \cup {None}]
    <3>1. purge'[i] \in SweepStates /\ purge' = [purge EXCEPT ![i] = purge'[i]]
      BY <1>11, LockRowForms DEF SweepStates, PurgeForms
    <3>2. UNCHANGED lock \/ \E w \in Spaces : lock' = [lock EXCEPT ![w] = i]
      BY <1>11, LockRowForms
    <3> QED
      BY <3>1, <3>2
  <2> QED
    BY <1>11, <2>1 DEF LockRow, visible, requests
<1>12. ASSUME NEW i \in Instances, Statement(i) PROVE LifeTypeOK'
  <2>1. purge' \in [Instances -> SweepStates] /\ lock' \in [Spaces -> Instances \cup {None}]
    BY <1>12, StatementForms, RollBackForms DEF SweepStates, PurgeForms
  <2> QED
    BY <1>12, <2>1 DEF Statement, visible, requests
<1>13. ASSUME NEW i \in Instances, CommitPurge(i) PROVE LifeTypeOK'
  <2>1. /\ purge' \in [Instances -> SweepStates] /\ lock' \in [Spaces -> Instances \cup {None}]
        /\ purge[i].w \in Spaces
    BY <1>13, RollBackForms DEF CommitPurge, Purges
  <2> QED
    BY <1>13, <2>1 DEF CommitPurge, requests
<1>14. ASSUME NEW i \in Instances, Fail(i) PROVE LifeTypeOK'
  <2>1. purge' \in [Instances -> SweepStates] /\ lock' \in [Spaces -> Instances \cup {None}]
    BY <1>14, FailForms, RollBackForms DEF SweepStates
  <2> QED
    BY <1>14, <2>1, LifeConstants DEF Fail, Failure, visible, requests
<1>15. ASSUME Tick PROVE LifeTypeOK'
  BY <1>15, LifeConstants DEF Tick, requests
<1> HIDE DEF LifeTypeOK, Times
<1> QED
  BY <1>1, <1>2, <1>3, <1>4, <1>5, <1>6, <1>7, <1>8, <1>9, <1>10, <1>11, <1>12, <1>13,
     <1>14, <1>15, NextCases

\* The variables are in their sets.
THEOREM LifeTypes == LifeSpec => []LifeTypeOK
<1>1. LifeInit => LifeTypeOK
  BY InitInv DEF IInv
<1>2. LifeTypeOK /\ [LifeNext]_lifeVars => LifeTypeOK'
  <2>1. ASSUME LifeTypeOK, UNCHANGED lifeVars PROVE LifeTypeOK'
    BY <2>1 DEF LifeTypeOK, lifeVars, requests, SweepStates
  <2> QED
    BY <2>1, TypeStep
<1> QED
  BY <1>1, <1>2, PTL DEF LifeSpec

-----------------------------------------------------------------------------
\* The purges after a step of one instance that is not, or no longer, purging.
LEMMA OthersPurge ==
    ASSUME LifeTypeOK, NEW i \in Instances, NEW j \in Instances, Purges(j)',
           purge' = [purge EXCEPT ![i] = purge'[i]], purge'[i].pc # "purge"
    PROVE  j # i /\ purge'[j] = purge[j] /\ Purges(j)
BY DEF LifeTypeOK, Purges

\* A purge keeps the lock of its workspace until it has ended.
LEMMA HeldStep == ASSUME IInv, LifeNext PROVE Held'
<1> USE DEF IInv
<1>0. ASSUME UNCHANGED <<purge, lock>> PROVE Held'
  BY <1>0 DEF Held, Purges
<1>1. ASSUME NEW i \in Instances, Purges(i), RollBack(i) PROVE Held'
  <2> SUFFICES ASSUME NEW j \in Instances, Purges(j)' PROVE (lock[purge[j].w] = j)'
    BY DEF Held
  <2>1. /\ purge' = [purge EXCEPT ![i] = purge'[i]] /\ purge'[i].pc # "purge"
        /\ lock' = [lock EXCEPT ![purge[i].w] = None]
    BY <1>1, RollBackForms DEF LifeTypeOK
  <2>2. j # i /\ purge'[j] = purge[j] /\ Purges(j)
    BY <2>1, OthersPurge
  <2>3. purge[j].w # purge[i].w /\ lock[purge[j].w] = j /\ purge[j].w \in Spaces
    BY <1>1, <2>2, OneEach, SweepForms DEF Held, PurgeForms
  <2> QED
    BY <2>1, <2>2, <2>3 DEF LifeTypeOK
<1>2. ASSUME NEW i \in Instances, Scan(i) PROVE Held'
  BY <1>2, ScanForms, OthersPurge DEF Held
<1>3. ASSUME NEW i \in Instances, LockRow(i) PROVE Held'
  <2> SUFFICES ASSUME NEW j \in Instances, Purges(j)' PROVE (lock[purge[j].w] = j)'
    BY DEF Held
  <2>1. CASE /\ purge' = [purge EXCEPT ![i] = purge'[i]] /\ purge'[i].pc # "purge"
             /\ UNCHANGED lock
    BY <2>1, OthersPurge DEF Held
  <2>2. ASSUME NEW w \in Spaces, lock[w] = None,
               purge' = [purge EXCEPT ![i] = purge'[i]], purge'[i].w = w,
               lock' = [lock EXCEPT ![w] = i]
        PROVE  (lock[purge[j].w] = j)'
    <3>1. CASE j = i
      BY <2>2, <3>1 DEF LifeTypeOK
    <3>2. CASE j # i
      <4>1. purge'[j] = purge[j] /\ Purges(j)
        BY <2>2, <3>2 DEF LifeTypeOK, Purges
      <4>2. lock[purge[j].w] = j /\ purge[j].w # w /\ purge[j].w \in Spaces
        BY <2>2, <4>1, LifeConstants, SweepForms DEF Held, PurgeForms
      <4> QED
        BY <2>2, <4>1, <4>2 DEF LifeTypeOK
    <3> QED
      BY <3>1, <3>2
  <2> QED
    BY <1>3, <2>1, <2>2, LockRowForms
<1>4. ASSUME NEW i \in Instances, Statement(i) PROVE Held'
  <2>1. CASE UNCHANGED lock /\ purge' = [purge EXCEPT ![i] = purge'[i]]
             /\ purge'[i].w = purge[i].w
    BY <1>4, <2>1, StatementForms DEF Held, Purges, LifeTypeOK
  <2> QED
    BY <1>4, <1>1, <2>1, StatementForms
<1>5. ASSUME NEW i \in Instances, CommitPurge(i) PROVE Held'
  BY <1>5, <1>1 DEF CommitPurge, Purges
<1>6. ASSUME NEW i \in Instances, Fail(i) PROVE Held'
  <2>1. CASE /\ purge' = [purge EXCEPT ![i] = NoSweep]
             /\ lock' = [w \in Spaces |-> IF lock[w] = i THEN None ELSE lock[w]]
    <3> SUFFICES ASSUME NEW j \in Instances, Purges(j)' PROVE (lock[purge[j].w] = j)'
      BY DEF Held
    <3>1. j # i /\ purge'[j] = purge[j] /\ Purges(j)
      BY <2>1, OthersPurge DEF LifeTypeOK, NoSweep
    <3> QED
      BY <2>1, <3>1, SweepForms DEF Held, PurgeForms
  <2> QED
    BY <1>6, <1>1, <2>1, FailForms
<1>7. /\ Login => Held'
      /\ Insert => Held'
      /\ \A w \in Spaces : Commit(w) \/ Seed(w) \/ Delete(w) \/ AskRestore(w) \/ Rename(w) => Held'
      /\ \A w \in Spaces, t \in Background : Arrive(w, t) => Held'
      /\ \A r \in restores : Restore(r) => Held'
      /\ Tick => Held'
  BY <1>0 DEF Login, Insert, Commit, Seed, Delete, AskRestore, Rename, Arrive, Restore, Tick, rest
<1> HIDE DEF IInv
<1> QED
  BY <1>2, <1>3, <1>4, <1>5, <1>6, <1>7, NextCases

\* The cutoff of a sweep stays the one of its scan.
LEMMA ClosedStep == ASSUME IInv, LifeNext PROVE Closed'
<1> USE DEF IInv
<1>0. ASSUME UNCHANGED purge, clock' \in Int, clock' >= clock PROVE Closed'
  <2> SUFFICES ASSUME NEW j \in Instances, (purge[j] # NoSweep)'
               PROVE  (purge[j].cutoff <= clock - RestoreWindow)'
    BY DEF Closed
  <2>1. purge[j].cutoff \in Int /\ purge[j].cutoff <= clock - RestoreWindow
    BY <1>0, SweepForms DEF Closed, PurgeForms, Purges
  <2>2. clock \in Int /\ clock' \in Int /\ RestoreWindow \in Int
    BY <1>0, LifeConstants DEF LifeTypeOK, Times
  <2> QED
    BY <1>0, <2>1, <2>2
<1>1. ASSUME NEW i \in Instances, purge' = [purge EXCEPT ![i] = purge'[i]], UNCHANGED clock,
             purge'[i] # NoSweep =>
               \/ purge[i] # NoSweep /\ purge'[i].cutoff = purge[i].cutoff
               \/ purge'[i].cutoff = clock - RestoreWindow
      PROVE  Closed'
  <2> SUFFICES ASSUME NEW j \in Instances, (purge[j] # NoSweep)'
               PROVE  (purge[j].cutoff <= clock - RestoreWindow)'
    BY DEF Closed
  <2>1. CASE j = i
    <3>1. clock - RestoreWindow \in Int
      BY LifeConstants DEF LifeTypeOK, Times
    <3> QED
      BY <1>1, <2>1, <3>1 DEF Closed
  <2>2. CASE j # i
    BY <1>1, <2>2 DEF Closed, LifeTypeOK
  <2> QED
    BY <2>1, <2>2
<1>2. ASSUME NEW i \in Instances, Scan(i) PROVE Closed'
  BY <1>1, <1>2, ScanForms DEF Scan, visible
<1>3. ASSUME NEW i \in Instances, LockRow(i) PROVE Closed'
  BY <1>1, <1>3, LockRowForms DEF LockRow, visible
<1>4. ASSUME NEW i \in Instances, Purges(i), RollBack(i), UNCHANGED clock PROVE Closed'
  <2>1. purge' = [purge EXCEPT ![i] = purge'[i]]
        /\ (purge'[i] # NoSweep => purge'[i].cutoff = purge[i].cutoff)
    BY <1>4, RollBackForms DEF LifeTypeOK
  <2> QED
    BY <1>1, <1>4, <2>1 DEF Purges, NoSweep
<1>5. ASSUME NEW i \in Instances, Statement(i) PROVE Closed'
  <2>1. UNCHANGED clock /\ purge[i] # NoSweep
    BY <1>5 DEF Statement, visible, NoSweep
  <2> QED
    BY <1>1, <1>4, <1>5, <2>1, StatementForms
<1>6. ASSUME NEW i \in Instances, CommitPurge(i) PROVE Closed'
  BY <1>4, <1>6 DEF CommitPurge, Purges
<1>7. ASSUME NEW i \in Instances, Fail(i) PROVE Closed'
  <2>1. UNCHANGED clock
    BY <1>7 DEF Fail, visible
  <2>2. CASE purge' = [purge EXCEPT ![i] = NoSweep]
    BY <1>1, <2>1, <2>2 DEF LifeTypeOK
  <2> QED
    BY <1>4, <1>7, <2>1, <2>2, FailForms
<1>8. /\ Login => Closed'
      /\ Insert => Closed'
      /\ \A w \in Spaces : Commit(w) \/ Seed(w) \/ Delete(w) \/ AskRestore(w) \/ Rename(w) => Closed'
      /\ \A w \in Spaces, t \in Background : Arrive(w, t) => Closed'
      /\ \A r \in restores : Restore(r) => Closed'
      /\ Tick => Closed'
  BY <1>0 DEF Login, Insert, Commit, Seed, Delete, AskRestore, Rename, Arrive, Restore, Tick, rest,
     LifeTypeOK, Times
<1> HIDE DEF IInv
<1> QED
  BY <1>2, <1>3, <1>5, <1>6, <1>7, <1>8, NextCases

-----------------------------------------------------------------------------
\* Where a purge of the next state comes from: it is as it was, and so is its
\* workspace, except for a row that arrived; ...
Kept(j) ==
    /\ purge'[j] = purge[j] /\ Purges(j)
    /\ deletedAt'[purge[j].w] = deletedAt[purge[j].w]
    /\ \/ rows'[purge[j].w] = rows[purge[j].w]
       \/ \E t \in Background : Arrive(purge[j].w, t)

\* ... it has just begun; ...
Fresh(j) ==
    /\ purge'[j].w \in Spaces /\ Expired(purge'[j].w, purge'[j].cutoff)
    /\ purge'[j].step = 1
    /\ UNCHANGED <<rows, deletedAt>>

\* ... or one statement further.
Advanced(j) ==
    /\ Purges(j)
    /\ purge'[j] \in PurgeForms
    /\ purge'[j].cutoff = purge[j].cutoff /\ purge'[j].w = purge[j].w
    /\ purge'[j].step = purge[j].step + 1
    /\ purge[j].step \in DOMAIN Emptied
    /\ purge[j].removed \subseteq purge'[j].removed
    /\ \A r \in rows[purge[j].w] :
         /\ r[1] \in Emptied[purge[j].step] => r \in purge'[j].removed
         /\ r \notin purge'[j].removed =>
              r[1] \notin Emptied[purge[j].step] \cup Refusing[purge[j].step]
    /\ UNCHANGED <<rows, deletedAt>>

LEMMA PurgeCases ==
    ASSUME IInv, LifeNext, NEW j \in Instances, Purges(j)'
    PROVE  Kept(j) \/ Fresh(j) \/ Advanced(j)
<1> DEFINE P == Kept(j) \/ Fresh(j) \/ Advanced(j)
<1> USE DEF IInv
<1>0. ASSUME UNCHANGED <<purge, rows, deletedAt>> PROVE P
  BY <1>0 DEF Kept, Purges
<1>1. ASSUME UNCHANGED purge, NEW w \in Spaces, lock[w] = None \/ w \in inserted,
             \A v \in Spaces : v # w =>
               rows'[v] = rows[v] /\ deletedAt'[v] = deletedAt[v]
      PROVE  P
  <2>1. Purges(j) /\ purge'[j] = purge[j] /\ purge[j].w \in Spaces
    BY <1>1, SweepForms DEF Purges, PurgeForms
  <2>2. lock[purge[j].w] = j /\ Exists(purge[j].w) /\ j # None
    BY <2>1, LifeConstants DEF Held, Doomed, Expired
  <2>3. purge[j].w # w
    BY <1>1, <2>1, <2>2 DEF Rooted, OneSlug, Exists
  <2> QED
    BY <1>1, <2>1, <2>3 DEF Kept
<1>2. ASSUME NEW i \in Instances, purge' = [purge EXCEPT ![i] = purge'[i]],
             purge'[i].pc # "purge", UNCHANGED <<rows, deletedAt>>
      PROVE  P
  BY <1>2, OthersPurge DEF Kept
<1>3. ASSUME NEW i \in Instances, Purges(i), RollBack(i), UNCHANGED <<rows, deletedAt>> PROVE P
  BY <1>2, <1>3, RollBackForms DEF LifeTypeOK
<1>4. ASSUME NEW w \in Spaces, Commit(w) PROVE P
  BY <1>1, <1>4 DEF Commit, rest, LifeTypeOK
<1>5. ASSUME NEW w \in Spaces, Seed(w) PROVE P
  BY <1>1, <1>5 DEF Seed, rest, LifeTypeOK
<1>6. ASSUME NEW w \in Spaces, Delete(w) PROVE P
  BY <1>1, <1>6 DEF Delete, rest, LifeTypeOK
<1>7. ASSUME NEW r \in restores, Restore(r) PROVE P
  <2>1. r.w \in Spaces
    BY DEF LifeTypeOK
  <2> QED
    BY <1>1, <1>7, <2>1 DEF Restore, rest, LifeTypeOK
<1>8. ASSUME NEW w \in Spaces, NEW t \in Background, Arrive(w, t) PROVE P
  <2>1. Purges(j) /\ purge'[j] = purge[j] /\ deletedAt' = deletedAt
    BY <1>8 DEF Arrive, Purges
  <2>2. rows' = [rows EXCEPT ![w] = rows'[w]]
    BY <1>8 DEF Arrive, LifeTypeOK
  <2>3. purge[j].w # w => rows'[purge[j].w] = rows[purge[j].w]
    <3>1. purge[j].w \in Spaces
      BY <2>1, SweepForms DEF PurgeForms
    <3> QED
      BY <2>2, <3>1 DEF LifeTypeOK
  <2> QED
    BY <1>8, <2>1, <2>3 DEF Kept
<1>9. ASSUME NEW i \in Instances, Scan(i) PROVE P
  BY <1>2, <1>9, ScanForms DEF Scan, visible
<1>10. ASSUME NEW i \in Instances, LockRow(i) PROVE P
  <2>1. UNCHANGED <<rows, deletedAt>>
    BY <1>10 DEF LockRow, visible
  <2>2. ASSUME NEW w \in Spaces, Expired(w, purge[i].cutoff),
               purge' = [purge EXCEPT ![i] = purge'[i]],
               purge'[i].cutoff = purge[i].cutoff, purge'[i].w = w, purge'[i].step = 1
        PROVE  P
    <3>1. CASE i = j
      BY <2>1, <2>2, <3>1 DEF Fresh
    <3>2. CASE i # j
      BY <2>1, <2>2, <3>2 DEF Kept, Purges, LifeTypeOK
    <3> QED
      BY <3>1, <3>2
  <2> QED
    BY <1>2, <1>10, <2>1, <2>2, LockRowForms
<1>11. ASSUME NEW i \in Instances, Statement(i) PROVE P
  <2>1. UNCHANGED <<rows, deletedAt>>
    BY <1>11 DEF Statement, visible
  <2>2. CASE RollBack(i)
    BY <1>3, <1>11, <2>1, <2>2, StatementForms
  <2>3. CASE ~ RollBack(i) /\ i = j
    BY <1>11, <2>1, <2>3, StatementForms DEF Advanced
  <2>4. CASE ~ RollBack(i) /\ i # j
    <3>1. purge' = [purge EXCEPT ![i] = purge'[i]]
      BY <1>11, <2>4, StatementForms
    <3> QED
      BY <2>1, <2>4, <3>1 DEF Kept, Purges, LifeTypeOK
  <2> QED
    BY <2>2, <2>3, <2>4
<1>12. ASSUME NEW i \in Instances, CommitPurge(i) PROVE P
  <2>1. Purges(i) /\ RollBack(i)
    BY <1>12 DEF CommitPurge, Purges
  <2>2. purge' = [purge EXCEPT ![i] = purge'[i]] /\ purge'[i].pc # "purge"
    BY <2>1, RollBackForms DEF LifeTypeOK
  <2>3. j # i /\ purge'[j] = purge[j] /\ Purges(j)
    BY <2>2, OthersPurge
  <2>4. purge[j].w # purge[i].w
    BY <2>1, <2>3, OneEach
  <2> QED
    BY <1>12, <2>3, <2>4 DEF CommitPurge, Kept, LifeTypeOK
<1>13. ASSUME NEW i \in Instances, Fail(i) PROVE P
  <2>1. UNCHANGED <<rows, deletedAt>>
    BY <1>13 DEF Fail, visible
  <2>2. CASE purge' = [purge EXCEPT ![i] = NoSweep]
    BY <1>2, <2>1, <2>2 DEF LifeTypeOK, NoSweep
  <2> QED
    BY <1>3, <1>13, <2>1, <2>2, FailForms
<1>14. /\ Login => P
       /\ Insert => P
       /\ \A w \in Spaces : AskRestore(w) \/ Rename(w) => P
       /\ Tick => P
  BY <1>0 DEF Login, Insert, AskRestore, Rename, Tick, space, rest
<1> HIDE DEF IInv, P
<1>15. P
  BY <1>4, <1>5, <1>6, <1>7, <1>8, <1>9, <1>10, <1>11, <1>12, <1>13, <1>14, NextCases
<1> QED
  BY <1>15 DEF P

\* A workspace that is being purged stays there, and past its window.
LEMMA DoomedStep == ASSUME IInv, LifeNext PROVE Doomed'
<1> SUFFICES ASSUME NEW j \in Instances, Purges(j)'
             PROVE  Expired(purge[j].w, purge[j].cutoff)'
  BY DEF Doomed
<1>1. CASE Kept(j)
  <2>1. Exists(purge[j].w) => Exists(purge[j].w)'
    BY <1>1, SweepForms DEF Kept, Exists, Arrive, IInv, LifeTypeOK, PurgeForms
  <2> QED
    BY <1>1, <2>1 DEF Kept, Expired, IInv, Doomed
<1>2. CASE Fresh(j)
  BY <1>2 DEF Fresh, Expired, Exists
<1>3. CASE Advanced(j)
  BY <1>3 DEF Advanced, Expired, Exists, IInv, Doomed
<1> QED
  BY <1>1, <1>2, <1>3, PurgeCases

\* What a statement leaves has no parent among what the statements so far remove.
LEMMA SweptStep == ASSUME IInv, LifeNext PROVE Swept'
<1> SUFFICES ASSUME NEW j \in Instances, Purges(j)',
                    NEW k \in 1 .. purge'[j].step - 1, NEW r \in rows'[purge'[j].w]
             PROVE  /\ r[1] \in Emptied[k] /\ r[2] = 0 => r \in purge'[j].removed
                    /\ r \notin purge'[j].removed => Parents[r[1]] \cap Emptied[k] = {}
  BY DEF Swept
<1> USE DEF IInv
<1>1. CASE Kept(j) /\ r \in rows[purge[j].w]
  BY <1>1 DEF Kept, Swept
<1>2. CASE Kept(j) /\ r \notin rows[purge[j].w]
  <2> DEFINE w == purge[j].w
  <2>1. PICK t \in Background : Arrive(w, t)
    BY <1>2 DEF Kept
  <2>2. /\ w \in Spaces /\ purge'[j] = purge[j] /\ Purges(j)
        /\ purge[j].step \in 1 .. Len(Emptied) + 1 /\ Len(Emptied) \in Nat
        /\ k \in 1 .. purge[j].step - 1 /\ k \in DOMAIN Emptied
    BY <1>2, SweepForms, SchemaFits DEF Kept, PurgeForms
  <2>3. rows'[w] = rows[w] \cup {<<t, writes + 1>>}
    BY <2>1, <2>2 DEF Arrive, LifeTypeOK
  <2>4. r = <<t, writes + 1>> /\ r[1] = t /\ r[2] # 0
    BY <1>2, <2>2, <2>3 DEF LifeTypeOK
  <2>5. ASSUME NEW p \in Parents[t] \cap Emptied[k] PROVE FALSE
    <3>1. <<p, 0>> \in rows[w] \ Removing(w)
      BY <2>1, <2>5 DEF Arrive
    <3>2. <<p, 0>> \in purge[j].removed
      BY <2>2, <2>5, <3>1 DEF Swept
    <3>3. lock[w] = j
      BY <2>2 DEF Held
    <3> QED
      BY <3>1, <3>2, <3>3 DEF Removing
  <2> QED
    BY <2>4, <2>5
<1>3. CASE Fresh(j)
  BY <1>3 DEF Fresh
<1>4. CASE Advanced(j)
  <2>1. /\ purge[j] \in PurgeForms /\ purge[j].step \in Nat /\ DOMAIN Emptied \subseteq Nat
        /\ r \in rows[purge[j].w] /\ r[1] \in Tables
        /\ k \in 1 .. purge[j].step - 1 \/ k = purge[j].step
    <3>1. purge[j] \in PurgeForms /\ Len(Emptied) \in Nat /\ DOMAIN Emptied = 1 .. Len(Emptied)
      BY <1>4, SweepForms, SchemaFits DEF Advanced
    <3>2. r \in rows[purge[j].w] /\ r \in TableRow
      BY <1>4, <3>1 DEF Advanced, LifeTypeOK, PurgeForms
    <3> QED
      BY <1>4, <3>1, <3>2 DEF Advanced, PurgeForms, TableRow
  <2>2. CASE k \in 1 .. purge[j].step - 1
    BY <1>4, <2>1, <2>2 DEF Advanced, Swept
  <2>3. CASE k = purge[j].step
    BY <1>4, <2>1, <2>3, SchemaFits DEF Advanced
  <2> QED
    BY <2>1, <2>2, <2>3
<1> HIDE DEF IInv
<1> QED
  BY <1>1, <1>2, <1>3, <1>4, PurgeCases

-----------------------------------------------------------------------------
\* Every table but "workspaces" refers to some table, so a row arrives only
\* where there are rows.
LEMMA ArriveForms ==
    ASSUME LifeTypeOK, NEW w \in Spaces, NEW t \in Background, Arrive(w, t)
    PROVE  /\ rows[w] # {} /\ t # "workspaces"
           /\ rows' = [rows EXCEPT ![w] = @ \cup {<<t, writes + 1>>}]
<1>1. t \in Tables \ {"workspaces"}
  BY LifeConstants
<1>2. PICK k \in DOMAIN Emptied : Parents[t] \cap Emptied[k] # {}
  BY <1>1, SchemaFits
<1> QED
  BY <1>1, <1>2 DEF Arrive

\* What a commit of a purge leaves of its workspace, and of the others.
LEMMA CommitForms ==
    ASSUME IInv, NEW i \in Instances, CommitPurge(i)
    PROVE  /\ purge[i].w \in Spaces /\ Purges(i)
           /\ rows'[purge[i].w] = {}
           /\ \A v \in Spaces : v # purge[i].w => rows'[v] = rows[v]
<1>1. Purges(i) /\ purge[i].step > Len(Emptied)
  BY DEF CommitPurge, Purges
<1>2. purge[i].w \in Spaces /\ rows[purge[i].w] \subseteq purge[i].removed
  BY <1>1, SweepForms, AllRemoved DEF IInv, PurgeForms
<1> QED
  BY <1>1, <1>2 DEF CommitPurge, IInv, LifeTypeOK

\* The rows of a workspace in the next state: of one that is created, of one
\* that is there, and gets some or not, of one that is purged.
Created(w) ==
    /\ Commit(w) /\ w \in inserted /\ w \in born' /\ rows[w] = {}
    /\ rows'[w] = {"workspaces", "members", "teams"} \X {0}
Grows(w) ==
    /\ rows[w] # {} /\ rows[w] \subseteq rows'[w]
    /\ \A r \in rows'[w] \ rows[w] : r[1] # "workspaces"
Purged(w) ==
    /\ rows'[w] = {}
    /\ \E i \in Instances : CommitPurge(i) /\ Purges(i) /\ purge[i].w = w

LEMMA RowCases ==
    ASSUME IInv, LifeNext, NEW w \in Spaces
    PROVE  /\ Created(w) \/ Grows(w) \/ Purged(w) \/ rows'[w] = rows[w]
           /\ born \subseteq born'
<1> DEFINE P == /\ Created(w) \/ Grows(w) \/ Purged(w) \/ rows'[w] = rows[w]
                /\ born \subseteq born'
<1> USE DEF IInv
<1>1. ASSUME NEW v \in Spaces, Commit(v) PROVE P
  <2>1. rows[v] = {} /\ v \in inserted
    BY <1>1 DEF Commit, Rooted, OneSlug
  <2>2. CASE failures' # failures \/ v # w
    BY <1>1, <2>2 DEF Commit, LifeTypeOK
  <2>3. CASE failures' = failures /\ v = w
    <3>1. /\ rows' = [rows EXCEPT ![w] = {"workspaces", "members", "teams"} \X {0}]
          /\ born' = born \cup {w}
      BY <1>1, <2>3 DEF Commit, Failure, LifeTypeOK
    <3> QED
      BY <1>1, <2>1, <2>3, <3>1 DEF Created, LifeTypeOK
  <2> QED
    BY <2>2, <2>3
<1>2. ASSUME NEW v \in Spaces, Seed(v) PROVE P
  <2>1. PICK seeded \in {{}, {"issue_templates", "workflow_statuses"}} :
          rows' = [rows EXCEPT ![v] = IF Exists(v) THEN @ \cup seeded \X {0} ELSE @]
    BY <1>2 DEF Seed
  <2>2. CASE v = w /\ Exists(v)
    <3>1. rows'[w] = rows[w] \cup seeded \X {0} /\ rows[w] # {}
      BY <2>1, <2>2 DEF Exists, LifeTypeOK
    <3>2. \A r \in seeded \X {0} : r[1] # "workspaces"
      OBVIOUS
    <3> QED
      BY <1>2, <3>1, <3>2 DEF Grows, Seed
  <2>3. CASE v # w \/ ~ Exists(v)
    BY <1>2, <2>1, <2>3 DEF Seed, LifeTypeOK
  <2> QED
    BY <2>2, <2>3
<1>3. ASSUME NEW v \in Spaces, NEW t \in Background, Arrive(v, t) PROVE P
  <2>1. /\ rows[v] # {} /\ t # "workspaces" /\ UNCHANGED born
        /\ rows' = [rows EXCEPT ![v] = @ \cup {<<t, writes + 1>>}]
    BY <1>3, ArriveForms DEF Arrive
  <2> QED
    BY <2>1 DEF Grows, LifeTypeOK
<1>4. ASSUME NEW i \in Instances, CommitPurge(i) PROVE P
  <2>1. UNCHANGED born
    BY <1>4 DEF CommitPurge
  <2>2. CASE w = purge[i].w
    BY <1>4, <2>1, <2>2, CommitForms DEF Purged
  <2>3. CASE w # purge[i].w
    BY <1>4, <2>1, <2>3, CommitForms
  <2> QED
    BY <2>2, <2>3
<1>5. ASSUME UNCHANGED <<rows, born>> PROVE P
  BY <1>5
<1>6. /\ Login => P
      /\ Insert => P
      /\ \A v \in Spaces : Delete(v) \/ AskRestore(v) \/ Rename(v) => P
      /\ \A r \in restores : Restore(r) => P
      /\ \A i \in Instances : Scan(i) \/ LockRow(i) \/ Statement(i) \/ Fail(i) => P
      /\ Tick => P
  BY <1>5 DEF Login, Insert, Delete, AskRestore, Rename, Restore, Scan, LockRow, Statement, Fail,
     Tick, space, visible
<1> HIDE DEF IInv, P
<1>7. P
  BY <1>1, <1>2, <1>3, <1>4, <1>6, NextCases
<1> QED
  BY <1>7 DEF P

\* Rows are in workspaces that are there.
LEMMA RootedStep == ASSUME IInv, LifeNext PROVE Rooted'
<1> SUFFICES ASSUME NEW w \in Spaces
             PROVE  /\ rows'[w] # {} => Exists(w)' /\ w \in born'
                    /\ \A n \in 0 .. MaxWrites : <<"workspaces", n>> \in rows'[w] => n = 0
  BY DEF Rooted
<1>1. CASE Created(w)
  BY <1>1 DEF Created, Exists
<1>2. CASE Grows(w)
  BY <1>2, RowCases DEF Grows, Exists, IInv, Rooted
<1>3. CASE Purged(w)
  BY <1>3 DEF Purged
<1>4. CASE rows'[w] = rows[w]
  BY <1>4, RowCases DEF Exists, IInv, Rooted
<1> QED
  BY <1>1, <1>2, <1>3, <1>4, RowCases

\* One workspace has the slug, or is getting it.
LEMMA OneSlugStep == ASSUME IInv, LifeNext PROVE OneSlug'
<1> USE DEF IInv
<1>1. ASSUME UNCHANGED <<inserted, born>>, Found' \subseteq Found PROVE OneSlug'
  BY <1>1 DEF OneSlug
<1>2. ASSUME Insert PROVE OneSlug'
  <2>1. UNCHANGED <<rows, renamed, born>> /\ Found' = Found /\ inserted = {}
    BY <1>2 DEF Insert, space, Found, Exists
  <2>2. CASE Found # {}
    BY <1>2, <2>1, <2>2 DEF Insert, OneSlug
  <2>3. CASE Found = {}
    <3>1. PICK w \in Spaces \ born : inserted' = {w}
      BY <1>2, <2>3 DEF Insert
    <3> QED
      BY <2>1, <2>3, <3>1 DEF OneSlug
  <2> QED
    BY <2>2, <2>3
<1>3. ASSUME NEW v \in Spaces, Commit(v) PROVE OneSlug'
  <2>1. /\ v \in inserted /\ inserted' = inserted \ {v} /\ born' \subseteq born \cup {v}
        /\ UNCHANGED renamed
    BY <1>3 DEF Commit
  <2>2. \A w \in Spaces : w # v => rows'[w] = rows[w]
    BY <1>3 DEF Commit, LifeTypeOK
  <2>3. Found' \subseteq Found \cup {v}
    BY <2>1, <2>2 DEF Found, Exists
  <2> QED
    BY <2>1, <2>3 DEF OneSlug
<1>4. ASSUME NEW i \in Instances, CommitPurge(i) PROVE OneSlug'
  <2>1. /\ purge[i].w \in Spaces /\ rows'[purge[i].w] = {}
        /\ \A v \in Spaces : v # purge[i].w => rows'[v] = rows[v]
    BY <1>4, CommitForms
  <2>2. renamed' = renamed \ {purge[i].w} /\ UNCHANGED <<inserted, born>>
    BY <1>4 DEF CommitPurge, requests
  <2>3. Found' \subseteq Found
    BY <2>1, <2>2 DEF Found, Exists
  <2> QED
    BY <1>1, <2>2, <2>3
<1>5. ASSUME UNCHANGED <<rows, renamed, inserted, born>> PROVE OneSlug'
  BY <1>1, <1>5 DEF Found, Exists
<1>6. ASSUME NEW w \in Spaces, Seed(w) \/ Rename(w) PROVE OneSlug'
  <2>1. /\ UNCHANGED <<inserted, born>> /\ renamed \subseteq renamed'
        /\ \A v \in Spaces : Exists(v)' => Exists(v)
    BY <1>6 DEF Seed, Rename, requests, Exists, LifeTypeOK
  <2> QED
    BY <1>1, <2>1 DEF Found
<1>7. ASSUME NEW w \in Spaces, NEW t \in Background, Arrive(w, t) PROVE OneSlug'
  <2>1. /\ UNCHANGED <<inserted, born, renamed>> /\ t # "workspaces"
        /\ rows' = [rows EXCEPT ![w] = @ \cup {<<t, writes + 1>>}]
    BY <1>7, ArriveForms DEF Arrive, requests
  <2>2. \A v \in Spaces : Exists(v)' => Exists(v)
    BY <2>1 DEF Exists, LifeTypeOK
  <2> QED
    BY <1>1, <2>1, <2>2 DEF Found
<1>8. /\ Login => OneSlug'
      /\ \A w \in Spaces : Delete(w) \/ AskRestore(w) => OneSlug'
      /\ \A r \in restores : Restore(r) => OneSlug'
      /\ \A i \in Instances : Scan(i) \/ LockRow(i) \/ Statement(i) \/ Fail(i) => OneSlug'
      /\ Tick => OneSlug'
  BY <1>5 DEF Login, Delete, AskRestore, Restore, Scan, LockRow, Statement, Fail, Tick, space,
     visible, requests
<1> HIDE DEF IInv
<1> QED
  BY <1>2, <1>3, <1>4, <1>6, <1>7, <1>8, NextCases

-----------------------------------------------------------------------------
\* The invariant is inductive, ...
LEMMA InvStep == IInv /\ [LifeNext]_lifeVars => IInv'
<1>1. ASSUME IInv, LifeNext PROVE IInv'
  <2>1. LifeTypeOK' /\ Held' /\ Doomed' /\ Closed'
    BY <1>1, TypeStep, HeldStep, DoomedStep, ClosedStep DEF IInv
  <2>2. Rooted' /\ OneSlug' /\ Swept'
    BY <1>1, RootedStep, OneSlugStep, SweptStep
  <2> QED
    BY <2>1, <2>2 DEF IInv
<1>2. ASSUME IInv, UNCHANGED lifeVars PROVE IInv'
  <2>1. LifeTypeOK'
    BY <1>2 DEF IInv, LifeTypeOK, lifeVars, requests, SweepStates
  <2>2. Held' /\ Doomed' /\ Closed' /\ Rooted'
    BY <1>2 DEF IInv, lifeVars, Held, Doomed, Closed, Rooted, Purges, Expired, Exists
  <2>3. OneSlug' /\ Swept'
    BY <1>2 DEF IInv, lifeVars, requests, OneSlug, Swept, Purges, Found, Exists
  <2> QED
    BY <2>1, <2>2, <2>3 DEF IInv
<1> QED
  BY <1>1, <1>2

\* ... and so it always holds.
LEMMA AlwaysInv == LifeSpec => []IInv
BY InitInv, InvStep, PTL DEF LifeSpec

\* Only a purge ends a workspace, and only one whose window has closed: what it
\* checked under the lock holds still, and the clock has only gone on.
THEOREM WindowsAreKept == LifeSpec => WindowIsKept
<1> DEFINE Ended(w) == rows[w] # {} /\ rows'[w] = {} =>
                         deletedAt[w] # None /\ deletedAt[w] <= clock - RestoreWindow
<1>1. IInv /\ [LifeNext]_lifeVars => [\A w \in Spaces : Ended(w)]_lifeVars
  <2> SUFFICES ASSUME IInv, LifeNext, NEW w \in Spaces PROVE Ended(w)
    OBVIOUS
  <2>1. CASE Created(w)
    BY <2>1 DEF Created
  <2>2. CASE Grows(w)
    BY <2>2 DEF Grows
  <2>3. CASE Purged(w)
    <3>1. PICK i \in Instances : Purges(i) /\ purge[i].w = w
      BY <2>3 DEF Purged
    <3>2. /\ deletedAt[w] # None /\ deletedAt[w] <= purge[i].cutoff
          /\ purge[i].cutoff <= clock - RestoreWindow
      BY <3>1 DEF IInv, Doomed, Closed, Expired, Purges, NoSweep
    <3>3. deletedAt[w] \in Int /\ purge[i].cutoff \in Int /\ clock - RestoreWindow \in Int
      BY <3>1, <3>2, SweepForms, LifeConstants DEF IInv, LifeTypeOK, Times, PurgeForms
    <3> QED
      BY <3>2, <3>3
  <2>4. CASE rows'[w] = rows[w]
    BY <2>4
  <2> QED
    BY <2>1, <2>2, <2>3, <2>4, RowCases
<1> QED
  BY <1>1, AlwaysInv, PTL DEF LifeSpec, WindowIsKept

\* A workspace that is there loses nothing, and one that is gone has nothing:
\* what the last statement leaves behind would have no parent left but itself,
\* and a commit finds nothing that arrived in between.
THEOREM WorkspacesGoWhole == LifeSpec => AllOrNothing
<1> DEFINE Whole(w) == IF <<"workspaces", 0>> \in rows'[w] THEN rows[w] \subseteq rows'[w]
                         ELSE rows'[w] = {}
<1>1. IInv /\ [LifeNext]_lifeVars => [\A w \in Spaces : Whole(w)]_lifeVars
  <2> SUFFICES ASSUME IInv, LifeNext, NEW w \in Spaces PROVE Whole(w)
    OBVIOUS
  <2>1. rows'[w] # {} => <<"workspaces", 0>> \in rows'[w]
    BY RootedStep DEF Rooted, Exists
  <2>2. CASE <<"workspaces", 0>> \in rows'[w]
    BY <2>2, RowCases DEF Created, Grows, Purged
  <2>3. CASE <<"workspaces", 0>> \notin rows'[w]
    BY <2>1, <2>3
  <2> QED
    BY <2>2, <2>3
<1> QED
  BY <1>1, AlwaysInv, PTL DEF LifeSpec, AllOrNothing

\* However many logins race, one workspace has the slug: an insertion waits for
\* the other, and is made only where there is none.
THEOREM LoginsMeet == LifeSpec => []LoginsConverge
<1>1. IInv => LoginsConverge
  <2> SUFFICES ASSUME IInv PROVE Cardinality(Found) <= 1
    BY DEF LoginsConverge
  <2>1. CASE Found = {}
    BY <2>1, FS_EmptySet
  <2>2. ASSUME NEW w \in Found PROVE Cardinality(Found) <= 1
    <3>1. Found = {w}
      BY <2>2 DEF IInv, OneSlug
    <3>2. Cardinality({w}) = 1
      BY FS_Singleton
    <3> QED
      BY <3>1, <3>2
  <2> QED
    BY <2>1, <2>2
<1> QED
  BY <1>1, AlwaysInv, PTL
=============================================================================
