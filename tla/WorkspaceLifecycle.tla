------------------------- MODULE WorkspaceLifecycle -------------------------
(***************************************************************************)
(* The life of a workspace (internal/workspace): the first login makes it, *)
(* its owner renames, deletes and restores it, and the purge of every      *)
(* instance removes it when its window to restore has closed - while       *)
(* requests that came in earlier, and loops that do not ask whether a      *)
(* workspace is deleted, still write to it.                                *)
(*                                                                         *)
(* All of them are about one identity, whose slug is the key of its        *)
(* workspace.  NOW() is when a statement began; an UPDATE then waits for   *)
(* whoever holds the row.  The clocks of the instances are the database's. *)
(***************************************************************************)
EXTENDS WorkspaceSchema, FiniteSets

CONSTANTS
    Spaces,  \* ids, each used once
    First,       \* what the identity may have at the beginning, with everything in it
    Instances,   \* of Track, each with a purge loop
    Background,  \* tables that loops and the GitHub intake write to
    RestoreWindow,
    None,
    MaxTime, MaxWrites, MaxFailures, MaxRequests   \* bounds

ASSUME LifeConstants ==
    /\ First \in Spaces /\ None \notin Instances
    /\ RestoreWindow \in Nat
    /\ MaxTime \in Nat /\ MaxWrites \in Nat /\ MaxFailures \in Nat /\ MaxRequests \in Nat
    /\ Background \subseteq Tables \ {"workspaces"}
    /\ {"workspaces", "members", "teams", "issue_templates", "workflow_statuses"}
         \subseteq Tables

\* What the purge needs of the schema: a statement meets every row that refers
\* to what it removes, and what any table but "workspaces" refers to is removed
\* by some statement.
ASSUME SchemaFits ==
    /\ Parents \in [Tables -> SUBSET Tables]
    /\ Emptied \in Seq(SUBSET Tables) /\ Len(Emptied) > 0
    /\ \A t \in Tables, k \in DOMAIN Emptied :
         Parents[t] \cap Emptied[k] # {} => t \in Emptied[k] \cup Refusing[k]
    /\ \A t \in Tables \ {"workspaces"} :
         \E k \in DOMAIN Emptied : Parents[t] \cap Emptied[k] # {}
    /\ "workspaces" \in Emptied[Len(Emptied)]

VARIABLES
    rows,       \* workspace |-> its committed rows <<table, n>>
    born,       \* workspaces that have been created
    deletedAt,  \* workspace |-> when it was deleted, or None
    renamed,    \* workspaces whose slug is another
    logins,     \* requests to log in that found no workspace and insert one next
    inserted,   \* workspaces whose insertion is not committed
    unseeded,   \* workspaces whose login has not seeded them
    restores,   \* requests to restore: the workspace and when the UPDATE began
    purge,      \* instance |-> its sweep
    lock,       \* workspace |-> the purge that holds its row, or None
    clock, writes, failures

requests == <<logins, inserted, unseeded, restores>>
lifeVars == <<rows, born, deletedAt, renamed, requests, purge, lock, clock, writes, failures>>

Times == 0 .. MaxTime
TableRow == Tables \X (0 .. MaxWrites)

Exists(w) == <<"workspaces", 0>> \in rows[w]
Found == {w \in Spaces : Exists(w) /\ w \notin renamed}
Expired(w, cutoff) == Exists(w) /\ deletedAt[w] # None /\ deletedAt[w] <= cutoff

NoSweep == [pc |-> "idle"]
SweepStates ==
    {NoSweep}
    \cup [pc : {"sweep"}, cutoff : Int, todo : SUBSET Spaces]
    \cup [pc : {"purge"}, cutoff : Int, todo : SUBSET Spaces, w : Spaces,
          step : 1 .. Len(Emptied) + 1, removed : SUBSET TableRow]

LifeInit ==
    /\ born \in {{}, {First}}
    /\ rows = [w \in Spaces |-> IF w \in born THEN Tables \X {0} ELSE {}]
    /\ deletedAt = [w \in Spaces |-> None]
    /\ renamed = {}
    /\ logins = 0 /\ inserted = {} /\ unseeded = {} /\ restores = {}
    /\ purge = [i \in Instances |-> NoSweep]
    /\ lock = [w \in Spaces |-> None]
    /\ clock = 0 /\ writes = 0 /\ failures = 0

Failure == failures < MaxFailures /\ failures' = failures + 1
Admits ==
    logins + Cardinality(inserted) + Cardinality(unseeded) + Cardinality(restores) < MaxRequests
space == <<rows, born, deletedAt, renamed>>
rest == <<purge, lock, clock, writes>>

-----------------------------------------------------------------------------
(* Bootstrap.                                                              *)

\* GetBySlug finds a deleted workspace, too; only a login that finds none goes on.
Login ==
    /\ Admits /\ Found = {}
    /\ logins' = logins + 1
    /\ UNCHANGED <<space, inserted, unseeded, restores, rest, failures>>

\* Fault: slugs are not unique.
InsertAnyway ==
    /\ logins > 0
    /\ logins' = logins - 1
    /\ \E w \in Spaces \ (born \cup inserted) : inserted' = inserted \cup {w}
    /\ UNCHANGED <<space, unseeded, restores, rest, failures>>

\* CreateWithOwner's first INSERT waits for one with the same slug that is not
\* committed, and fails on one that is: the login then reads that one.
Insert ==
    /\ logins > 0 /\ inserted = {}
    /\ logins' = logins - 1
    /\ IF Found # {} THEN UNCHANGED inserted
       ELSE \E w \in Spaces \ born : inserted' = {w}
    /\ UNCHANGED <<space, unseeded, restores, rest, failures>>

\* The workspace with its owner and its team, or, if a statement fails, none.
Commit(w) ==
    /\ w \in inserted
    /\ inserted' = inserted \ {w}
    /\ \/ /\ rows' = [rows EXCEPT ![w] = {"workspaces", "members", "teams"} \X {0}]
          /\ born' = born \cup {w}
          /\ unseeded' = unseeded \cup {w}
          /\ UNCHANGED failures
       \/ Failure /\ UNCHANGED <<rows, born, unseeded>>
    /\ UNCHANGED <<deletedAt, renamed, logins, restores, rest>>

\* The templates and the statuses: best effort, each on its own (bound: both or
\* neither).
Seed(w) ==
    /\ w \in unseeded
    /\ lock[w] = None
    /\ unseeded' = unseeded \ {w}
    /\ \E seeded \in {{}, {"issue_templates", "workflow_statuses"}} :
         rows' = [rows EXCEPT ![w] = IF Exists(w) THEN @ \cup seeded \X {0} ELSE @]
    /\ UNCHANGED <<born, deletedAt, renamed, logins, inserted, restores, rest, failures>>

-----------------------------------------------------------------------------
(* Its owner.                                                              *)

\* COALESCE: a second deletion, which the middleware let in before the first,
\* keeps the time of that.
Delete(w) ==
    /\ Exists(w) /\ lock[w] = None
    /\ deletedAt' = [deletedAt EXCEPT ![w] = IF @ = None THEN clock ELSE @]
    /\ UNCHANGED <<rows, born, renamed, requests, rest, failures>>

\* (Bound: one at a time.)
AskRestore(w) ==
    /\ Admits /\ restores = {}
    /\ deletedAt[w] # None
    /\ restores' = restores \cup {[w |-> w, now |-> clock]}
    /\ UNCHANGED <<space, logins, inserted, unseeded, rest, failures>>

\* The UPDATE, when nobody holds the row.
Restore(r) ==
    /\ lock[r.w] = None
    /\ restores' = restores \ {r}
    /\ deletedAt' = [deletedAt EXCEPT ![r.w] =
                       IF @ # None /\ @ > r.now - RestoreWindow THEN None ELSE @]
    /\ UNCHANGED <<rows, born, renamed, logins, inserted, unseeded, rest, failures>>

\* Update lets the owner choose another slug.
Rename(w) ==
    /\ w \in Found /\ lock[w] = None
    /\ writes < MaxWrites
    /\ renamed' = renamed \cup {w}
    /\ writes' = writes + 1
    /\ UNCHANGED <<rows, born, deletedAt, requests, purge, lock, clock, failures>>

-----------------------------------------------------------------------------
(* What else writes to it.                                                 *)

\* Rows that a purge has removed and not committed.
Removing(w) == UNION {purge[i].removed : i \in {j \in Instances : lock[w] = j}}

\* A new row needs the rows it refers to, and waits for one that is locked or
\* being removed.
Arrive(w, t) ==
    /\ writes < MaxWrites
    /\ \A p \in Parents[t] : <<p, 0>> \in rows[w] \ Removing(w)
    /\ "workspaces" \in Parents[t] => lock[w] = None
    /\ rows' = [rows EXCEPT ![w] = @ \cup {<<t, writes + 1>>}]
    /\ writes' = writes + 1
    /\ UNCHANGED <<born, deletedAt, renamed, requests, purge, lock, clock, failures>>

-----------------------------------------------------------------------------
(* The purge.                                                              *)

Sweeps(i, p) == purge' = [purge EXCEPT ![i] = p]
SweepOf(p) == [pc |-> "sweep", cutoff |-> p.cutoff, todo |-> p.todo]
NextOf(p) == IF p.todo = {} THEN NoSweep ELSE SweepOf(p)
PurgeOf(p, w, step, removed) ==
    [pc |-> "purge", cutoff |-> p.cutoff, todo |-> p.todo,
     w |-> w, step |-> step, removed |-> removed]
visible == <<rows, born, deletedAt, renamed, requests, clock, writes>>

\* PurgeExpired: the ids that have expired now.
Scan(i) ==
    /\ purge[i] = NoSweep
    /\ LET cutoff == clock - RestoreWindow
           todo == {w \in Spaces : Expired(w, cutoff)}
       IN  todo # {} /\ Sweeps(i, [pc |-> "sweep", cutoff |-> cutoff, todo |-> todo])
    /\ UNCHANGED <<visible, lock, failures>>

\* Fault: deleted is enough.
LockRowAnyTime(i) ==
    /\ purge[i].pc = "sweep"
    /\ \E w \in purge[i].todo :
        /\ lock[w] = None
        /\ LET p == [purge[i] EXCEPT !.todo = @ \ {w}] IN
           IF Exists(w) /\ deletedAt[w] # None
             THEN /\ Sweeps(i, PurgeOf(p, w, 1, {}))
                  /\ lock' = [lock EXCEPT ![w] = i]
             ELSE Sweeps(i, NextOf(p)) /\ UNCHANGED lock
    /\ UNCHANGED <<visible, failures>>

\* FOR UPDATE, and whether it is still past its window.
LockRow(i) ==
    /\ purge[i].pc = "sweep"
    /\ \E w \in purge[i].todo :
        /\ lock[w] = None
        /\ LET p == [purge[i] EXCEPT !.todo = @ \ {w}] IN
           IF Expired(w, p.cutoff)
             THEN /\ Sweeps(i, PurgeOf(p, w, 1, {}))
                  /\ lock' = [lock EXCEPT ![w] = i]
             ELSE Sweeps(i, NextOf(p)) /\ UNCHANGED lock
    /\ UNCHANGED <<visible, failures>>

RollBack(i) ==
    /\ Sweeps(i, NextOf(purge[i]))
    /\ lock' = [lock EXCEPT ![purge[i].w] = None]

\* Fault: no transaction around the statements: what failed later has removed
\* what came before.
StatementAlone(i) ==
    /\ purge[i].pc = "purge" /\ purge[i].step <= Len(Emptied)
    /\ LET p == purge[i]
           left == {r \in rows[p.w] : r[1] \notin Emptied[p.step]}
       IN  /\ rows' = [rows EXCEPT ![p.w] = left]
           /\ Sweeps(i, [p EXCEPT !.step = @ + 1])
    /\ UNCHANGED <<born, deletedAt, renamed, requests, clock, writes, lock, failures>>

\* One statement of purgeOrder: it sees what is committed, and fails on a row
\* that refers to one it removes.
Statement(i) ==
    /\ purge[i].pc = "purge" /\ purge[i].step <= Len(Emptied)
    /\ LET p == purge[i]
           removed == p.removed \cup {r \in rows[p.w] : r[1] \in Emptied[p.step]}
           refused == \E r \in rows[p.w] \ removed : r[1] \in Refusing[p.step]
       IN  IF refused THEN RollBack(i)
           ELSE /\ Sweeps(i, PurgeOf(p, p.w, p.step + 1, removed))
                /\ UNCHANGED lock
    /\ UNCHANGED <<visible, failures>>

CommitPurge(i) ==
    /\ purge[i].pc = "purge" /\ purge[i].step > Len(Emptied)
    /\ LET w == purge[i].w IN
        /\ rows' = [rows EXCEPT ![w] = @ \ purge[i].removed]
        /\ deletedAt' = [deletedAt EXCEPT ![w] = None]
        /\ renamed' = renamed \ {w}
    /\ RollBack(i)
    /\ UNCHANGED <<born, requests, clock, writes, failures>>

\* A statement fails; or the instance stops, and another starts.
Fail(i) ==
    /\ purge[i] # NoSweep
    /\ Failure
    /\ \/ purge[i].pc = "purge" /\ RollBack(i)
       \/ /\ Sweeps(i, NoSweep)
          /\ lock' = [w \in Spaces |-> IF lock[w] = i THEN None ELSE lock[w]]
    /\ UNCHANGED visible

Tick ==
    /\ clock < MaxTime
    /\ clock' = clock + 1
    /\ UNCHANGED <<rows, born, deletedAt, renamed, requests, purge, lock, writes, failures>>

-----------------------------------------------------------------------------
PurgeLoop(i) == Scan(i) \/ LockRow(i) \/ Statement(i) \/ CommitPurge(i)

LifeNext ==
    \/ Login \/ Insert
    \/ \E w \in Spaces :
        \/ Commit(w) \/ Seed(w) \/ Delete(w) \/ AskRestore(w) \/ Rename(w)
        \/ \E t \in Background : Arrive(w, t)
    \/ \E r \in restores : Restore(r)
    \/ \E i \in Instances : PurgeLoop(i) \/ Fail(i)
    \/ Tick

\* StartPurge is a goroutine on an hourly ticker.
LifeFairness == \A i \in Instances : WF_lifeVars(PurgeLoop(i))

LifeSpec == LifeInit /\ [][LifeNext]_lifeVars /\ LifeFairness

-----------------------------------------------------------------------------
\* Every variable stays in its set.
LifeTypeOK ==
    /\ rows \in [Spaces -> SUBSET TableRow]
    /\ born \subseteq Spaces /\ renamed \subseteq Spaces
    /\ deletedAt \in [Spaces -> Times \cup {None}]
    /\ logins \in Nat /\ inserted \cup unseeded \subseteq Spaces
    /\ restores \subseteq [w : Spaces, now : Times]
    /\ purge \in [Instances -> SweepStates]
    /\ lock \in [Spaces -> Instances \cup {None}]
    /\ clock \in Times /\ writes \in 0 .. MaxWrites /\ failures \in 0 .. MaxFailures

\* A workspace disappears only when it has been deleted for the whole window:
\* a restore that came between the scan and the purge, and a second deletion
\* after it, keep it (purge's check under the lock).
WindowIsKept ==
    [][ \A w \in Spaces :
          rows[w] # {} /\ rows'[w] = {} =>
            deletedAt[w] # None /\ deletedAt[w] <= clock - RestoreWindow ]_lifeVars

\* Whatever the purge and the writers do, a workspace that is there has all
\* that was ever put into it ("never half-removed"), and of one that is gone
\* nothing is left.
AllOrNothing ==
    [][ \A w \in Spaces : IF <<"workspaces", 0>> \in rows'[w] THEN rows[w] \subseteq rows'[w]
                              ELSE rows'[w] = {} ]_lifeVars

\* The order of the statements fits the foreign keys: a workspace past its
\* window is purged, or restored by a request that came in time.
ExpiredIsPurged ==
    \A w \in Spaces : Expired(w, clock - RestoreWindow) ~> ~ Expired(w, clock - RestoreWindow)

\* Logins of one identity converge: however many race past the lookup, and
\* whatever is deleted and purged between them, one workspace bears its slug.
LoginsConverge == Cardinality(Found) <= 1
=============================================================================
