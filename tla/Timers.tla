------------------------------- MODULE Timers -------------------------------
(***************************************************************************)
(* The time entries of one member in one workspace                         *)
(* (internal/timetracking): timers are started and stopped, time is logged *)
(* and entries are deleted, by requests that overlap.                      *)
(*                                                                         *)
(* Stopping is an UPDATE of all running entries: it finds those that were  *)
(* committed when it began, waits for who holds one and looks at it again. *)
(* Nothing keeps a member from two running entries but that UPDATE.        *)
(***************************************************************************)
EXTENDS Naturals

CONSTANTS
    Entries,   \* rows, each used once
    Starters,  \* concurrent requests to start or stop a timer
    Nobody

VARIABLES
    entry,     \* row |-> what is committed of it
    heldBy,    \* row |-> the request whose UPDATE holds it
    timer,     \* request |-> its transaction
    rivals     \* history: row |-> those that were inserted while its own request ran

timerVars == <<entry, heldBy, timer, rivals>>

NoRequest == [pc |-> "idle"]
TimerState ==
    {NoRequest} \cup [pc : {"stop"}, starts : BOOLEAN, todo : SUBSET Entries,
                      stopped : SUBSET Entries, rivals : SUBSET Entries]

Running == {e \in Entries : entry[e] = "running"}
Unused == {e \in Entries : entry[e] = "none"}

TimersInit ==
    /\ entry = [e \in Entries |-> "none"]
    /\ heldBy = [e \in Entries |-> Nobody]
    /\ timer = [c \in Starters |-> NoRequest]
    /\ rivals = [e \in Entries |-> {}]

\* StartTimer, and with starts = FALSE StopTimer: the UPDATE begins.
StopPrevious(c, starts) ==
    /\ timer[c] = NoRequest
    /\ timer' = [timer EXCEPT ![c] =
                   [pc |-> "stop", starts |-> starts, todo |-> Running,
                    stopped |-> {}, rivals |-> {}]]
    /\ UNCHANGED <<entry, heldBy, rivals>>

\* Fault: SKIP LOCKED.
StopRowSkipsLocked(c, e) ==
    /\ timer[c] # NoRequest /\ e \in timer[c].todo
    /\ IF entry[e] = "running" /\ heldBy[e] = Nobody
         THEN /\ heldBy' = [heldBy EXCEPT ![e] = c]
              /\ timer' = [timer EXCEPT ![c].todo = @ \ {e}, ![c].stopped = @ \cup {e}]
         ELSE /\ timer' = [timer EXCEPT ![c].todo = @ \ {e}]
              /\ UNCHANGED heldBy
    /\ UNCHANGED <<entry, rivals>>

\* One row of it: stopped_at IS NULL is looked at again under the lock.
StopRow(c, e) ==
    /\ timer[c] # NoRequest /\ e \in timer[c].todo
    /\ heldBy[e] = Nobody
    /\ IF entry[e] = "running"
         THEN /\ heldBy' = [heldBy EXCEPT ![e] = c]
              /\ timer' = [timer EXCEPT ![c].todo = @ \ {e}, ![c].stopped = @ \cup {e}]
         ELSE /\ timer' = [timer EXCEPT ![c].todo = @ \ {e}]
              /\ UNCHANGED heldBy
    /\ UNCHANGED <<entry, rivals>>

Released(c) == [e \in Entries |-> IF heldBy[e] = c THEN Nobody ELSE heldBy[e]]

\* COMMIT, for StartTimer after its INSERT, which nobody sees before.
CommitTimer(c) ==
    /\ timer[c] # NoRequest /\ timer[c].todo = {}
    /\ \E new \in IF timer[c].starts THEN {{e} : e \in Unused} ELSE {{}} :
        /\ entry' = [e \in Entries |-> IF e \in new THEN "running"
                                       ELSE IF e \in timer[c].stopped THEN "stopped" ELSE entry[e]]
        /\ rivals' = [e \in Entries |-> IF e \in new THEN timer[c].rivals ELSE rivals[e]]
        /\ timer' = [d \in Starters |->
                       IF d = c THEN NoRequest
                       ELSE IF timer[d] = NoRequest THEN timer[d]
                       ELSE [timer[d] EXCEPT !.rivals = @ \cup new]]
    /\ heldBy' = Released(c)

\* A failed statement, a connection that goes, a deadlock PostgreSQL breaks.
RollBackTimer(c) ==
    /\ timer[c] # NoRequest
    /\ timer' = [timer EXCEPT ![c] = NoRequest]
    /\ heldBy' = Released(c)
    /\ UNCHANGED <<entry, rivals>>

LogTime(e) ==
    /\ entry[e] = "none"
    /\ entry' = [entry EXCEPT ![e] = "stopped"]
    /\ UNCHANGED <<heldBy, timer, rivals>>

\* A hard delete, which waits for the row.
DeleteEntry(e) ==
    /\ entry[e] \in {"running", "stopped"} /\ heldBy[e] = Nobody
    /\ entry' = [entry EXCEPT ![e] = "deleted"]
    /\ UNCHANGED <<heldBy, timer, rivals>>

TimersNext ==
    \/ \E c \in Starters :
        \/ \E starts \in BOOLEAN : StopPrevious(c, starts)
        \/ \E e \in Entries : StopRow(c, e)
        \/ CommitTimer(c) \/ RollBackTimer(c)
    \/ \E e \in Entries : LogTime(e) \/ DeleteEntry(e)

TimersSpec == TimersInit /\ [][TimersNext]_timerVars

-----------------------------------------------------------------------------
\* A member may have two running timers only if the requests that started them
\* overlapped; otherwise the later start has stopped the earlier entry,
\* whatever stops, deletions and roll-backs came between.
RunningTogetherStartedTogether ==
    \A e, f \in Running : e = f \/ e \in rivals[f] \/ f \in rivals[e]
=============================================================================
