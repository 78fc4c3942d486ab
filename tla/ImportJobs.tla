----------------------------- MODULE ImportJobs -----------------------------
(***************************************************************************)
(* The import job spine (internal/importer: jobs.go, runner.go, source.go).*)
(* A job row and its uploaded payload are created together; every Track    *)
(* instance runs one runner that claims the oldest pending job with FOR     *)
(* UPDATE SKIP LOCKED, opens its source, writes it row by row through       *)
(* issue.Store.UpsertByIdentifier or Create, and records the outcome; a     *)
(* pruner deletes payloads nobody needs any more.                           *)
(*                                                                         *)
(* An instance stops as cmd/track/main.go makes it stop: a signal only     *)
(* drains HTTP, then the deferred pool.Close runs, and the deferred cancel  *)
(* of the context the runner was started with comes after it.              *)
(***************************************************************************)
EXTENDS Naturals, Sequences, FiniteSets

CONSTANTS
    Jobs,         \* import jobs a workspace's members ask for
    FileJobs,     \* those with an uploaded file; the others pull an API
    Teams, TeamOf,
    Identifiers,  \* provider keys, also what a native issue may be called
    Source,       \* job |-> its rows: an identifier, Keyless or Malformed
    Runners,      \* Track instances
    Keyless, Malformed, None, Human,
    MaxFaults     \* bound: failed statements and crashes

Terminal == {"succeeded", "partial", "failed"}

ASSUME ImportSide ==
    /\ FileJobs \subseteq Jobs
    /\ TeamOf \in [Jobs -> Teams]
    /\ Source \in [Jobs -> Seq(Identifiers \cup {Keyless, Malformed})]
    /\ Human \notin Jobs
    /\ None \notin Jobs \cup Identifiers \cup {"pending", "running"} \cup Terminal
    /\ MaxFaults \in Nat

VARIABLES
    queue,     \* import_jobs in created_at order
    status,    \* import_jobs.status, None before the row exists
    report,    \* import_jobs.imported, skipped, failed
    payloads,  \* import_job_payloads
    aged,      \* jobs that finished more than FailedPayloadRetention ago
    issue,     \* identifier |-> None or the team and creator of its issue
    runner,    \* instance |-> what its runner is doing
    phase,     \* instance |-> up, draining, closed, cancelled or down
    landed,    \* history: job |-> rows whose write committed
    doubtful,  \* history: job |-> rows whose write reported an error
    stranded,  \* history: jobs whose runner died or could not record the end
    faults

jobVars == <<queue, status, report, payloads, aged>>
history == <<landed, doubtful, stranded>>
vars == <<jobVars, issue, runner, phase, history, faults>>

Counts == [imported : Nat, refused : Nat, failed : Nat]
NoCounts == [imported |-> 0, refused |-> 0, failed |-> 0]

Idle == [pc |-> "idle"]

RunnerState ==
    {Idle}
    \cup [pc : {"claim", "open", "delete"}, job : Jobs]
    \cup [pc : {"pull", "write"}, job : Jobs, at : Nat, counts : Counts]
    \cup [pc : {"finish"}, job : Jobs, status : Terminal, counts : Counts]

Holder == [team : Teams, by : Jobs \cup {Human}]

TypeOK ==
    /\ queue \in Seq(Jobs)
    /\ status \in [Jobs -> {None, "pending", "running"} \cup Terminal]
    /\ report \in [Jobs -> Counts]
    /\ payloads \subseteq FileJobs
    /\ aged \subseteq {j \in Jobs : status[j] \in Terminal}
    /\ issue \in [Identifiers -> {None} \cup Holder]
    /\ runner \in [Runners -> RunnerState]
    /\ phase \in [Runners -> {"up", "draining", "closed", "cancelled", "down"}]
    /\ landed \in [Jobs -> SUBSET Nat]
    /\ doubtful \in [Jobs -> SUBSET Nat]
    /\ stranded \subseteq Jobs
    /\ faults \in 0 .. MaxFaults

Init ==
    /\ queue = <<>> /\ payloads = {} /\ aged = {} /\ stranded = {}
    /\ status = [j \in Jobs |-> None]
    /\ report = [j \in Jobs |-> NoCounts]
    /\ issue = [id \in Identifiers |-> None]
    /\ runner = [r \in Runners |-> Idle]
    /\ phase = [r \in Runners |-> "up"]
    /\ landed = [j \in Jobs |-> {}]
    /\ doubtful = [j \in Jobs |-> {}]
    /\ faults = 0

PoolOpen(r) == phase[r] \in {"up", "draining"}

\* A statement fails: a fault, or the pool it needs is closed.
Fails(r) ==
    \/ PoolOpen(r) /\ faults < MaxFaults /\ faults' = faults + 1
    \/ phase[r] \in {"closed", "cancelled"} /\ UNCHANGED faults

Does(r, state) == runner' = [runner EXCEPT ![r] = state]

\* Rows locked by a claim in progress.
Locked == {runner[r].job : r \in {x \in Runners : runner[x].pc = "claim"}}

-----------------------------------------------------------------------------
(* Creation.                                                               *)

\* JobStore.Create and CreateAPIJob: row and payload commit together.
Create(j) ==
    /\ status[j] = None
    /\ queue' = Append(queue, j)
    /\ status' = [status EXCEPT ![j] = "pending"]
    /\ payloads' = IF j \in FileJobs THEN payloads \cup {j} ELSE payloads
    /\ UNCHANGED <<report, aged, issue, runner, phase, history, faults>>

\* A member creates an issue that the provider's keys may collide with.
CreateNative(id, t) ==
    /\ issue[id] = None
    /\ issue' = [issue EXCEPT ![id] = [team |-> t, by |-> Human]]
    /\ UNCHANGED <<jobVars, runner, phase, history, faults>>

-----------------------------------------------------------------------------
(* The runner.                                                             *)

\* The oldest of the jobs in S.
Oldest(j, S) ==
    \E n \in DOMAIN queue :
        /\ queue[n] = j /\ j \in S
        /\ \A m \in 1 .. n - 1 : queue[m] \notin S

Pending == {j \in Jobs : status[j] = "pending"}

\* Fault: the claim reads without the row lock.
ClaimUnlocked(r) ==
    /\ runner[r] = Idle
    /\ PoolOpen(r)
    /\ \E j \in Jobs : Oldest(j, Pending) /\ Does(r, [pc |-> "claim", job |-> j])
    /\ UNCHANGED <<jobVars, issue, phase, history, faults>>

\* ClaimNext's SELECT: the oldest pending job no other claim has locked.
Claim(r) ==
    /\ runner[r] = Idle
    /\ PoolOpen(r)
    /\ \E j \in Jobs : Oldest(j, Pending \ Locked) /\ Does(r, [pc |-> "claim", job |-> j])
    /\ UNCHANGED <<jobVars, issue, phase, history, faults>>

\* Its UPDATE and COMMIT; on an error the transaction rolls back and drain
\* waits for the next tick.
CommitClaim(r) ==
    /\ runner[r].pc = "claim"
    /\ LET j == runner[r].job
       IN  \/ /\ PoolOpen(r)
              /\ status' = [status EXCEPT ![j] = "running"]
              /\ Does(r, [pc |-> "open", job |-> j])
              /\ UNCHANGED faults
           \/ Fails(r) /\ Does(r, Idle) /\ UNCHANGED status
    /\ UNCHANGED <<queue, report, payloads, aged, issue, phase, history>>

\* Fault: a source that cannot be opened ends execute without a finish.
OpenReturnsEarly(r) ==
    /\ runner[r].pc = "open"
    /\ LET j == runner[r].job
       IN  \/ /\ PoolOpen(r)
              /\ Does(r, [pc |-> "pull", job |-> j, at |-> 1, counts |-> NoCounts])
              /\ UNCHANGED faults
           \/ Fails(r) /\ Does(r, Idle)
    /\ UNCHANGED <<jobVars, issue, phase, history>>

\* sourceFor: the file is loaded, or the provider's credentials are; without
\* them the job has failed.
Open(r) ==
    /\ runner[r].pc = "open"
    /\ LET j == runner[r].job
       IN  \/ /\ PoolOpen(r)
              /\ j \in FileJobs => j \in payloads
              /\ Does(r, [pc |-> "pull", job |-> j, at |-> 1, counts |-> NoCounts])
              /\ UNCHANGED faults
           \/ /\ \/ Fails(r)
                 \/ PoolOpen(r) /\ j \in FileJobs \ payloads /\ UNCHANGED faults
              /\ Does(r, [pc |-> "finish", job |-> j, status |-> "failed",
                          counts |-> NoCounts])
    /\ UNCHANGED <<jobVars, issue, phase, history>>

\* Fault: a refusal is not a failure, so it is taken for a success.
terminalStatusForgivesRefusals(stopped, c) ==
    IF ~ stopped /\ c.failed = 0 THEN "succeeded"
    ELSE IF c.imported > 0 THEN "partial" ELSE "failed"

terminalStatus(stopped, c) ==
    IF ~ stopped /\ c.refused + c.failed = 0 THEN "succeeded"
    ELSE IF c.imported > 0 THEN "partial" ELSE "failed"

\* One row further, with these counts.
Past(s, c) == [pc |-> "pull", job |-> s.job, at |-> s.at + 1, counts |-> c]

\* The head of run's loop: a cancelled context stops the import, a malformed
\* row is counted, the end of the source ends it.
Pull(r) ==
    /\ runner[r].pc = "pull"
    /\ LET s    == runner[r]
           rows == Source[s.job]
           End(stopped) == [pc |-> "finish", job |-> s.job, counts |-> s.counts,
                            status |-> terminalStatus(stopped, s.counts)]
       IN  Does(r, IF phase[r] = "cancelled" THEN End(TRUE)
                   ELSE IF s.at > Len(rows) THEN End(FALSE)
                   ELSE IF rows[s.at] = Malformed
                     THEN Past(s, [s.counts EXCEPT !.failed = @ + 1])
                   ELSE [pc |-> "write", job |-> s.job, at |-> s.at, counts |-> s.counts])
    /\ UNCHANGED <<jobVars, issue, phase, history, faults>>

\* Fault: the upsert's conflict arm without its ownership predicate.
WritableAnyone(id, j) == TRUE

\* The conflict arm: the issue came from an import into the same team.
Writable(id, j) ==
    issue[id] # None => issue[id].by # Human /\ issue[id].team = TeamOf[j]

\* The row's statement took effect.
Landed(j, at) ==
    LET id == Source[j][at]
    IN  /\ landed' = [landed EXCEPT ![j] = @ \cup {at}]
        /\ issue' = IF id = Keyless THEN issue
                    ELSE [issue EXCEPT ![id] = [team |-> TeamOf[j], by |-> j]]

\* UpsertByIdentifier for a row with a key, Create for one without: written,
\* refused as somebody else's issue, or failed - perhaps after it committed.
Write(r) ==
    /\ runner[r].pc = "write"
    /\ LET s  == runner[r]
           j  == s.job
           id == Source[j][s.at]
           mayWrite == id # Keyless => Writable(id, j)
       IN  \/ /\ PoolOpen(r) /\ mayWrite
              /\ Landed(j, s.at)
              /\ Does(r, Past(s, [s.counts EXCEPT !.imported = @ + 1]))
              /\ UNCHANGED <<doubtful, faults>>
           \/ /\ PoolOpen(r) /\ ~ mayWrite
              /\ Does(r, Past(s, [s.counts EXCEPT !.refused = @ + 1]))
              /\ UNCHANGED <<issue, landed, doubtful, faults>>
           \/ /\ Fails(r)
              /\ Does(r, Past(s, [s.counts EXCEPT !.failed = @ + 1]))
              /\ doubtful' = [doubtful EXCEPT ![j] = @ \cup {s.at}]
              /\ \/ UNCHANGED <<issue, landed>>
                 \/ PoolOpen(r) /\ mayWrite /\ Landed(j, s.at)
    /\ UNCHANGED <<jobVars, phase, stranded>>

\* Finish; when it cannot be recorded the row stays running.
Finish(r) ==
    /\ runner[r].pc = "finish"
    /\ LET s == runner[r]
       IN  \/ /\ PoolOpen(r)
              /\ status' = [status EXCEPT ![s.job] = s.status]
              /\ report' = [report EXCEPT ![s.job] = s.counts]
              /\ Does(r, IF s.status = "succeeded"
                           THEN [pc |-> "delete", job |-> s.job] ELSE Idle)
              /\ UNCHANGED <<stranded, faults>>
           \/ /\ Fails(r)
              /\ Does(r, Idle)
              /\ stranded' = stranded \cup {s.job}
              /\ UNCHANGED <<status, report>>
    /\ UNCHANGED <<queue, payloads, aged, issue, phase, landed, doubtful>>

\* DeletePayload; the pruner retries it.
DeletePayload(r) ==
    /\ runner[r].pc = "delete"
    /\ Does(r, Idle)
    /\ \/ PoolOpen(r) /\ payloads' = payloads \ {runner[r].job} /\ UNCHANGED faults
       \/ Fails(r) /\ UNCHANGED payloads
    /\ UNCHANGED <<queue, status, report, aged, issue, phase, history>>

Run(r) ==
    \/ Claim(r) \/ CommitClaim(r) \/ Open(r) \/ Pull(r)
    \/ Write(r) \/ Finish(r) \/ DeletePayload(r)

-----------------------------------------------------------------------------
(* Retention.                                                              *)

Age(j) ==
    /\ status[j] \in Terminal
    /\ j \notin aged
    /\ aged' = aged \cup {j}
    /\ UNCHANGED <<queue, status, report, payloads, issue, runner, phase, history, faults>>

\* Fault: the retention of failed imports forgotten.
PrunableUnaged == {j \in Jobs : status[j] \in Terminal}

\* PrunePayloads' WHERE.
Prunable ==
    {j \in Jobs : \/ status[j] = "succeeded"
                  \/ status[j] \in {"failed", "partial"} /\ j \in aged}

PrunePayloads ==
    /\ payloads \cap Prunable # {}
    /\ payloads' = payloads \ Prunable
    /\ UNCHANGED <<queue, status, report, aged, issue, runner, phase, history, faults>>

-----------------------------------------------------------------------------
(* The instance.                                                           *)

Enters(r, p) == phase' = [phase EXCEPT ![r] = p]

\* SIGTERM: the HTTP server drains.  Nothing tells the runner.
Drain(r) ==
    /\ phase[r] = "up"
    /\ Enters(r, "draining")
    /\ UNCHANGED <<jobVars, issue, runner, history, faults>>

\* The deferred pool.Close: it waits for the connections in use, so for a
\* claim's transaction, and every later statement is refused.
ClosePool(r) ==
    /\ phase[r] = "draining"
    /\ runner[r].pc # "claim"
    /\ Enters(r, "closed")
    /\ UNCHANGED <<jobVars, issue, runner, history, faults>>

\* The deferred cancel, run after it.
Cancel(r) ==
    /\ phase[r] = "closed"
    /\ Enters(r, "cancelled")
    /\ UNCHANGED <<jobVars, issue, runner, history, faults>>

\* Whatever the runner holds in memory is gone; a claim rolls back.
Halt(r) ==
    /\ Enters(r, "down")
    /\ Does(r, Idle)
    /\ stranded' = IF runner[r].pc \in {"open", "pull", "write", "finish"}
                     THEN stranded \cup {runner[r].job} ELSE stranded
    /\ UNCHANGED <<jobVars, issue, landed, doubtful>>

\* main returns.
Exit(r) == phase[r] = "cancelled" /\ Halt(r) /\ UNCHANGED faults

Crash(r) ==
    /\ phase[r] # "down"
    /\ faults < MaxFaults /\ faults' = faults + 1
    /\ Halt(r)

Start(r) ==
    /\ phase[r] = "down"
    /\ Enters(r, "up")
    /\ UNCHANGED <<jobVars, issue, runner, history, faults>>

Next ==
    \/ \E j \in Jobs : Create(j) \/ Age(j)
    \/ \E id \in Identifiers, t \in Teams : CreateNative(id, t)
    \/ \E r \in Runners :
         Run(r) \/ Drain(r) \/ ClosePool(r) \/ Cancel(r) \/ Exit(r) \/ Crash(r) \/ Start(r)
    \/ PrunePayloads

\* A runner ticks every two seconds and drains the queue; main's defers run
\* to the end and a supervisor starts a stopped instance again.
Fairness ==
    /\ \A r \in Runners : SF_vars(Claim(r)) /\ WF_vars(Run(r))
    /\ \A r \in Runners : WF_vars(ClosePool(r)) /\ WF_vars(Cancel(r))
    /\ \A r \in Runners : WF_vars(Exit(r)) /\ WF_vars(Start(r))
    /\ WF_vars(PrunePayloads)

Spec == Init /\ [][Next]_vars /\ Fairness
-----------------------------------------------------------------------------

Executing(j) ==
    {r \in Runners : /\ runner[r].pc \in {"open", "pull", "write", "finish"}
                     /\ runner[r].job = j}

\* A job is run at most once, by one instance: while it is "running" one
\* runner has it, or the one that had it is gone for good; in any other state
\* nobody works on it.
RunsOnce ==
    \A j \in Jobs :
        /\ status[j] = "running" => \/ Cardinality(Executing(j)) = 1
                                    \/ Executing(j) = {} /\ j \in stranded
        /\ status[j] # "running" => Executing(j) = {}

\* What the job row reports is what happened: "succeeded" means every row of
\* the source landed, "failed" that none did, and "imported" counts the rows
\* that landed (an errored write may have committed all the same).
ReportIsHonest ==
    \A j \in Jobs :
        /\ status[j] = "succeeded" => landed[j] = 1 .. Len(Source[j])
        /\ status[j] = "partial" => landed[j] # {}
        /\ status[j] = "failed" => landed[j] \subseteq doubtful[j]
        /\ status[j] \in Terminal =>
             report[j].imported = Cardinality(landed[j] \ doubtful[j])

\* The uploaded file is there as long as somebody may still need it: until
\* the import succeeded, or failed more than the retention ago.
FileKept ==
    \A j \in FileJobs :
        status[j] \notin {None, "succeeded"} /\ j \notin aged => j \in payloads

\* An import never rewrites an issue a person made, nor one of another team.
OwnIssuesOnly ==
    [][ \A id \in Identifiers :
          issue[id] # None /\ issue'[id] # issue[id] =>
              issue[id].by # Human /\ issue'[id].team = issue[id].team ]_vars

\* No import waits for ever, and none that runs goes on for ever: it ends or
\* its runner is gone.
ImportsEnd ==
    \A j \in Jobs :
        /\ (status[j] = "pending") ~> (status[j] # "pending")
        /\ (status[j] = "running") ~> (status[j] # "running" \/ j \in stranded)

\* runner.go on a SIGTERM mid-job: the terminal write runs on a context that
\* cannot be cancelled, so the job is not left "running" for ever.
ShutdownStrandsNothing ==
    \A j \in stranded : faults > 0
=============================================================================
