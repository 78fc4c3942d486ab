---------------------------- MODULE ImportProofs ----------------------------
(***************************************************************************)
(* Proofs about ImportJobs for any number of jobs, rows, runners, faults.  *)
(***************************************************************************)
EXTENDS ImportJobs, FiniteSetTheorems, TLAPS

Claims(r) == runner[r].pc = "claim"
Executes(r) == runner[r].pc \in {"open", "pull", "write", "finish"}

\* A job that is being claimed is pending, one that is being executed runs.
Working ==
    \A r \in Runners :
        /\ Claims(r) => status[runner[r].job] = "pending"
        /\ Executes(r) => status[runner[r].job] = "running"
        /\ runner[r].pc = "delete" => status[runner[r].job] = "succeeded"

\* No two runners claim, or execute, one job.
Apart ==
    \A q, r \in Runners :
        q # r /\ ((Claims(q) /\ Claims(r)) \/ (Executes(q) /\ Executes(r))) =>
            runner[q].job # runner[r].job

\* A job that runs is executed or has lost its runner.
Attended ==
    \A j \in Jobs : status[j] = "running" =>
        j \in stranded \/ \E r \in Runners : Executes(r) /\ runner[r].job = j

\* Before its execution no row of a job has landed or failed.
Untouched ==
    \A j \in Jobs :
        /\ IsFiniteSet(landed[j])
        /\ status[j] \in {None, "pending"} => landed[j] = {} /\ doubtful[j] = {}

\* What a runner has counted up to its position is what happened.
Tally(j, at, c) ==
    /\ at \in Nat /\ 1 <= at
    /\ landed[j] \cup doubtful[j] \subseteq 1 .. at - 1
    /\ c.imported = Cardinality(landed[j] \ doubtful[j])
    /\ c.refused + c.failed = 0 => landed[j] = 1 .. at - 1

\* A status and counts tell what happened.
Honest(j, st, c) ==
    /\ st = "succeeded" => landed[j] = 1 .. Len(Source[j])
    /\ st = "partial" => landed[j] # {}
    /\ st = "failed" => landed[j] \subseteq doubtful[j]
    /\ c.imported = Cardinality(landed[j] \ doubtful[j])

\* What a runner holds agrees with the histories.
Fits(s) ==
    /\ s.pc = "open" => landed[s.job] = {} /\ doubtful[s.job] = {}
    /\ s.pc = "pull" => s.at <= Len(Source[s.job]) + 1
    /\ s.pc = "write" => s.at <= Len(Source[s.job])
    /\ s.pc \in {"pull", "write"} => Tally(s.job, s.at, s.counts)
    /\ s.pc = "finish" => Honest(s.job, s.status, s.counts)

Counted == \A r \in Runners : Fits(runner[r])

Reported == \A j \in Jobs : status[j] \in Terminal => Honest(j, status[j], report[j])

IInv ==
    TypeOK /\ Working /\ Apart /\ Attended /\ Untouched /\ Counted /\ Reported /\ FileKept
-----------------------------------------------------------------------------
(* Types.                                                                  *)

OpenForms == [pc : {"claim", "open", "delete"}, job : Jobs]
RowForms == [pc : {"pull", "write"}, job : Jobs, at : Nat, counts : Counts]
FinishForms == [pc : {"finish"}, job : Jobs, status : Terminal, counts : Counts]

\* What a runner holds, by its pc.
LEMMA RunnerForms ==
    ASSUME TypeOK, NEW r \in Runners
    PROVE  /\ runner[r] \in RunnerState
           /\ runner[r] = Idle <=> runner[r].pc = "idle"
           /\ runner[r].pc \in {"claim", "open", "delete"} => runner[r] \in OpenForms
           /\ runner[r].pc \in {"pull", "write"} => runner[r] \in RowForms
           /\ runner[r].pc = "finish" => runner[r] \in FinishForms
           /\ runner[r] # Idle => runner[r].job \in Jobs
           /\ runner[r].pc \in {"idle", "claim", "open", "delete", "pull", "write", "finish"}
<1>1. runner[r] \in RunnerState
  BY DEF TypeOK
<1> QED
  BY <1>1 DEF RunnerState, Idle, OpenForms, RowForms, FinishForms

\* A step of one runner.
LEMMA DoesIt ==
    ASSUME TypeOK, NEW r \in Runners, NEW state \in RunnerState, Does(r, state)
    PROVE  /\ runner' \in [Runners -> RunnerState]
           /\ runner'[r] = state
           /\ \A q \in Runners \ {r} : runner'[q] = runner[q]
BY DEF TypeOK, Does

\* A failure stays within the budget.
LEMMA FailsCounts ==
    ASSUME TypeOK, NEW r \in Runners, Fails(r)
    PROVE  faults' \in 0 .. MaxFaults
BY ImportSide DEF TypeOK, Fails

\* Counting one row more.
LEMMA CountsMore ==
    ASSUME NEW c \in Counts
    PROVE  /\ [c EXCEPT !.imported = @ + 1] =
                [imported |-> c.imported + 1, refused |-> c.refused, failed |-> c.failed]
           /\ [c EXCEPT !.refused = @ + 1] =
                [imported |-> c.imported, refused |-> c.refused + 1, failed |-> c.failed]
           /\ [c EXCEPT !.failed = @ + 1] =
                [imported |-> c.imported, refused |-> c.refused, failed |-> c.failed + 1]
           /\ [c EXCEPT !.imported = @ + 1] \in Counts
           /\ [c EXCEPT !.refused = @ + 1] \in Counts
           /\ [c EXCEPT !.failed = @ + 1] \in Counts
BY DEF Counts

\* The states a runner reaches within a source.
LEMMA RowSteps ==
    ASSUME NEW s \in RowForms
    PROVE  /\ \A c \in Counts : Past(s, c) \in RowForms
           /\ [pc |-> "write", job |-> s.job, at |-> s.at, counts |-> s.counts] \in RowForms
BY DEF RowForms, Past

\* Every form is a state of a runner.
LEMMA FormsAreStates ==
    OpenForms \cup RowForms \cup FinishForms \cup {Idle} \subseteq RunnerState
BY DEF RunnerState, OpenForms, RowForms, FinishForms

\* The initial state satisfies the invariant.
LEMMA InitHolds == Init => IInv
<1> SUFFICES ASSUME Init PROVE IInv
  OBVIOUS
<1>1. TypeOK
  BY ImportSide DEF Init, TypeOK, NoCounts, Counts, RunnerState, Terminal
<1>2. \A r \in Runners : runner[r].pc = "idle"
  BY DEF Init, Idle
<1>3. \A j \in Jobs : status[j] = None /\ landed[j] = {} /\ doubtful[j] = {}
  BY DEF Init
<1>4. Working /\ Apart /\ Counted
  BY <1>2 DEF Working, Apart, Counted, Fits, Claims, Executes
<1> HIDE DEF Init
<1>5. Attended /\ Reported
  BY <1>3, ImportSide DEF Attended, Reported, Terminal
<1>6. Untouched
  BY <1>3, FS_EmptySet DEF Untouched
<1>7. FileKept
  BY <1>3, ImportSide DEF FileKept
<1> QED
  BY <1>1, <1>4, <1>5, <1>6, <1>7 DEF IInv

\* What is known of the histories stays, when they do.
LEMMA Remembered ==
    ASSUME UNCHANGED <<landed, doubtful>>
    PROVE  /\ \A j, at, c : Tally(j, at, c)' <=> Tally(j, at, c)
           /\ \A j, st, c : Honest(j, st, c)' <=> Honest(j, st, c)
BY DEF Tally, Honest

\* When no runner and no history changes, and each status that changes leaves
\* None or comes with a step of a runner, nothing that runners hold is lost.
LEMMA RunnersKept ==
    ASSUME IInv, UNCHANGED <<runner, landed, doubtful, stranded, report>>,
           \A j \in Jobs : status'[j] = status[j] \/ (status[j] = None /\ status'[j] = "pending")
    PROVE  Working' /\ Apart' /\ Attended' /\ Untouched' /\ Counted' /\ Reported'
<1>1. \A r \in Runners : runner[r] # Idle => runner[r].job \in Jobs
  BY RunnerForms DEF IInv
<1>2. \A r \in Runners : Claims(r) \/ Executes(r) \/ runner[r].pc = "delete" => runner[r] # Idle
  BY DEF Claims, Executes, Idle
<1>3. None \notin {"pending", "running"} \cup Terminal
  BY ImportSide
<1>4. \A r \in Runners : (Claims(r)' <=> Claims(r)) /\ (Executes(r)' <=> Executes(r))
  BY DEF Claims, Executes
<1>5. Working'
  BY <1>1, <1>2, <1>3, <1>4 DEF IInv, Working, Terminal
<1>6. Apart'
  BY <1>4 DEF IInv, Apart
<1>7. Attended'
  BY <1>3, <1>4 DEF IInv, Attended
<1>8. Untouched'
  BY DEF IInv, Untouched
<1>9. Counted'
  BY Remembered DEF IInv, Counted, Fits
<1>10. Reported'
  BY <1>3, Remembered DEF IInv, Reported, Terminal
<1> QED
  BY <1>5, <1>6, <1>7, <1>8, <1>9, <1>10

\* Creating a job, with its upload.
LEMMA CreateStep ==
    ASSUME IInv, NEW j \in Jobs, Create(j)
    PROVE  IInv'
<1> USE DEF Create, history
<1>1. TypeOK'
  BY ImportSide DEF IInv, TypeOK, Terminal
<1>2. \A k \in Jobs : status'[k] = status[k] \/ (status[k] = None /\ status'[k] = "pending")
  BY DEF IInv, TypeOK
<1>3. FileKept'
  BY DEF IInv, FileKept, TypeOK
<1> QED
  BY <1>1, <1>2, <1>3, RunnersKept DEF IInv

\* Time passes after the end of a job.
LEMMA AgeStep ==
    ASSUME IInv, NEW j \in Jobs, Age(j)
    PROVE  IInv'
<1> USE DEF Age, history
<1>1. TypeOK'
  BY DEF IInv, TypeOK
<1>2. FileKept'
  BY DEF IInv, FileKept
<1> QED
  BY <1>1, <1>2, RunnersKept DEF IInv

\* A person creates an issue.
LEMMA NativeStep ==
    ASSUME IInv, NEW id \in Identifiers, NEW t \in Teams, CreateNative(id, t)
    PROVE  IInv'
<1> USE DEF CreateNative, history, jobVars
<1>1. TypeOK'
  BY DEF IInv, TypeOK, Holder
<1>2. FileKept'
  BY DEF IInv, FileKept
<1> QED
  BY <1>1, <1>2, RunnersKept DEF IInv

\* The pruner takes the uploads of jobs that are over and need them no more.
LEMMA PruneStep ==
    ASSUME IInv, PrunePayloads
    PROVE  IInv'
<1> USE DEF PrunePayloads, history
<1>1. TypeOK'
  BY DEF IInv, TypeOK
<1>2. FileKept'
  BY DEF IInv, FileKept, Prunable
<1> QED
  BY <1>1, <1>2, RunnersKept DEF IInv

\* An instance goes down, short of its runner's memory, or comes up.
LEMMA PhaseStep ==
    ASSUME IInv, NEW r \in Runners, Drain(r) \/ ClosePool(r) \/ Cancel(r) \/ Start(r)
    PROVE  IInv'
<1> USE DEF history, jobVars
<1>1. /\ phase' \in [Runners -> {"up", "draining", "closed", "cancelled", "down"}]
      /\ UNCHANGED <<jobVars, issue, runner, history, faults>>
  BY DEF IInv, TypeOK, Drain, ClosePool, Cancel, Start, Enters
<1>2. TypeOK'
  BY <1>1 DEF IInv, TypeOK
<1>3. FileKept'
  BY <1>1 DEF IInv, FileKept
<1> QED
  BY <1>1, <1>2, <1>3, RunnersKept DEF IInv

\* Nothing changes.
LEMMA StutterStep ==
    ASSUME IInv, UNCHANGED vars
    PROVE  IInv'
<1> USE DEF vars, history, jobVars
<1>1. TypeOK' /\ FileKept'
  BY DEF IInv, TypeOK, FileKept
<1> QED
  BY <1>1, RunnersKept DEF IInv

\* The other runners do what they did.
LEMMA Others ==
    ASSUME TypeOK, NEW r \in Runners, NEW state \in RunnerState, Does(r, state)
    PROVE  /\ \A q \in Runners \ {r} :
                runner'[q] = runner[q] /\ (Claims(q)' <=> Claims(q)) /\ (Executes(q)' <=> Executes(q))
           /\ runner'[r] = state
           /\ Claims(r)' <=> state.pc = "claim"
           /\ Executes(r)' <=> state.pc \in {"open", "pull", "write", "finish"}
BY DoesIt DEF Claims, Executes

\* A runner that works has a job, which nobody else claims or executes.
LEMMA OwnJob ==
    ASSUME IInv, NEW r \in Runners, Claims(r) \/ Executes(r)
    PROVE  /\ runner[r].job \in Jobs
           /\ Claims(r) => status[runner[r].job] = "pending"
           /\ Executes(r) => status[runner[r].job] = "running"
           /\ \A q \in Runners \ {r} :
                (Claims(q) \/ Executes(q)) => runner[q].job # runner[r].job
           /\ \A q \in Runners : runner[q].pc = "delete" => runner[q].job # runner[r].job
<1>1. runner[r].job \in Jobs
  BY RunnerForms DEF IInv, Claims, Executes, Idle
<1> QED
  BY <1>1 DEF IInv, Working, Apart

\* A runner chooses the oldest pending job that no other claim holds.
LEMMA ClaimStep ==
    ASSUME IInv, NEW r \in Runners, Claim(r)
    PROVE  IInv'
<1> USE DEF history, jobVars
<1>1. PICK j \in Jobs : /\ j \in Pending \ Locked
                        /\ Does(r, [pc |-> "claim", job |-> j])
  BY DEF Claim, Oldest
<1>2. UNCHANGED <<jobVars, issue, phase, history, faults>> /\ runner[r] = Idle
  BY DEF Claim
<1> DEFINE s == [pc |-> "claim", job |-> j]
<1>3. s \in RunnerState /\ s.pc = "claim" /\ s.job = j
  BY DEF RunnerState
<1>4. TypeOK'
  BY <1>1, <1>2, <1>3, DoesIt DEF IInv, TypeOK
<1>5. /\ \A q \in Runners \ {r} :
           runner'[q] = runner[q] /\ (Claims(q)' <=> Claims(q)) /\ (Executes(q)' <=> Executes(q))
      /\ runner'[r] = s /\ Claims(r)' /\ ~ Executes(r)'
  BY <1>1, <1>3, Others DEF IInv
<1>6. ~ Claims(r) /\ ~ Executes(r)
  BY <1>2 DEF Idle, Claims, Executes
<1>7. status[j] = "pending" /\ \A q \in Runners : Claims(q) => runner[q].job # j
  BY <1>1 DEF Pending, Locked, Claims
<1> HIDE DEF s
<1>8. Working'
  BY <1>2, <1>3, <1>5, <1>7 DEF IInv, Working
<1>9. Apart'
  BY <1>3, <1>5, <1>6, <1>7 DEF IInv, Apart
<1>10. Attended'
  BY <1>2, <1>5, <1>6 DEF IInv, Attended
<1>11. Untouched' /\ FileKept'
  BY <1>2 DEF IInv, Untouched, FileKept
<1>12. Counted'
  BY <1>2, <1>3, <1>5, Remembered DEF IInv, Counted, Fits
<1>13. Reported'
  BY <1>2, Remembered DEF IInv, Reported
<1> QED
  BY <1>4, <1>8, <1>9, <1>10, <1>11, <1>12, <1>13 DEF IInv

\* A runner gives up without having touched what others rely on: a claim
\* rolls back, the upload of a finished job stays or goes, the process ends.
LEMMA LetGo ==
    ASSUME IInv, NEW r \in Runners, Does(r, Idle), faults' \in 0 .. MaxFaults,
           phase' \in [Runners -> {"up", "draining", "closed", "cancelled", "down"}],
           UNCHANGED <<queue, status, report, aged, issue, landed, doubtful>>,
           \/ payloads' = payloads
           \/ runner[r].pc = "delete" /\ payloads' = payloads \ {runner[r].job},
           stranded' = IF Executes(r) THEN stranded \cup {runner[r].job} ELSE stranded
    PROVE  IInv'
<1>1. Idle \in RunnerState /\ Idle.pc = "idle"
  BY DEF RunnerState, Idle
<1>2. /\ \A q \in Runners \ {r} :
           runner'[q] = runner[q] /\ (Claims(q)' <=> Claims(q)) /\ (Executes(q)' <=> Executes(q))
      /\ runner'[r] = Idle /\ ~ Claims(r)' /\ ~ Executes(r)'
  BY <1>1, Others DEF IInv
<1>3. Executes(r) => runner[r].job \in Jobs
  BY OwnJob
<1>4. TypeOK'
  BY <1>1, <1>3, DoesIt DEF IInv, TypeOK
<1>5. Working'
  BY <1>1, <1>2 DEF IInv, Working
<1>6. Apart'
  BY <1>2 DEF IInv, Apart
<1>7. Attended'
  BY <1>2, <1>3 DEF IInv, Attended
<1>8. Untouched'
  BY DEF IInv, Untouched
<1>9. Counted'
  BY <1>1, <1>2, Remembered DEF IInv, Counted, Fits
<1>10. Reported'
  BY Remembered DEF IInv, Reported
<1>11. FileKept'
  BY DEF IInv, FileKept, Working
<1> QED
  BY <1>4, <1>5, <1>6, <1>7, <1>8, <1>9, <1>10, <1>11 DEF IInv

\* The process ends or crashes.
LEMMA HaltStep ==
    ASSUME IInv, NEW r \in Runners, Exit(r) \/ Crash(r)
    PROVE  IInv'
<1>1. faults' \in 0 .. MaxFaults
  BY ImportSide DEF Exit, Crash, IInv, TypeOK
<1> QED
  BY <1>1, LetGo DEF Exit, Crash, Halt, Enters, Executes, jobVars, IInv, TypeOK

\* The upload of a job that succeeded is deleted, or stays for the pruner.
LEMMA DeleteStep ==
    ASSUME IInv, NEW r \in Runners, DeletePayload(r)
    PROVE  IInv'
<1>1. faults' \in 0 .. MaxFaults
  BY FailsCounts DEF DeletePayload, IInv, TypeOK
<1>2. runner[r].pc = "delete" /\ ~ Executes(r)
  BY DEF DeletePayload, Executes
<1>3. phase' \in [Runners -> {"up", "draining", "closed", "cancelled", "down"}]
  BY DEF DeletePayload, IInv, TypeOK
<1> QED
  BY <1>1, <1>2, <1>3, LetGo DEF DeletePayload, history

\* The claim commits, or rolls back.
LEMMA CommitClaimStep ==
    ASSUME IInv, NEW r \in Runners, CommitClaim(r)
    PROVE  IInv'
<1> USE DEF history
<1> DEFINE j == runner[r].job
           s == [pc |-> "open", job |-> j]
<1>1. /\ runner[r].pc = "claim" /\ Claims(r) /\ ~ Executes(r)
      /\ UNCHANGED <<queue, report, payloads, aged, issue, phase, history>>
  BY DEF CommitClaim, Claims, Executes
<1>2. CASE Fails(r) /\ Does(r, Idle) /\ UNCHANGED status
  BY <1>1, <1>2, FailsCounts, LetGo DEF IInv, TypeOK
<1>3. CASE /\ Does(r, s) /\ UNCHANGED faults
           /\ status' = [status EXCEPT ![j] = "running"]
  <2>1. /\ j \in Jobs /\ status[j] = "pending"
        /\ \A q \in Runners \ {r} : Claims(q) \/ Executes(q) => runner[q].job # j
        /\ \A q \in Runners : runner[q].pc = "delete" => runner[q].job # j
    BY <1>1, OwnJob
  <2>2. s \in RunnerState /\ s.pc = "open" /\ s.job = j
    BY <2>1 DEF RunnerState
  <2>3. /\ \A q \in Runners \ {r} :
             runner'[q] = runner[q] /\ (Claims(q)' <=> Claims(q)) /\ (Executes(q)' <=> Executes(q))
        /\ runner'[r] = s /\ ~ Claims(r)' /\ Executes(r)'
    BY <1>3, <2>2, Others DEF IInv
  <2>4. status'[j] = "running" /\ \A k \in Jobs \ {j} : status'[k] = status[k]
    BY <1>3, <2>1 DEF IInv, TypeOK
  <2>5. TypeOK'
    <3>1. status' \in [Jobs -> {None, "pending", "running"} \cup Terminal]
      BY <1>3 DEF IInv, TypeOK
    <3>2. aged' \subseteq {k \in Jobs : status'[k] \in Terminal}
      BY <1>1, <2>1, <2>4 DEF IInv, TypeOK, Terminal
    <3> QED
      BY <1>1, <1>3, <2>2, <3>1, <3>2, DoesIt DEF IInv, TypeOK
  <2> HIDE DEF s, j
  <2>6. \A q \in Runners : runner[q].pc \in {"claim", "open", "pull", "write", "finish", "delete"} =>
                             runner[q].job \in Jobs
    BY RunnerForms DEF IInv, Idle
  <2>7. Working'
    BY <2>1, <2>2, <2>3, <2>4, <2>6 DEF IInv, Working, Claims, Executes
  <2>8. Apart'
    BY <2>1, <2>2, <2>3 DEF IInv, Apart
  <2>9. Attended'
    BY <1>1, <2>1, <2>2, <2>3, <2>4 DEF IInv, Attended
  <2>10. Untouched'
    BY <1>1, <2>1, <2>4 DEF IInv, Untouched
  <2>11. Counted'
    <3>1. landed[j] = {} /\ doubtful[j] = {}
      BY <2>1 DEF IInv, Untouched
    <3>2. Fits(s)
      BY <2>2, <3>1 DEF Fits
    <3>3. \A q \in Runners : Fits(runner[q])' <=> Fits(runner'[q])
      BY <1>1, Remembered DEF Fits
    <3>4. \A q \in Runners \ {r} : Fits(runner'[q])
      BY <2>3 DEF IInv, Counted
    <3> QED
      BY <2>3, <3>2, <3>3, <3>4 DEF Counted
  <2>12. Reported'
    BY <1>1, <2>1, <2>4, Remembered DEF IInv, Reported, Terminal
  <2>13. FileKept'
    <3>1. status[j] \notin {None, "succeeded"}
      BY <2>1, ImportSide
    <3> QED
      BY <1>1, <2>1, <2>4, <3>1, ImportSide DEF IInv, FileKept
  <2> QED
    BY <2>5, <2>7, <2>8, <2>9, <2>10, <2>11, <2>12, <2>13 DEF IInv
<1> QED
  BY <1>2, <1>3 DEF CommitClaim

\* A runner goes on within the execution of its job: it is enough that what
\* it now holds agrees with the histories, and that these stay within the job.
LEMMA ExecutionStep ==
    ASSUME IInv, NEW r \in Runners, Executes(r),
           NEW state \in RunnerState, Does(r, state),
           state.pc \in {"open", "pull", "write", "finish"}, state.job = runner[r].job,
           UNCHANGED <<jobVars, phase, stranded>>,
           faults' \in 0 .. MaxFaults,
           issue' \in [Identifiers -> {None} \cup Holder],
           landed' \in [Jobs -> SUBSET Nat], doubtful' \in [Jobs -> SUBSET Nat],
           \A k \in Jobs \ {runner[r].job} :
              landed'[k] = landed[k] /\ doubtful'[k] = doubtful[k],
           IsFiniteSet(landed'[runner[r].job]),
           Fits(state)'
    PROVE  IInv'
<1> USE DEF jobVars
<1> DEFINE j == runner[r].job
<1>1. /\ j \in Jobs /\ status[j] = "running"
      /\ \A q \in Runners \ {r} : Claims(q) \/ Executes(q) => runner[q].job # j
    BY OwnJob DEF Claims, Executes
<1>2. /\ \A q \in Runners \ {r} :
           runner'[q] = runner[q] /\ (Claims(q)' <=> Claims(q)) /\ (Executes(q)' <=> Executes(q))
      /\ runner'[r] = state /\ ~ Claims(r)' /\ Executes(r)'
  BY Others DEF IInv
<1>3. ~ Claims(r)
  BY DEF Claims, Executes
<1>4. TypeOK'
  BY DoesIt DEF IInv, TypeOK
<1>5. Working'
  BY <1>1, <1>2 DEF IInv, Working
<1>6. Apart'
  BY <1>2 DEF IInv, Apart
<1>7. Attended'
  BY <1>2 DEF IInv, Attended
<1>8. Untouched'
  BY <1>1, ImportSide DEF IInv, Untouched
<1>9. /\ \A s : s.job \in Jobs \ {j} => (Fits(s)' <=> Fits(s))
      /\ \A k \in Jobs \ {j} : \A st, c : Honest(k, st, c)' <=> Honest(k, st, c)
  <2>1. ASSUME NEW k \in Jobs \ {j}, NEW st, NEW c
        PROVE  Honest(k, st, c)' <=> Honest(k, st, c)
    BY <2>1 DEF Honest
  <2>2. ASSUME NEW k \in Jobs \ {j}, NEW at, NEW c
        PROVE  Tally(k, at, c)' <=> Tally(k, at, c)
    BY <2>2 DEF Tally
  <2>3. ASSUME NEW s, s.job \in Jobs \ {j}
        PROVE  Fits(s)' <=> Fits(s)
    <3>1. /\ Tally(s.job, s.at, s.counts)' <=> Tally(s.job, s.at, s.counts)
          /\ Honest(s.job, s.status, s.counts)' <=> Honest(s.job, s.status, s.counts)
      BY <2>1, <2>2, <2>3
    <3>2. landed'[s.job] = landed[s.job] /\ doubtful'[s.job] = doubtful[s.job]
      BY <2>3
    <3> QED
      BY <3>1, <3>2 DEF Fits
  <2> HIDE DEF j
  <2> QED
    BY <2>1, <2>3
<1>10. Counted'
  <2> SUFFICES ASSUME NEW q \in Runners
               PROVE  Fits(runner[q])'
    BY DEF Counted
  <2>1. CASE q = r
    BY <1>2, <2>1
  <2>2. CASE q # r
    <3>1. CASE Executes(q)
      <4>1. runner[q].job \in Jobs \ {j}
        BY <1>1, <2>2, <3>1, OwnJob
      <4> QED
        BY <1>2, <1>9, <2>2, <4>1 DEF IInv, Counted
    <3>2. CASE ~ Executes(q)
      BY <1>2, <2>2, <3>2 DEF Executes, Fits
    <3> QED
      BY <3>1, <3>2
  <2> QED
    BY <2>1, <2>2
<1>11. Reported'
  BY <1>1, <1>9 DEF IInv, Reported, Terminal
<1>12. FileKept'
  BY DEF IInv, FileKept
<1> QED
  BY <1>4, <1>5, <1>6, <1>7, <1>8, <1>10, <1>11, <1>12 DEF IInv

\* An execution that changes no history.
LEMMA QuietStep ==
    ASSUME IInv, NEW r \in Runners, Executes(r),
           NEW state \in RunnerState, Does(r, state),
           state.pc \in {"open", "pull", "write", "finish"}, state.job = runner[r].job,
           UNCHANGED <<jobVars, issue, phase, history>>, faults' \in 0 .. MaxFaults,
           Fits(state)
    PROVE  IInv'
<1> USE DEF history
<1>1. Fits(state)'
  BY Remembered DEF Fits
<1>2. /\ issue' \in [Identifiers -> {None} \cup Holder]
      /\ landed' \in [Jobs -> SUBSET Nat] /\ doubtful' \in [Jobs -> SUBSET Nat]
  BY DEF IInv, TypeOK
<1>3. IsFiniteSet(landed'[runner[r].job])
  BY OwnJob DEF IInv, Untouched
<1> QED
  BY <1>1, <1>2, <1>3, ExecutionStep

\* The source opens, or the job has failed with no row touched.
LEMMA OpenStep ==
    ASSUME IInv, NEW r \in Runners, Open(r)
    PROVE  IInv'
<1> DEFINE j == runner[r].job
           reading == [pc |-> "pull", job |-> j, at |-> 1, counts |-> NoCounts]
           failing == [pc |-> "finish", job |-> j, status |-> "failed", counts |-> NoCounts]
<1>1. /\ runner[r].pc = "open" /\ Executes(r)
      /\ UNCHANGED <<jobVars, issue, phase, history>>
      /\ Does(r, reading) \/ Does(r, failing)
      /\ faults' \in 0 .. MaxFaults
  BY FailsCounts DEF Open, Executes, IInv, TypeOK
<1>2. j \in Jobs /\ landed[j] = {} /\ doubtful[j] = {}
  BY <1>1, OwnJob DEF IInv, Counted, Fits
<1>3. NoCounts \in Counts
  BY DEF NoCounts, Counts
<1>4. reading \in RunnerState /\ failing \in RunnerState
  BY <1>2, <1>3 DEF RunnerState, Terminal
<1>5. Len(Source[j]) \in Nat
  BY <1>2, ImportSide
<1>6. Cardinality(landed[j] \ doubtful[j]) = 0
  BY <1>2, FS_EmptySet
<1>7. Fits(reading)
  <2>1. 1 .. 1 - 1 = {}
    OBVIOUS
  <2>2. Tally(j, 1, NoCounts)
    BY <1>2, <1>6, <2>1 DEF Tally, NoCounts
  <2> QED
    BY <1>5, <2>2 DEF Fits
<1>8. Fits(failing)
  BY <1>2, <1>6 DEF Fits, Honest, NoCounts
<1> QED
  BY <1>1, <1>4, <1>7, <1>8, QuietStep

\* The status a finished source gives is the truth about its rows.
LEMMA EndIsHonest ==
    ASSUME NEW j \in Jobs, NEW at \in Nat, NEW c \in Counts, NEW stopped \in BOOLEAN,
           Tally(j, at, c), IsFiniteSet(landed[j]),
           ~ stopped => at = Len(Source[j]) + 1
    PROVE  /\ terminalStatus(stopped, c) \in Terminal
           /\ Honest(j, terminalStatus(stopped, c), c)
<1>1. /\ IsFiniteSet(landed[j] \ doubtful[j])
  BY FS_Subset
<1>2. Len(Source[j]) \in Nat
  BY ImportSide
<1>3. c.imported \in Nat /\ c.refused \in Nat /\ c.failed \in Nat
  BY DEF Counts
<1>4. c.imported = 0 <=> landed[j] \ doubtful[j] = {}
  BY <1>1, FS_EmptySet DEF Tally
<1>5. terminalStatus(stopped, c) \in Terminal
  BY DEF terminalStatus, Terminal
<1>6. CASE terminalStatus(stopped, c) = "succeeded"
  <2>1. ~ stopped /\ c.refused + c.failed = 0
    BY <1>6 DEF terminalStatus
  <2> QED
    BY <1>2, <1>5, <1>6, <2>1 DEF Honest, Tally
<1>7. CASE terminalStatus(stopped, c) = "partial"
  <2>1. c.imported > 0
    BY <1>7 DEF terminalStatus
  <2> QED
    BY <1>3, <1>4, <1>5, <1>7, <2>1 DEF Honest, Tally
<1>8. CASE terminalStatus(stopped, c) = "failed"
  <2>1. ~ (c.imported > 0)
    BY <1>8 DEF terminalStatus
  <2> QED
    BY <1>3, <1>4, <1>5, <1>8, <2>1 DEF Honest, Tally
<1> QED
  BY <1>5, <1>6, <1>7, <1>8 DEF Terminal

\* What an executing runner knows of the rows so far.
LEMMA AtRow ==
    ASSUME IInv, NEW r \in Runners, runner[r].pc \in {"pull", "write"}
    PROVE  /\ Executes(r) /\ runner[r] \in RowForms
           /\ runner[r].job \in Jobs /\ runner[r].at \in Nat /\ runner[r].counts \in Counts
           /\ Tally(runner[r].job, runner[r].at, runner[r].counts)
           /\ IsFiniteSet(landed[runner[r].job])
           /\ Len(Source[runner[r].job]) \in Nat
           /\ runner[r].pc = "pull" => runner[r].at <= Len(Source[runner[r].job]) + 1
           /\ runner[r].pc = "write" => runner[r].at <= Len(Source[runner[r].job])
<1>1. Executes(r) /\ runner[r] \in RowForms
  BY RunnerForms DEF IInv, Executes
<1>2. runner[r].job \in Jobs /\ runner[r].at \in Nat /\ runner[r].counts \in Counts
  BY <1>1 DEF RowForms
<1>3. IsFiniteSet(landed[runner[r].job]) /\ Len(Source[runner[r].job]) \in Nat
  BY <1>2, ImportSide DEF IInv, Untouched
<1> QED
  BY <1>1, <1>2, <1>3 DEF IInv, Counted, Fits

\* The head of the loop.
LEMMA PullStep ==
    ASSUME IInv, NEW r \in Runners, Pull(r)
    PROVE  IInv'
<1> DEFINE s == runner[r]
           End(stopped) == [pc |-> "finish", job |-> s.job, counts |-> s.counts,
                            status |-> terminalStatus(stopped, s.counts)]
           bad == Past(s, [s.counts EXCEPT !.failed = @ + 1])
           write == [pc |-> "write", job |-> s.job, at |-> s.at, counts |-> s.counts]
<1>1. /\ s.pc = "pull"
      /\ UNCHANGED <<jobVars, issue, phase, history, faults>>
      /\ \/ Does(r, End(TRUE))
         \/ s.at > Len(Source[s.job]) /\ Does(r, End(FALSE))
         \/ ~ (s.at > Len(Source[s.job])) /\ (Does(r, bad) \/ Does(r, write))
  BY DEF Pull
<1>2. /\ Executes(r) /\ s \in RowForms
      /\ s.job \in Jobs /\ s.at \in Nat /\ s.counts \in Counts
      /\ Tally(s.job, s.at, s.counts)
      /\ IsFiniteSet(landed[s.job])
      /\ Len(Source[s.job]) \in Nat
      /\ s.at <= Len(Source[s.job]) + 1
  BY <1>1, AtRow
<1>3. faults' \in 0 .. MaxFaults
  BY <1>1 DEF IInv, TypeOK
<1> HIDE DEF s
<1>4. ASSUME NEW stopped \in BOOLEAN, Does(r, End(stopped)),
             ~ stopped => s.at = Len(Source[s.job]) + 1
      PROVE  IInv'
  <2>1. /\ terminalStatus(stopped, s.counts) \in Terminal
        /\ Honest(s.job, terminalStatus(stopped, s.counts), s.counts)
    BY <1>2, <1>4, EndIsHonest
  <2>2. End(stopped) \in RunnerState /\ Fits(End(stopped))
    BY <1>2, <2>1 DEF RunnerState, Fits
  <2> QED
    BY <1>1, <1>2, <1>3, <1>4, <2>2, QuietStep DEF s
<1>5. CASE ~ (s.at > Len(Source[s.job])) /\ Does(r, bad)
  <2>1. /\ bad \in RunnerState /\ bad.pc = "pull" /\ bad.job = s.job
        /\ bad.at = s.at + 1 /\ bad.counts = [s.counts EXCEPT !.failed = @ + 1]
    BY <1>2, RowSteps, CountsMore, FormsAreStates DEF Past
  <2>2. [s.counts EXCEPT !.failed = @ + 1] =
          [imported |-> s.counts.imported, refused |-> s.counts.refused,
           failed |-> s.counts.failed + 1]
    BY <1>2, CountsMore
  <2>3. s.counts.failed \in Nat /\ s.counts.refused \in Nat
    BY <1>2 DEF Counts
  <2> HIDE DEF bad
  <2>4. Tally(bad.job, bad.at, bad.counts)
    <3>1. /\ bad.counts.failed = s.counts.failed + 1
          /\ bad.counts.refused = s.counts.refused
          /\ bad.counts.imported = s.counts.imported
      BY <2>1, <2>2
    <3>2. /\ landed[s.job] \cup doubtful[s.job] \subseteq 1 .. s.at - 1
          /\ s.counts.imported = Cardinality(landed[s.job] \ doubtful[s.job])
          /\ s.at \in Nat /\ 1 <= s.at
      BY <1>2 DEF Tally
    <3>3. 1 .. s.at - 1 \subseteq 1 .. s.at + 1 - 1 /\ s.at + 1 \in Nat /\ 1 <= s.at + 1
      BY <3>2
    <3>4. bad.counts.refused + bad.counts.failed # 0
      BY <2>3, <3>1
    <3> QED
      BY <2>1, <3>1, <3>2, <3>3, <3>4 DEF Tally
  <2>5. Fits(bad)
    BY <1>2, <1>5, <2>1, <2>4 DEF Fits
  <2> QED
    BY <1>1, <1>2, <1>3, <1>5, <2>1, <2>5, QuietStep DEF s
<1>6. CASE ~ (s.at > Len(Source[s.job])) /\ Does(r, write)
  <2>1. write \in RunnerState /\ Fits(write)
    BY <1>2, <1>6, RowSteps, FormsAreStates DEF Fits
  <2> QED
    BY <1>1, <1>2, <1>3, <1>6, <2>1, QuietStep DEF s
<1>7. CASE s.at > Len(Source[s.job]) /\ Does(r, End(FALSE))
  <2>1. s.at = Len(Source[s.job]) + 1
    BY <1>2, <1>7
  <2> QED
    BY <1>4, <1>7, <2>1
<1>8. CASE Does(r, End(TRUE))
  BY <1>4, <1>8
<1> HIDE DEF End, bad, write
<1> QED
  BY <1>1, <1>5, <1>6, <1>7, <1>8

\* The histories of one job take at most its current row.
LEMMA RowDone ==
    ASSUME IInv, NEW r \in Runners, runner[r].pc = "write",
           NEW j, j = runner[r].job, NEW at, at = runner[r].at, NEW c \in Counts,
           Does(r, [pc |-> "pull", job |-> j, at |-> at + 1, counts |-> c]),
           UNCHANGED <<jobVars, phase, stranded>>, faults' \in 0 .. MaxFaults,
           landed' = landed \/ landed' = [landed EXCEPT ![j] = @ \cup {at}],
           doubtful' = doubtful \/ doubtful' = [doubtful EXCEPT ![j] = @ \cup {at}],
           issue' = issue \/ Landed(j, at),
           Tally(j, at + 1, c)'
    PROVE  IInv'
<1>1. /\ Executes(r) /\ runner[r] \in RowForms /\ j \in Jobs /\ at \in Nat
      /\ IsFiniteSet(landed[j]) /\ Len(Source[j]) \in Nat /\ at <= Len(Source[j])
  BY AtRow
<1>2. PICK next : next = [pc |-> "pull", job |-> j, at |-> at + 1, counts |-> c]
  OBVIOUS
<1>3. /\ next \in RunnerState /\ next.pc = "pull" /\ next.job = j
      /\ next.at = at + 1 /\ next.counts = c
  BY <1>1, <1>2 DEF RunnerState
<1>4. /\ landed \in [Jobs -> SUBSET Nat] /\ doubtful \in [Jobs -> SUBSET Nat]
  BY DEF IInv, TypeOK
<1>5. /\ landed' \in [Jobs -> SUBSET Nat]
      /\ \A k \in Jobs \ {j} : landed'[k] = landed[k]
      /\ landed'[j] = landed[j] \/ landed'[j] = landed[j] \cup {at}
  BY <1>1, <1>4
<1>6. /\ doubtful' \in [Jobs -> SUBSET Nat]
      /\ \A k \in Jobs \ {j} : doubtful'[k] = doubtful[k]
  BY <1>1, <1>4
<1>7. IsFiniteSet(landed'[j])
  BY <1>1, <1>5, FS_AddElement
<1>8. issue' \in [Identifiers -> {None} \cup Holder]
  <2>1. [team |-> TeamOf[j], by |-> j] \in Holder
    BY <1>1, ImportSide DEF Holder
  <2> QED
    BY <2>1 DEF Landed, IInv, TypeOK
<1>9. Fits(next)'
  BY <1>1, <1>3 DEF Fits
<1> QED
  BY <1>1, <1>2, <1>3, <1>5, <1>6, <1>7, <1>8, <1>9, ExecutionStep

\* A row more has landed.
LEMMA TallyLanded ==
    ASSUME NEW j, NEW at \in Nat, NEW c \in Counts, Tally(j, at, c), IsFiniteSet(landed[j]),
           landed'[j] = landed[j] \cup {at}, doubtful'[j] = doubtful[j]
    PROVE  Tally(j, at + 1, [c EXCEPT !.imported = @ + 1])'
<1>1. [c EXCEPT !.imported = @ + 1] =
        [imported |-> c.imported + 1, refused |-> c.refused, failed |-> c.failed]
  BY CountsMore
<1>2. at \notin landed[j] /\ at \notin doubtful[j]
  BY DEF Tally
<1>3. landed'[j] \ doubtful'[j] = (landed[j] \ doubtful[j]) \cup {at}
  BY <1>2
<1>4. IsFiniteSet(landed[j] \ doubtful[j])
  BY FS_Subset
<1>5. Cardinality(landed'[j] \ doubtful'[j]) = c.imported + 1
  BY <1>2, <1>3, <1>4, FS_AddElement DEF Tally
<1>6. 1 .. (at + 1) - 1 = (1 .. at - 1) \cup {at}
  BY DEF Tally
<1>7. landed'[j] \cup doubtful'[j] \subseteq 1 .. (at + 1) - 1
  BY <1>6 DEF Tally
<1>8. c.refused + c.failed = 0 => landed'[j] = 1 .. (at + 1) - 1
  BY <1>6 DEF Tally
<1> QED
  BY <1>1, <1>5, <1>7, <1>8 DEF Tally

\* A row more was refused or failed, and then may have landed.
LEMMA TallyMissed ==
    ASSUME NEW j, NEW at \in Nat, NEW c \in Counts, NEW d \in Counts, Tally(j, at, c),
           d.imported = c.imported, d.refused + d.failed # 0,
           landed'[j] = landed[j] \/ (at \in doubtful'[j] /\ landed'[j] = landed[j] \cup {at}),
           doubtful'[j] = doubtful[j] \/ doubtful'[j] = doubtful[j] \cup {at}
    PROVE  Tally(j, at + 1, d)'
<1>1. at \notin landed[j] /\ at \notin doubtful[j]
  BY DEF Tally
<1>2. landed'[j] \ doubtful'[j] = landed[j] \ doubtful[j]
  BY <1>1
<1>3. 1 .. (at + 1) - 1 = (1 .. at - 1) \cup {at}
  BY DEF Tally
<1>4. landed'[j] \cup doubtful'[j] \subseteq 1 .. (at + 1) - 1
  BY <1>3 DEF Tally
<1>5. d.imported = Cardinality(landed'[j] \ doubtful'[j])
  BY <1>2 DEF Tally
<1>6. at + 1 \in Nat /\ 1 <= at + 1
  OBVIOUS
<1> QED
  BY <1>4, <1>5, <1>6 DEF Tally

\* A row is written, refused or fails.
LEMMA WriteStep ==
    ASSUME IInv, NEW r \in Runners, Write(r)
    PROVE  IInv'
<1>1. PICK j, at, c : j = runner[r].job /\ at = runner[r].at /\ c = runner[r].counts
  OBVIOUS
<1>2. /\ runner[r].pc = "write" /\ UNCHANGED <<jobVars, phase, stranded>>
      /\ faults' \in 0 .. MaxFaults
  BY FailsCounts DEF Write, IInv, TypeOK
<1>3. /\ j \in Jobs /\ at \in Nat /\ c \in Counts /\ Tally(j, at, c) /\ IsFiniteSet(landed[j])
  BY <1>1, <1>2, AtRow
<1>4. landed \in [Jobs -> SUBSET Nat] /\ doubtful \in [Jobs -> SUBSET Nat]
  BY DEF IInv, TypeOK
<1>5. c.imported \in Nat /\ c.refused \in Nat /\ c.failed \in Nat
  BY <1>3 DEF Counts
<1>6. CASE /\ Landed(j, at)
           /\ Does(r, [pc |-> "pull", job |-> j, at |-> at + 1,
                       counts |-> [c EXCEPT !.imported = @ + 1]])
           /\ UNCHANGED <<doubtful, faults>>
  <2>1. landed' = [landed EXCEPT ![j] = @ \cup {at}]
    BY <1>6 DEF Landed
  <2>2. landed'[j] = landed[j] \cup {at} /\ doubtful'[j] = doubtful[j]
    BY <1>3, <1>4, <1>6, <2>1
  <2>3. Tally(j, at + 1, [c EXCEPT !.imported = @ + 1])'
    BY <1>3, <2>2, TallyLanded
  <2>4. [c EXCEPT !.imported = @ + 1] \in Counts
    BY <1>3, CountsMore
  <2> QED
    BY <1>1, <1>2, <1>6, <2>1, <2>3, <2>4, RowDone
<1>7. CASE /\ Does(r, [pc |-> "pull", job |-> j, at |-> at + 1,
                       counts |-> [c EXCEPT !.refused = @ + 1]])
           /\ UNCHANGED <<issue, landed, doubtful, faults>>
  <2>1. PICK d : d = [c EXCEPT !.refused = @ + 1]
    OBVIOUS
  <2>2. /\ d = [imported |-> c.imported, refused |-> c.refused + 1, failed |-> c.failed]
        /\ d \in Counts
    BY <1>3, <2>1, CountsMore
  <2>3. d.imported = c.imported /\ d.refused + d.failed # 0
    BY <1>5, <2>2
  <2>4. landed'[j] = landed[j] /\ doubtful'[j] = doubtful[j]
    BY <1>7
  <2>5. Tally(j, at + 1, d)'
    BY <1>3, <2>2, <2>3, <2>4, TallyMissed
  <2> QED
    BY <1>1, <1>2, <1>7, <2>1, <2>2, <2>5, RowDone
<1>8. CASE /\ Does(r, [pc |-> "pull", job |-> j, at |-> at + 1,
                       counts |-> [c EXCEPT !.failed = @ + 1]])
           /\ doubtful' = [doubtful EXCEPT ![j] = @ \cup {at}]
           /\ UNCHANGED <<issue, landed>> \/ Landed(j, at)
  <2>1. PICK d : d = [c EXCEPT !.failed = @ + 1]
    OBVIOUS
  <2>2. /\ d = [imported |-> c.imported, refused |-> c.refused, failed |-> c.failed + 1]
        /\ d \in Counts
    BY <1>3, <2>1, CountsMore
  <2>3. d.imported = c.imported /\ d.refused + d.failed # 0
    BY <1>5, <2>2
  <2>4. landed' = landed \/ landed' = [landed EXCEPT ![j] = @ \cup {at}]
    BY <1>8 DEF Landed
  <2>5. /\ doubtful'[j] = doubtful[j] \cup {at}
        /\ landed'[j] = landed[j] \/ (at \in doubtful'[j] /\ landed'[j] = landed[j] \cup {at})
    BY <1>3, <1>4, <1>8, <2>4
  <2>6. Tally(j, at + 1, d)'
    BY <1>3, <2>2, <2>3, <2>5, TallyMissed
  <2>7. issue' = issue \/ Landed(j, at)
    BY <1>8
  <2> QED
    BY <1>1, <1>2, <1>8, <2>1, <2>2, <2>4, <2>6, <2>7, RowDone
<1> QED
  BY <1>1, <1>6, <1>7, <1>8 DEF Write, Past

\* The end is recorded, or the job is stranded.
LEMMA FinishStep ==
    ASSUME IInv, NEW r \in Runners, Finish(r)
    PROVE  IInv'
<1>1. PICK j, st, c : j = runner[r].job /\ st = runner[r].status /\ c = runner[r].counts
  OBVIOUS
<1>2. /\ runner[r].pc = "finish" /\ Executes(r) /\ ~ Claims(r)
      /\ UNCHANGED <<queue, payloads, aged, issue, phase, landed, doubtful>>
      /\ faults' \in 0 .. MaxFaults
  BY FailsCounts DEF Finish, Executes, Claims, IInv, TypeOK
<1>3. /\ j \in Jobs /\ st \in Terminal /\ c \in Counts /\ Honest(j, st, c)
  BY <1>1, <1>2, RunnerForms DEF FinishForms, IInv, Counted, Fits
<1>4. CASE Does(r, Idle) /\ stranded' = stranded \cup {j} /\ UNCHANGED <<status, report>>
  BY <1>1, <1>2, <1>4, LetGo DEF IInv, TypeOK
<1>5. CASE /\ status' = [status EXCEPT ![j] = st]
           /\ report' = [report EXCEPT ![j] = c]
           /\ Does(r, IF st = "succeeded" THEN [pc |-> "delete", job |-> j] ELSE Idle)
           /\ UNCHANGED <<stranded, faults>>
  <2>1. PICK s : s = IF st = "succeeded" THEN [pc |-> "delete", job |-> j] ELSE Idle
    OBVIOUS
  <2>2. /\ s \in RunnerState /\ s.pc \in {"delete", "idle"}
        /\ s.pc = "delete" => s.job = j /\ st = "succeeded"
    BY <1>3, <2>1 DEF RunnerState, Idle
  <2>3. /\ \A q \in Runners \ {r} :
             runner'[q] = runner[q] /\ (Claims(q)' <=> Claims(q)) /\ (Executes(q)' <=> Executes(q))
        /\ runner'[r] = s /\ ~ Claims(r)' /\ ~ Executes(r)'
    BY <1>5, <2>1, <2>2, Others DEF IInv
  <2>4. /\ status[j] = "running"
        /\ \A q \in Runners \ {r} : Claims(q) \/ Executes(q) => runner[q].job # j
        /\ \A q \in Runners : runner[q].pc = "delete" => runner[q].job # j
    BY <1>1, <1>2, OwnJob
  <2>5. /\ status'[j] = st /\ report'[j] = c
        /\ \A k \in Jobs \ {j} : status'[k] = status[k] /\ report'[k] = report[k]
    BY <1>3, <1>5 DEF IInv, TypeOK
  <2>6. TypeOK'
    <3>1. /\ status' \in [Jobs -> {None, "pending", "running"} \cup Terminal]
          /\ report' \in [Jobs -> Counts]
      BY <1>3, <1>5 DEF IInv, TypeOK
    <3>2. aged' \subseteq {k \in Jobs : status'[k] \in Terminal}
      BY <1>2, <1>3, <2>5 DEF IInv, TypeOK
    <3> QED
      BY <1>2, <1>5, <2>1, <2>2, <3>1, <3>2, DoesIt DEF IInv, TypeOK
  <2>7. \A q \in Runners : runner[q].pc \in {"claim", "open", "pull", "write", "finish", "delete"} =>
                             runner[q].job \in Jobs
    BY RunnerForms DEF IInv, Idle
  <2>8. Working'
    BY <1>3, <2>2, <2>3, <2>4, <2>5, <2>7 DEF IInv, Working, Claims, Executes
  <2>9. Apart'
    BY <2>3 DEF IInv, Apart
  <2>10. Attended'
    BY <1>1, <1>3, <1>5, <2>3, <2>5 DEF IInv, Attended, Terminal
  <2>11. Untouched'
    BY <1>2, <1>3, <2>5, ImportSide DEF IInv, Untouched, Terminal
  <2>12. Counted'
    BY <1>2, <2>2, <2>3, Remembered DEF IInv, Counted, Fits
  <2>13. Reported'
    BY <1>2, <1>3, <2>5, Remembered DEF IInv, Reported
  <2>14. FileKept'
    BY <1>2, <2>4, <2>5, ImportSide DEF IInv, FileKept
  <2> QED
    BY <2>6, <2>8, <2>9, <2>10, <2>11, <2>12, <2>13, <2>14 DEF IInv
<1> QED
  BY <1>1, <1>4, <1>5 DEF Finish

\* The invariant is inductive.
LEMMA NextHolds == IInv /\ [Next]_vars => IInv'
<1> SUFFICES ASSUME IInv, [Next]_vars PROVE IInv'
  OBVIOUS
<1>1. ASSUME NEW j \in Jobs, Create(j) \/ Age(j) PROVE IInv'
  BY <1>1, CreateStep, AgeStep
<1>2. ASSUME NEW id \in Identifiers, NEW t \in Teams, CreateNative(id, t) PROVE IInv'
  BY <1>2, NativeStep
<1>3. ASSUME NEW r \in Runners, Run(r) PROVE IInv'
  BY <1>3, ClaimStep, CommitClaimStep, OpenStep, PullStep, WriteStep, FinishStep, DeleteStep
     DEF Run
<1>4. ASSUME NEW r \in Runners, Drain(r) \/ ClosePool(r) \/ Cancel(r) \/ Start(r) PROVE IInv'
  BY <1>4, PhaseStep
<1>5. ASSUME NEW r \in Runners, Exit(r) \/ Crash(r) PROVE IInv'
  BY <1>5, HaltStep
<1> QED
  BY <1>1, <1>2, <1>3, <1>4, <1>5, PruneStep, StutterStep DEF Next
-----------------------------------------------------------------------------
(* What it gives.                                                          *)

LEMMA Invariant == Spec => []IInv
BY InitHolds, NextHolds, PTL DEF Spec

\* The variables keep their types: the queue of import_jobs, the runners of
\* all instances, the reports.
THEOREM ImportTypes == Spec => []TypeOK
<1>1. IInv => TypeOK
  BY DEF IInv
<1> QED
  BY <1>1, Invariant, PTL

\* ClaimNext's row lock and its status make each job run at most once, by one
\* instance, for any number of instances, crashes and failed statements.
THEOREM JobsRunOnce == Spec => []RunsOnce
<1>1. ASSUME IInv PROVE RunsOnce
  <2> SUFFICES ASSUME NEW j \in Jobs
               PROVE  /\ status[j] = "running" => \/ Cardinality(Executing(j)) = 1
                                                  \/ Executing(j) = {} /\ j \in stranded
                      /\ status[j] # "running" => Executing(j) = {}
    BY DEF RunsOnce
  <2>1. \A r \in Executing(j) : r \in Runners /\ Executes(r) /\ runner[r].job = j
    BY DEF Executing, Executes
  <2>2. status[j] # "running" => Executing(j) = {}
    BY <1>1, <2>1 DEF IInv, Working
  <2>3. \A q, r \in Executing(j) : q = r
    BY <1>1, <2>1 DEF IInv, Apart
  <2>4. CASE Executing(j) # {}
    <3>1. PICK r : Executing(j) = {r}
      BY <2>3, <2>4
    <3> QED
      BY <2>2, <3>1, FS_Singleton
  <2>5. CASE Executing(j) = {}
    <3>1. \A r \in Runners : Executes(r) /\ runner[r].job = j => r \in Executing(j)
      BY DEF Executing, Executes
    <3> QED
      BY <1>1, <2>5, <3>1 DEF IInv, Attended
  <2> QED
    BY <2>4, <2>5
<1> QED
  BY <1>1, Invariant, PTL

\* What Finish records of a job - succeeded, partial or failed, and how many
\* rows it imported - is what became of its rows.
THEOREM ReportsAreHonest == Spec => []ReportIsHonest
<1>1. IInv => ReportIsHonest
  BY DEF IInv, Reported, Honest, ReportIsHonest, Terminal
<1> QED
  BY <1>1, Invariant, PTL

\* Neither the pruner nor DeletePayload takes an upload that may be needed.
THEOREM FilesAreKept == Spec => []FileKept
<1>1. IInv => FileKept
  BY DEF IInv
<1> QED
  BY <1>1, Invariant, PTL

\* The upsert's conflict arm rewrites issues that imports of the team made.
THEOREM OthersAreLeftAlone == Spec => OwnIssuesOnly
<1> DEFINE Own ==
      \A id \in Identifiers :
         issue[id] # None /\ issue'[id] # issue[id] =>
             issue[id].by # Human /\ issue'[id].team = issue[id].team
<1>1. ASSUME TypeOK, [Next]_vars PROVE Own
  <2>1. ASSUME NEW id \in Identifiers, NEW t \in Teams, CreateNative(id, t) PROVE Own
    BY <1>1, <2>1 DEF CreateNative, TypeOK
  <2>2. ASSUME NEW r \in Runners, Write(r) PROVE Own
    <3>1. PICK j, at : j = runner[r].job /\ at = runner[r].at
      OBVIOUS
    <3>2. \/ issue' = issue
          \/ Landed(j, at) /\ (Source[j][at] # Keyless => Writable(Source[j][at], j))
      BY <2>2, <3>1 DEF Write
    <3>3. PICK id : id = Source[j][at]
      OBVIOUS
    <3>4. CASE /\ issue' = [issue EXCEPT ![id] = [team |-> TeamOf[j], by |-> j]]
               /\ Writable(id, j)
      BY <1>1, <3>4 DEF TypeOK, Writable
    <3> QED
      BY <3>2, <3>3, <3>4 DEF Landed
  <2>3. CASE UNCHANGED issue
    BY <2>3
  <2>4. ASSUME NEW r \in Runners, Run(r), ~ Write(r) PROVE UNCHANGED issue
    BY <2>4 DEF Run, Claim, CommitClaim, Open, Pull, Finish, DeletePayload
  <2>5. ASSUME NEW r \in Runners,
               Drain(r) \/ ClosePool(r) \/ Cancel(r) \/ Exit(r) \/ Crash(r) \/ Start(r)
        PROVE  UNCHANGED issue
    BY <2>5 DEF Drain, ClosePool, Cancel, Exit, Crash, Start, Halt
  <2>6. ASSUME NEW j \in Jobs, Create(j) \/ Age(j) PROVE UNCHANGED issue
    BY <2>6 DEF Create, Age
  <2> HIDE DEF Own
  <2>7. PrunePayloads \/ UNCHANGED vars => UNCHANGED issue
    BY DEF PrunePayloads, vars
  <2> QED
    BY <1>1, <2>1, <2>2, <2>3, <2>4, <2>5, <2>6, <2>7 DEF Next
<1>2. TypeOK /\ [Next]_vars => [Own]_vars
  BY <1>1
<1> QED
  BY <1>2, ImportTypes, PTL DEF Spec, OwnIssuesOnly
=============================================================================
