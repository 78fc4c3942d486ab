----------------------------- MODULE ControlRun -----------------------------
(***************************************************************************)
(* A run of one of the control scripts, with what can go wrong around it:  *)
(* the suite may be red already, someone may have uncommitted work in a    *)
(* file it mutates, an anchor may have moved, a mutation may not compile,  *)
(* an exception or Ctrl-C may end it, a signal may kill it, and after that *)
(* it may be run again on the tree it left.                                *)
(*                                                                         *)
(* A file's content is what matters of it: whether it still holds the work *)
(* somebody had not committed, and the edits <<control, edit>> in it.      *)
(***************************************************************************)
EXTENDS ControlHarness

CONSTANTS
    Scripts,   \* the control scripts
    Files,     \* the files they mutate
    Runs       \* bound: how often the script is started

ASSUME ScriptsAreWellFormed ==
    /\ Scripts \subseteq [harness : HarnessType, controls : Seq(ControlType(Files))]
    /\ Runs \in Nat \ {0}

\* The harnesses put back what a skipped control wrote, take one copy of
\* everything if they restore everything, and look for uncommitted work if they
\* restore what is committed.
ASSUME HarnessesRestore ==
    \A s \in Scripts :
        /\ s.harness.stale = "skip" =>
             \/ s.harness.checks # "each"
             \/ s.harness.scope = "control" /\ s.harness.before <= 1
             \/ \A c \in DOMAIN s.controls : Len(s.controls[c].edits) <= 1
        /\ s.harness.scope = "run" => s.harness.copy = "start"
        /\ s.harness.copy = "git" => s.harness.clean

VARIABLES
    script,    \* the script that is run
    work,      \* files with uncommitted work of somebody, from the beginning
    database,  \* TRACK_TEST_DATABASE_URL is set
    red,       \* the suite is red without any mutation
    tree,      \* file |-> content
    found,     \* the tree as this run found it
    copy,      \* file |-> the content to restore
    pc, control, edit,
    wrong,     \* the script has counted a failure
    missed,    \* history: a control was not applied, or did not do as predicted
    exit,      \* "no" while running
    runs

vars == <<script, work, database, red, tree, found, copy, pc, control, edit,
          wrong, missed, exit, runs>>
world == <<script, work, database, red, found, runs>>

H == script.harness
Controls == script.controls
Edits == Controls[control].edits
Mine == Touched(script)

Content == [work : BOOLEAN, edits : SUBSET (Nat \X Nat)]
Committed == [work |-> FALSE, edits |-> {}]
AsCommitted(f) == tree[f] = Committed

Init ==
    /\ script \in Scripts
    /\ work \in {{}} \cup {{f} : f \in Mine}
    /\ database \in (IF H.database THEN BOOLEAN ELSE {TRUE})
    /\ red \in BOOLEAN
    /\ tree = [f \in Mine |-> [work |-> f \in work, edits |-> {}]]
    /\ found = tree /\ copy = tree
    /\ pc = "start" /\ control = 0 /\ edit = 0
    /\ wrong = FALSE /\ missed = FALSE /\ exit = "no" /\ runs = 1

Goto(where) == pc' = where
End(status) == pc' = "ended" /\ exit' = status
Running == UNCHANGED exit

-----------------------------------------------------------------------------
(* Mutating and putting back.                                              *)

Mutated(f) == [tree EXCEPT ![f].edits = @ \cup {<<control, edit>>}]

\* The edits of the control that have been written to f.
Written(f) == {<<control, k>> : k \in {n \in DOMAIN Edits : n < edit /\ Edits[n] = f}}

Restored(f) ==
    CASE H.copy = "git"  -> Committed
      [] H.copy = "undo" -> [tree[f] EXCEPT !.edits = @ \ Written(f)]
      [] OTHER           -> copy[f]

Restore(files) ==
    tree' = [f \in Mine |-> IF f \in files THEN Restored(f) ELSE tree[f]]

\* What a `finally` puts back: the control's files, or every one.
Guarded == IF H.scope = "run" THEN Mine ELSE FilesOf(Controls[control])

InTry ==
    \/ H.scope = "run"
    \/ H.scope = "control" /\ (pc = "test" \/ (pc = "edit" /\ edit > H.before))

\* Fault: an exception leaves without the `finally`.
LeaveOutside == UNCHANGED tree

Leave == IF InTry THEN Restore(Guarded) ELSE UNCHANGED tree

-----------------------------------------------------------------------------
(* The script.                                                             *)

\* Fault: the uncommitted work is not looked for.
PreflightTrustsTree ==
    /\ pc = "start"
    /\ IF H.database /\ ~ database THEN End("refused") ELSE Goto("baseline") /\ Running
    /\ UNCHANGED <<world, tree, copy, control, edit, wrong, missed>>

Preflight ==
    /\ pc = "start"
    /\ IF \/ H.database /\ ~ database
          \/ H.clean /\ \E f \in Mine : ~ AsCommitted(f)
         THEN End("refused")
         ELSE Goto("baseline") /\ Running
    /\ UNCHANGED <<world, tree, copy, control, edit, wrong, missed>>

\* The unmutated suite, and the copies of a script that takes them now.
Baseline ==
    /\ pc = "baseline"
    /\ IF red /\ H.baseline = "refuse"
         THEN End("refused") /\ UNCHANGED <<copy, wrong>>
         ELSE /\ Goto("next") /\ Running
              /\ copy' = IF H.copy = "start" THEN tree ELSE copy
              /\ wrong' = (wrong \/ (red /\ H.baseline = "count"))
    /\ UNCHANGED <<world, tree, control, edit, missed>>

\* An anchor counted at startup is gone.
StartupStale ==
    /\ pc = "baseline"
    /\ H.checks = "startup"
    /\ End("refused")
    /\ UNCHANGED <<world, tree, copy, control, edit, wrong, missed>>

NextControl ==
    /\ pc = "next"
    /\ control < Len(Controls)
    /\ control' = control + 1
    /\ edit' = 1
    /\ copy' = IF H.copy = "control"
                 THEN [f \in Mine |-> IF f \in FilesOf(Controls[control + 1])
                                         THEN tree[f] ELSE copy[f]]
                 ELSE copy
    /\ Goto(IF Controls[control + 1].edits = <<>> THEN "test" ELSE "edit")
    /\ Running
    /\ UNCHANGED <<world, tree, wrong, missed>>

\* The anchor of this edit is looked for now and is not there.
AnchorGone ==
    /\ pc = "edit" /\ edit \notin Controls[control].uncounted
    /\ \/ H.checks = "each"
       \/ H.checks = "first" /\ edit = 1

\* A control that is not run is a failure, except that few harnesses count one
\* they only measure, and that a scope marker that is gone is only reported.
CountsAsFailed ==
    wrong' \in (IF Controls[control].predict = "any" \/ Controls[control].marker
                 THEN {wrong, TRUE} ELSE {TRUE})
Forgone == missed' = (missed \/ Controls[control].predict # "any")

\* Fault: the control left by `continue`, its earlier edits still in place.
StaleSkipLeaves ==
    /\ AnchorGone
    /\ H.stale \in {"skip", "undo"}
    /\ UNCHANGED tree
    /\ Goto("next") /\ Running
    /\ CountsAsFailed /\ Forgone
    /\ UNCHANGED <<world, copy, control, edit>>

\* Fault: a control that was not applied counts as nothing.
StaleSkipForgiven ==
    /\ AnchorGone
    /\ H.stale \in {"skip", "undo"}
    /\ Restore(FilesOf(Controls[control]))
    /\ Goto("next") /\ Running
    /\ Forgone
    /\ UNCHANGED <<world, copy, control, edit, wrong>>

\* The control is recorded as not run.  Leaving its `try` restores; a `try`
\* around the campaign is not left.
StaleSkip ==
    /\ AnchorGone
    /\ H.stale \in {"skip", "undo"}
    /\ IF H.stale = "undo" \/ (H.scope = "control" /\ InTry)
         THEN Restore(FilesOf(Controls[control])) ELSE UNCHANGED tree
    /\ Goto("next") /\ Running
    /\ CountsAsFailed /\ Forgone
    /\ UNCHANGED <<world, copy, control, edit>>

StaleStop ==
    /\ AnchorGone
    /\ H.stale = "stop"
    /\ Leave
    /\ End("failed")
    /\ UNCHANGED <<world, copy, control, edit, wrong, missed>>

\* A text that will be undone is looked for first: it is not there twice.  An
\* uncounted replacement whose anchor is gone writes the file as it was.
Write ==
    /\ pc = "edit"
    /\ H.copy = "undo" => <<control, edit>> \notin tree[Edits[edit]].edits
    /\ \/ tree' = Mutated(Edits[edit])
       \/ edit \in Controls[control].uncounted /\ UNCHANGED tree
    /\ edit' = edit + 1
    /\ Goto(IF edit = Len(Edits) THEN "test" ELSE "edit") /\ Running
    /\ UNCHANGED <<world, copy, control, wrong, missed>>

Applied(k) == <<control, k>> \in tree[Edits[k]].edits
NothingApplied == Edits # <<>> /\ \A k \in DOMAIN Edits : ~ Applied(k)

\* What the suite says of the mutation: a suite that was red before stays so,
\* unless its failures are subtracted; one nothing was changed for says what it
\* said before.
StaysRed == red /\ H.baseline # "subtract"
Outcomes ==
    IF NothingApplied THEN {IF StaysRed THEN "red" ELSE "green"}
    ELSE {"red"} \cup (IF StaysRed THEN {} ELSE {"green"})
                 \cup (IF Controls[control].void = "unseen" THEN {} ELSE {"void"})

Scored(outcome) == IF outcome = "void" THEN Controls[control].void ELSE outcome
AsPredicted(outcome) == Controls[control].predict \in {"any", outcome}

RunTests ==
    /\ pc = "test"
    /\ \E outcome \in Outcomes :
         /\ wrong' = (wrong \/ ~ AsPredicted(Scored(outcome)))
         /\ missed' = \/ missed \/ ~ AsPredicted(outcome)
                      \/ red /\ H.baseline \in {"none", "count"}
                      \/ /\ Controls[control].predict # "any"
                         /\ \E k \in DOMAIN Edits : ~ Applied(k)
    /\ Goto("restore") /\ Running
    /\ UNCHANGED <<world, tree, copy, control, edit>>

PutBack ==
    /\ pc = "restore"
    /\ Restore(FilesOf(Controls[control]))
    /\ Goto("verify") /\ Running
    /\ UNCHANGED <<world, copy, control, edit, wrong, missed>>

\* The hash of the restored files against that of the tree it found.
Verify ==
    /\ pc = "verify"
    /\ LET same == \A f \in FilesOf(Controls[control]) : tree[f] = found[f]
       IN  /\ IF ~ same /\ H.verify = "stop" THEN End("failed") ELSE Goto("next") /\ Running
           /\ wrong' = (wrong \/ (~ same /\ H.verify = "count"))
    /\ UNCHANGED <<world, tree, copy, control, edit, missed>>

\* The control is applied a second time, for the tests that never ran: no
\* `try` is around it.
Reapply ==
    /\ pc = "verify"
    /\ H.again
    /\ \A f \in FilesOf(Controls[control]) : tree[f] = found[f]
    /\ tree' = [f \in Mine |-> [tree[f] EXCEPT !.edits = @ \cup Written(f)]]
    /\ Goto("again") /\ Running
    /\ UNCHANGED <<world, copy, control, edit, wrong, missed>>

PutBackAgain ==
    /\ pc = "again"
    /\ Restore(FilesOf(Controls[control]))
    /\ Goto("next") /\ Running
    /\ UNCHANGED <<world, copy, control, edit, wrong, missed>>

Finish ==
    /\ pc = "next"
    /\ control = Len(Controls)
    /\ IF H.scope = "run" THEN Restore(Mine) ELSE UNCHANGED tree
    /\ End(IF H.exit = "verdicts" /\ wrong THEN "failed" ELSE "zero")
    /\ UNCHANGED <<world, copy, control, edit, wrong, missed>>

-----------------------------------------------------------------------------
(* What happens to it.                                                     *)

\* A timeout, a tool that is not there, or Ctrl-C where it raises.
Raise ==
    /\ pc \in {"edit", "test", "again"}
    /\ Leave
    /\ End("failed")
    /\ UNCHANGED <<world, copy, control, edit, wrong, missed>>

\* Fault: the default action of the signal.
SignalKills ==
    /\ pc \in {"edit", "test", "restore", "again"}
    /\ UNCHANGED tree
    /\ End("killed")
    /\ UNCHANGED <<world, copy, control, edit, wrong, missed>>

\* SIGTERM or SIGHUP: no `finally` runs; a handler restores its copies and
\* sends itself the signal again.
Signal ==
    /\ pc \in {"edit", "test", "restore", "again"}
    /\ IF H.handler THEN Restore(IF H.copy = "start" THEN Mine
                                 ELSE FilesOf(Controls[control]))
       ELSE UNCHANGED tree
    /\ End("killed")
    /\ UNCHANGED <<world, copy, control, edit, wrong, missed>>

\* It is started once more, on the tree it left; what is left of a mutation
\* may make the suite red, or not.
Rerun ==
    /\ pc = "ended"
    /\ runs < Runs
    /\ runs' = runs + 1
    /\ found' = tree
    /\ red' \in (IF \E f \in Mine : tree[f].edits # {} THEN BOOLEAN ELSE {red})
    /\ Goto("start")
    /\ control' = 0 /\ edit' = 0 /\ wrong' = FALSE /\ missed' = FALSE /\ exit' = "no"
    /\ UNCHANGED <<script, work, database, tree, copy>>

Campaign ==
    \/ Preflight \/ Baseline \/ StartupStale \/ NextControl
    \/ StaleSkip \/ StaleStop \/ Write \/ RunTests \/ PutBack \/ Verify
    \/ Reapply \/ PutBackAgain \/ Finish

Next == Campaign \/ Raise \/ Signal \/ Rerun

Spec == Init /\ [][Next]_vars

-----------------------------------------------------------------------------
(* Properties.                                                             *)

\* Every variable stays in its set.
TypeOK ==
    /\ script \in Scripts /\ work \subseteq Mine
    /\ database \in BOOLEAN /\ red \in BOOLEAN
    /\ tree \in [Mine -> Content] /\ found \in [Mine -> Content]
    /\ copy \in [Mine -> Content]
    /\ pc \in {"start", "baseline", "next", "edit", "test", "restore", "verify",
              "again", "ended"}
    /\ control \in 0 .. Len(Controls) /\ edit \in Nat
    /\ pc \in {"edit", "test", "restore", "verify", "again"} => control \in DOMAIN Controls
    /\ pc = "edit" => edit \in DOMAIN Edits
    /\ wrong \in BOOLEAN /\ missed \in BOOLEAN
    /\ exit \in {"no", "zero", "failed", "refused", "killed"}
    /\ runs \in 1 .. Runs

\* The `try` covers every moment at which a file is mutated: it is there, it
\* is entered before the second edit of a control is written, and nothing is
\* applied after it.
TryCoversEdits ==
    /\ H.scope # "none" /\ ~ H.again
    /\ \/ H.scope = "run" \/ H.before <= 1
       \/ \A c \in DOMAIN Controls : Len(Controls[c].edits) <= 1

\* A script whose `try` covers its edits leaves every file as it found it,
\* however it ends: refused, stopped by a moved anchor between two edits, by
\* an exception or by a failed check, or finished.
LeftAsFound ==
    TryCoversEdits /\ exit \in {"zero", "failed", "refused"} => tree = found

\* A signal handler leaves them so even when the run is killed.
SignalLeavesAsFound == exit = "killed" /\ H.handler => tree = found

\* What the tests run on is what the script found with the edits of this
\* control, and nothing of any other control: the verdict is about it.  Every
\* edit is there but, perhaps, one whose anchor nobody counted.
Attribution ==
    pc = "test" =>
      \A f \in Mine :
        LET own == {k \in DOMAIN Edits : Edits[k] = f}
        IN  /\ tree[f].work = found[f].work
            /\ found[f].edits \subseteq tree[f].edits
            /\ tree[f].edits \subseteq found[f].edits \cup {<<control, k>> : k \in own}
            /\ \A k \in own \ Controls[control].uncounted : Applied(k)

\* Status 0 is only for a run in which every control that predicts something
\* was applied, compiled and did so on a suite that was green: for a script
\* whose status depends on the verdicts, in which a mutation that does not
\* compile is not scored as what its control predicts, an edit nobody counts is
\* the whole of a control that predicts red, no scope marker is only reported,
\* and a red suite is noticed, because it looks or because some control
\* predicts green.
Discriminates ==
    /\ H.exit = "verdicts"
    /\ \A c \in DOMAIN Controls :
         /\ Controls[c].void # Controls[c].predict
         /\ Controls[c].predict # "any" =>
              /\ ~ Controls[c].marker
              /\ Controls[c].uncounted # {} =>
                   Controls[c].predict = "red" /\ Len(Controls[c].edits) = 1
    /\ H.baseline = "none" => \E c \in DOMAIN Controls : Controls[c].predict = "green"

PassIsEarned == exit = "zero" /\ Discriminates => ~ missed

\* Work nobody had committed survives every run, mutated file or not.
WorkKept == \A f \in work : tree[f].work

=============================================================================
