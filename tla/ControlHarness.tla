--------------------------- MODULE ControlHarness ---------------------------
(***************************************************************************)
(* What the control scripts of scripts/ have in common.  A control script  *)
(* proves that a test can fail: it mutates a tracked file, runs the tests, *)
(* compares the verdict with a prediction and puts the file back.  Nearly  *)
(* a hundred scripts do so, each with a harness of its own; they differ in *)
(* the points below, and a script is a harness with its list of controls.  *)
(*                                                                         *)
(*   database  it refuses to run without TRACK_TEST_DATABASE_URL           *)
(*   clean     it refuses to run over uncommitted work                     *)
(*   baseline  a red suite before any mutation: it refuses, counts it as a *)
(*             failure, subtracts it from every verdict, or never looks    *)
(*   copy      what it restores from: bytes read at the start or at each   *)
(*             control, git's, or the edit undone as text                  *)
(*   before    how many edits of a control it writes before its `try`      *)
(*   scope     that `try ... finally` is around each control, around the   *)
(*             whole campaign, or there is none                            *)
(*   stale     an anchor that is not there as often as expected: the       *)
(*             control is skipped, undone there and then or before the     *)
(*             next one and skipped, or the run stops                      *)
(*   checks    anchors are counted before each edit, before the first of a *)
(*             control, at startup, or never                               *)
(*   verify    a restored file whose hash differs: it stops, counts it, or *)
(*             does not look                                               *)
(*   exit      status 0 needs every verdict, or does not                   *)
(*   handler   SIGTERM, SIGINT and SIGHUP are handled by restoring         *)
(*   again     tests a panic kept from running are run alone, on the       *)
(*             control applied once more                                   *)
(*                                                                         *)
(* A control is a sequence of edits, each the replacement of an anchor in a *)
(* file (creating a file is one too), and                                  *)
(*                                                                         *)
(*   predict   the tests catch it, they miss it, or it is only measured    *)
(*   uncounted the edits whose anchor nobody counts: a replacement that    *)
(*             changes nothing when it is gone                             *)
(*   void      a mutation that does not compile: told apart, scored as a   *)
(*             red or as a green suite, or unseen, because the tests read  *)
(*             the text and do not compile it                              *)
(*   marker    its anchor is looked for behind a scope marker whose        *)
(*             absence is reported and does not count                      *)
(***************************************************************************)
EXTENDS Naturals, Sequences

AllEdits == 9

Harness == [database |-> FALSE, clean |-> FALSE, baseline |-> "refuse",
            copy |-> "start", before |-> 0, scope |-> "control",
            stale |-> "skip", checks |-> "each", verify |-> "stop",
            exit |-> "verdicts", handler |-> FALSE, again |-> FALSE]

HarnessType ==
    [database : BOOLEAN, clean : BOOLEAN,
     baseline : {"refuse", "count", "subtract", "none"},
     copy : {"start", "control", "git", "undo"},
     before : Nat, scope : {"control", "run", "none"},
     stale : {"skip", "undo", "stop"},
     checks : {"each", "first", "startup", "never"},
     verify : {"stop", "count", "none"}, exit : {"verdicts", "zero"},
     handler : BOOLEAN, again : BOOLEAN]

ControlType(files) ==
    [edits : Seq(files), predict : {"red", "green", "any"}, uncounted : SUBSET Nat,
     void : {"apart", "red", "green", "unseen"}, marker : BOOLEAN]

\* n controls that edit these files, in order, and what each one predicts.
Predicting(p, files, n) ==
    [k \in 1 .. n |-> [edits |-> files, predict |-> p, uncounted |-> {},
                       void |-> "apart", marker |-> FALSE]]
Caught(files, n) == Predicting("red", files, n)
Missed(files, n) == Predicting("green", files, n)
Measured(files, n) == Predicting("any", files, n)

\* Controls that differ from those in one of the other points.
Uncounted(which, controls) ==
    [k \in DOMAIN controls |-> [controls[k] EXCEPT !.uncounted = which]]
ScoresVoid(as, controls) == [k \in DOMAIN controls |-> [controls[k] EXCEPT !.void = as]]
Scanned(controls) == ScoresVoid("unseen", controls)
AfterMarker(controls) == [k \in DOMAIN controls |-> [controls[k] EXCEPT !.marker = TRUE]]

Script(harness, controls) == [harness |-> harness, controls |-> controls]

FilesOf(control) == {control.edits[k] : k \in DOMAIN control.edits}
Touched(script) == UNION {FilesOf(script.controls[c]) : c \in DOMAIN script.controls}
=============================================================================
