---------------------------- MODULE ControlProofs ----------------------------
(***************************************************************************)
(* Proofs about the control scripts: ControlRun, for every set of scripts  *)
(* whose harnesses restore as HarnessesRestore says, any files and any number *)
(* of starts, and the two guards, for every set of scripts, anchors and    *)
(* files.                                                                  *)
(***************************************************************************)
EXTENDS ControlRun, AnchorGuard, HandlerGuard, TLAPS

(***************************************************************************)
(* ControlRun.  The inductive invariant says what the tree is at every     *)
(* point: what the run found, plus the edits of the current control that   *)
(* are written, those nobody counts perhaps left out; and that what the    *)
(* harness restores from gives what the run found.                         *)
(***************************************************************************)

\* Where edits of the current control may be in the tree.
Working == {"edit", "test", "restore", "again"}

\* The edits written to f whose anchor was counted.
Counted(f) == {<<control, k>> : k \in {n \in DOMAIN Edits :
                                        /\ n < edit /\ Edits[n] = f
                                        /\ n \notin Controls[control].uncounted}}

\* A file has its own edits of this control in it, and none of another one.
Mutates(f) ==
    /\ tree[f].work = found[f].work
    /\ found[f].edits \cup Counted(f) \subseteq tree[f].edits
    /\ tree[f].edits \subseteq found[f].edits \cup Written(f)

TreeIsKnown ==
    /\ pc \in {"start", "baseline", "next", "verify"} => tree = found
    /\ pc \in Working => \A f \in Mine : Mutates(f)

AllWritten == pc \in {"test", "restore", "verify", "again"} => edit = Len(Edits) + 1

CopyIsFound ==
    /\ H.copy = "start" /\ pc \in Working \cup {"next", "verify"} => copy = found
    /\ H.copy = "control" /\ pc \in Working \cup {"verify"} =>
         \A f \in FilesOf(Controls[control]) : copy[f] = found[f]
    /\ H.clean /\ pc \notin {"start", "ended"} => \A f \in Mine : found[f] = Committed
    /\ H.copy = "undo" /\ pc \in Working \cup {"verify"} =>
         \A k \in DOMAIN Edits : k < edit => <<control, k>> \notin found[Edits[k]].edits

WorkIsFound == \A f \in work : found[f].work /\ tree[f].work

EndIsMarked == ((pc = "ended") <=> (exit # "no")) /\ (pc = "again" => H.again)

ScriptInv ==
    /\ TypeOK /\ TreeIsKnown /\ AllWritten /\ CopyIsFound /\ WorkIsFound /\ EndIsMarked
    /\ LeftAsFound /\ SignalLeavesAsFound

-----------------------------------------------------------------------------
(* The script, its controls and their files.                               *)

LEMMA ElementOf ==
    ASSUME NEW S, NEW s \in Seq(S), NEW c \in DOMAIN s
    PROVE  s[c] \in S /\ Len(s) \in Nat /\ DOMAIN s = 1 .. Len(s)
OBVIOUS

LEMMA ScriptTyped ==
    ASSUME script \in Scripts
    PROVE  /\ H \in HarnessType
           /\ Len(Controls) \in Nat /\ DOMAIN Controls = 1 .. Len(Controls)
           /\ \A c \in DOMAIN Controls :
                /\ Controls[c] \in ControlType(Files)
                /\ Len(Controls[c].edits) \in Nat
                /\ DOMAIN Controls[c].edits = 1 .. Len(Controls[c].edits)
                /\ FilesOf(Controls[c]) \subseteq Mine
                /\ \A k \in DOMAIN Controls[c].edits :
                     Controls[c].edits[k] \in FilesOf(Controls[c])
<1>1. H \in HarnessType /\ Controls \in Seq(ControlType(Files))
  BY ScriptsAreWellFormed DEF H, Controls
<1>2. \A c \in DOMAIN Controls :
        Controls[c] \in ControlType(Files) /\ Controls[c].edits \in Seq(Files)
  <2> SUFFICES ASSUME NEW c \in DOMAIN Controls
               PROVE  Controls[c] \in ControlType(Files) /\ Controls[c].edits \in Seq(Files)
    OBVIOUS
  <2>1. Controls[c] \in ControlType(Files)
    BY <1>1, ElementOf
  <2> QED
    BY <2>1 DEF ControlType
<1>3. \A c \in DOMAIN Controls : FilesOf(Controls[c]) \subseteq Mine
  BY DEF Mine, Touched, Controls
<1>4. \A c \in DOMAIN Controls : \A k \in DOMAIN Controls[c].edits :
        Controls[c].edits[k] \in FilesOf(Controls[c])
  BY DEF FilesOf
<1> QED
  BY <1>1, <1>2, <1>3, <1>4

LEMMA ContentTyped == Committed \in Content
BY DEF Committed, Content

\* A file no written edit of the control is in.
LEMMA NothingWritten ==
    ASSUME NEW f, f \notin FilesOf(Controls[control])
    PROVE  Written(f) = {}
BY DEF Written, FilesOf, Edits

\* Two contents are the same if their parts are; and edits that were not
\* there can be taken out again.
LEMMA SameContent ==
    ASSUME NEW c \in Content, NEW d \in Content, c.work = d.work, d.edits \subseteq c.edits
    PROVE  /\ c.edits \subseteq d.edits => c = d
           /\ \A E : E \cap d.edits = {} /\ c.edits \subseteq d.edits \cup E =>
                [c EXCEPT !.edits = @ \ E] = d
<1>1. c = [work |-> c.work, edits |-> c.edits] /\ d = [work |-> d.work, edits |-> d.edits]
  BY DEF Content
<1>2. c.edits \subseteq d.edits => c.edits = d.edits
  OBVIOUS
<1>3. ASSUME NEW E, E \cap d.edits = {}, c.edits \subseteq d.edits \cup E
      PROVE  c.edits \ E = d.edits
  BY <1>3
<1>4. \A E : [c EXCEPT !.edits = @ \ E] = [work |-> c.work, edits |-> c.edits \ E]
  BY <1>1
<1> QED
  BY <1>1, <1>2, <1>3, <1>4

\* Whatever a harness restores from, what it restores is what the run found.
LEMMA RestoredIsFound ==
    ASSUME ScriptInv, pc \in Working, NEW f \in FilesOf(Controls[control])
    PROVE  Restored(f) = found[f]
<1>1. control \in DOMAIN Controls /\ f \in Mine /\ found[f] \in Content
  BY ScriptTyped DEF ScriptInv, TypeOK, Working
<1>2. CASE H.copy \in {"start", "control"}
  BY <1>1, <1>2 DEF ScriptInv, CopyIsFound, Restored, Working
<1>3. CASE H.copy = "git"
  <2>1. H.clean
    BY <1>3, HarnessesRestore DEF ScriptInv, TypeOK, H
  <2> QED
    BY <1>1, <1>3, <2>1 DEF ScriptInv, CopyIsFound, Restored, Working
<1>4. CASE H.copy = "undo"
  <2>1. Written(f) \cap found[f].edits = {}
    BY <1>4 DEF ScriptInv, CopyIsFound, Working, Written
  <2>2. Mutates(f) /\ tree[f] \in Content
    BY <1>1 DEF ScriptInv, TreeIsKnown, TypeOK
  <2>3. Restored(f) = [tree[f] EXCEPT !.edits = @ \ Written(f)]
    BY <1>4 DEF Restored
  <2> QED
    BY <1>1, <2>1, <2>2, <2>3, SameContent DEF Mutates
<1> QED
  BY <1>2, <1>3, <1>4, ScriptTyped DEF ScriptInv, TypeOK, HarnessType

\* Restoring the control's files, or all of them from the first copy, brings
\* back the tree the run found.
LEMMA RestoreFindsTree ==
    ASSUME ScriptInv, pc \in Working, NEW files, Restore(files),
           FilesOf(Controls[control]) \subseteq files,
           files = FilesOf(Controls[control]) \/ H.copy = "start"
    PROVE  tree' = found
<1>1. ASSUME NEW f \in Mine
      PROVE  (IF f \in files THEN Restored(f) ELSE tree[f]) = found[f]
  <2>1. CASE f \in FilesOf(Controls[control])
    BY <2>1, RestoredIsFound
  <2>2. CASE f \notin FilesOf(Controls[control])
    <3>1. tree[f] = found[f]
      <4>1. Mutates(f) /\ tree[f] \in Content /\ found[f] \in Content
        BY <1>1 DEF ScriptInv, TreeIsKnown, TypeOK
      <4> QED
        BY <4>1, <2>2, NothingWritten, SameContent DEF Mutates
    <3>2. H.copy = "start" => Restored(f) = found[f]
      BY DEF ScriptInv, CopyIsFound, Restored, Working
    <3> QED
      BY <2>2, <3>1, <3>2
  <2> QED
    BY <2>1, <2>2
<1>2. found = [f \in Mine |-> found[f]]
  BY DEF ScriptInv, TypeOK
<1> QED
  BY <1>1, <1>2 DEF Restore

\* Before the first edit nothing is written.
LEMMA FirstEditFindsTree ==
    ASSUME ScriptInv, pc \in Working, edit <= 1
    PROVE  tree = found
<1>1. ASSUME NEW f \in Mine PROVE tree[f] = found[f]
  <2>1. Mutates(f) /\ tree[f] \in Content /\ found[f] \in Content
    BY DEF ScriptInv, TreeIsKnown, TypeOK
  <2>2. DOMAIN Edits \subseteq Nat \ {0} /\ edit \in Nat
    BY ScriptTyped DEF ScriptInv, TypeOK, Working, Edits
  <2>3. Written(f) = {}
    BY <2>2 DEF Written
  <2> QED
    BY <2>1, <2>3, SameContent DEF Mutates
<1> QED
  BY <1>1 DEF ScriptInv, TypeOK

\* An exception: the tree is typed, keeps the work, and is what the run found
\* if the `try` covers the edits.
LEMMA LeaveFindsTree ==
    ASSUME ScriptInv, pc \in {"edit", "test", "again"}, Leave
    PROVE  tree' \in [Mine -> Content] /\ (\A f \in work : tree'[f].work)
           /\ (TryCoversEdits => tree' = found)
<1>1. control \in DOMAIN Controls /\ script \in Scripts /\ work \subseteq Mine
      /\ tree \in [Mine -> Content] /\ found \in [Mine -> Content]
      /\ (\A f \in work : tree[f].work /\ found[f].work) /\ edit \in Nat
  BY DEF ScriptInv, TypeOK, WorkIsFound
<1>2. CASE InTry
  <2>1. tree' = found
    <3>1. Restore(Guarded)
      BY <1>2 DEF Leave
    <3>2. FilesOf(Controls[control]) \subseteq Guarded
      BY <1>1, ScriptTyped DEF Guarded
    <3>3. Guarded = FilesOf(Controls[control]) \/ H.copy = "start"
      BY <1>1, HarnessesRestore DEF Guarded, H
    <3> QED
      BY <3>1, <3>2, <3>3, RestoreFindsTree DEF Working
  <2> QED
    BY <1>1, <2>1
<1>3. CASE ~ InTry
  <2>1. tree' = tree
    BY <1>3 DEF Leave
  <2>2. ASSUME TryCoversEdits PROVE edit <= 1
    <3>1. H.scope = "control" /\ pc = "edit" /\ edit <= H.before
      BY <1>1, <1>3, <2>2, ScriptTyped DEF TryCoversEdits, InTry, ScriptInv, EndIsMarked, HarnessType
    <3>2. edit \in 1 .. Len(Edits)
      BY <1>1, <3>1, ScriptTyped DEF ScriptInv, TypeOK, Edits
    <3> QED
      BY <1>1, <2>2, <3>1, <3>2, ScriptTyped DEF TryCoversEdits, HarnessType, Edits
  <2> QED
    BY <1>1, <2>1, <2>2, FirstEditFindsTree DEF Working
<1> QED
  BY <1>2, <1>3

-----------------------------------------------------------------------------
(* The invariant holds at first and is kept by every action.               *)

LEMMA InitScript == Init => ScriptInv
<1> SUFFICES ASSUME Init PROVE ScriptInv
  OBVIOUS
<1>1. script \in Scripts /\ work \subseteq Mine
  BY DEF Init
<1>2. tree = [f \in Mine |-> [work |-> f \in work, edits |-> {}]] /\ found = tree /\ copy = tree
  BY DEF Init
<1>3. tree \in [Mine -> Content]
  BY <1>2 DEF Content
<1>4. TypeOK
  <2>1. 0 \in 0 .. Len(Controls)
    BY <1>1, ScriptTyped
  <2>2. 1 \in 1 .. Runs
    BY ScriptsAreWellFormed
  <2> QED
    BY <1>1, <1>2, <1>3, <2>1, <2>2 DEF Init, TypeOK
<1>5. WorkIsFound
  BY <1>1, <1>2 DEF WorkIsFound
<1> QED
  BY <1>2, <1>4, <1>5 DEF Init, ScriptInv, TreeIsKnown, AllWritten, CopyIsFound, EndIsMarked,
       LeftAsFound, SignalLeavesAsFound, Working

LEMMA PreflightKeeps == ScriptInv /\ Preflight => ScriptInv'
<1> SUFFICES ASSUME ScriptInv, Preflight PROVE ScriptInv'
  OBVIOUS
<1>1. TypeOK'
  BY DEF ScriptInv, Preflight, TypeOK, world, Goto, End, Running, Mine, Controls, Edits
<1>2. ASSUME pc' # "ended" PROVE H.clean => \A f \in Mine : found[f] = Committed
  BY <1>2 DEF ScriptInv, Preflight, TreeIsKnown, AsCommitted, Goto, End
<1> QED
  BY <1>1, <1>2 DEF ScriptInv, Preflight, world, Goto, End, Running, TreeIsKnown, AllWritten,
       CopyIsFound, WorkIsFound, EndIsMarked, LeftAsFound, SignalLeavesAsFound, Working, Mine, H

LEMMA BaselineKeeps == ScriptInv /\ (Baseline \/ StartupStale) => ScriptInv'
<1> SUFFICES ASSUME ScriptInv, Baseline \/ StartupStale PROVE ScriptInv'
  OBVIOUS
<1>1. TypeOK'
  BY DEF ScriptInv, Baseline, StartupStale, TypeOK, world, Goto, End, Running, Mine,
     Controls, Edits
<1> QED
  BY <1>1 DEF ScriptInv, Baseline, StartupStale, world, Goto, End, Running, TreeIsKnown,
     AllWritten, CopyIsFound, WorkIsFound, EndIsMarked, LeftAsFound, SignalLeavesAsFound,
     Working, Mine, H

LEMMA NextControlKeeps == ScriptInv /\ NextControl => ScriptInv'
<1> SUFFICES ASSUME ScriptInv, NextControl PROVE ScriptInv'
  OBVIOUS
<1>1. script \in Scripts /\ tree = found /\ found \in [Mine -> Content]
      /\ copy \in [Mine -> Content] /\ control \in Nat
  BY DEF ScriptInv, NextControl, TypeOK, TreeIsKnown
<1>2. /\ script' = script /\ tree' = tree /\ found' = found /\ work' = work
      /\ exit' = exit /\ control' = control + 1 /\ edit' = 1
      /\ Mine' = Mine /\ H' = H /\ Controls' = Controls
  BY DEF NextControl, world, Running, Mine, H, Controls
<1>3. control' \in DOMAIN Controls
  BY <1>1, <1>2, ScriptTyped DEF NextControl
<1>4. copy' \in [Mine -> Content]
  BY <1>1 DEF NextControl
<1>5. /\ Edits' = Controls[control'].edits
      /\ Len(Edits') \in Nat /\ DOMAIN Edits' = 1 .. Len(Edits')
  BY <1>1, <1>2, <1>3, ScriptTyped DEF Edits
<1>6. /\ pc' \in {"edit", "test"}
      /\ (pc' = "edit") <=> (Edits' # <<>>)
  BY <1>2, <1>5 DEF NextControl, Goto
<1>7. IF pc' = "edit" THEN Len(Edits') >= 1 ELSE Len(Edits') = 0
  BY <1>5, <1>6
<1>8. TypeOK'
  BY <1>2, <1>3, <1>4, <1>5, <1>6, <1>7 DEF ScriptInv, NextControl, TypeOK, world
<1>9. TreeIsKnown'
  <2>1. \A f : Counted(f)' = {}
    BY <1>2, <1>5 DEF Counted
  <2> QED
    BY <1>1, <1>2, <1>6, <2>1 DEF TreeIsKnown, Mutates, Working
<1>10. CopyIsFound'
  <2>1. H.copy = "control" =>
          \A f \in FilesOf(Controls[control']) : copy'[f] = found[f]
    BY <1>1, <1>2, <1>3, ScriptTyped DEF NextControl
  <2>2. H.copy # "control" => copy' = copy
    BY DEF NextControl
  <2>3. H.copy = "start" => copy' = found
    BY <2>2 DEF ScriptInv, CopyIsFound, NextControl
  <2>4. H.clean => \A f \in Mine : found[f] = Committed
    BY DEF ScriptInv, CopyIsFound, NextControl
  <2>5. \A k \in DOMAIN Edits' : ~ (k < edit')
    BY <1>2, <1>5
  <2> QED
    BY <1>2, <2>1, <2>3, <2>4, <2>5 DEF CopyIsFound
<1> QED
  BY <1>2, <1>6, <1>7, <1>8, <1>9, <1>10 DEF ScriptInv, NextControl, AllWritten, WorkIsFound,
     EndIsMarked, LeftAsFound, SignalLeavesAsFound

LEMMA StaleSkipKeeps == ScriptInv /\ StaleSkip => ScriptInv'
<1> SUFFICES ASSUME ScriptInv, StaleSkip PROVE ScriptInv'
  OBVIOUS
<1>1. script \in Scripts /\ pc = "edit" /\ control \in DOMAIN Controls
      /\ edit \in 1 .. Len(Edits)
  BY ScriptTyped DEF ScriptInv, StaleSkip, AnchorGone, TypeOK, Edits
<1>2. tree' = found
  <2>1. CASE Restore(FilesOf(Controls[control]))
    BY <1>1, <2>1, RestoreFindsTree DEF Working
  <2>2. CASE ~ Restore(FilesOf(Controls[control]))
    <3>1. tree' = tree /\ H.stale = "skip" /\ ~ (H.scope = "control" /\ InTry)
      BY <2>2 DEF StaleSkip
    <3>2. edit <= 1
      <4>1. CASE H.checks = "first"
        BY <1>1, <4>1 DEF StaleSkip, AnchorGone
      <4>2. CASE H.checks = "each" /\ H.scope = "control" /\ H.before <= 1
        BY <1>1, <3>1, <4>2, ScriptTyped DEF InTry, HarnessType
      <4>3. CASE Len(Edits) <= 1
        BY <1>1, <4>3, ScriptTyped DEF Edits
      <4> QED
        BY <1>1, <3>1, <4>1, <4>2, <4>3, HarnessesRestore
           DEF StaleSkip, AnchorGone, H, Controls, Edits
    <3> QED
      BY <1>1, <3>1, <3>2, FirstEditFindsTree DEF Working
  <2> QED
    BY <2>1, <2>2
<1>3. TypeOK'
  BY <1>2 DEF ScriptInv, StaleSkip, CountsAsFailed, Forgone, TypeOK, world, Goto, Running, Mine,
     Controls, Edits
<1> QED
  BY <1>1, <1>2, <1>3 DEF ScriptInv, StaleSkip, world, Goto, Running, TreeIsKnown, AllWritten,
     CopyIsFound, WorkIsFound, EndIsMarked, LeftAsFound, SignalLeavesAsFound, Working, Mine, H

LEMMA LeaveKeeps == ScriptInv /\ (StaleStop \/ Raise) => ScriptInv'
<1> SUFFICES ASSUME ScriptInv, StaleStop \/ Raise PROVE ScriptInv'
  OBVIOUS
<1>1. pc \in {"edit", "test", "again"} /\ Leave
  BY DEF StaleStop, AnchorGone, Raise
<1>2. tree' \in [Mine -> Content] /\ (\A f \in work : tree'[f].work)
      /\ (TryCoversEdits => tree' = found)
  BY <1>1, LeaveFindsTree
<1>3. /\ pc' = "ended" /\ exit' = "failed"
      /\ UNCHANGED <<script, work, database, red, found, runs, copy, control, edit, wrong, missed>>
  BY DEF StaleStop, Raise, End, world
<1>4. TypeOK'
  BY <1>2, <1>3 DEF ScriptInv, TypeOK, Mine, Controls
<1> QED
  BY <1>2, <1>3, <1>4 DEF ScriptInv, TreeIsKnown, AllWritten, CopyIsFound, WorkIsFound,
     EndIsMarked, LeftAsFound, SignalLeavesAsFound, TryCoversEdits, Working, Mine, H, Controls

LEMMA WriteKeeps == ScriptInv /\ Write => ScriptInv'
<1> SUFFICES ASSUME ScriptInv, Write PROVE ScriptInv'
  OBVIOUS
<1>1. script \in Scripts /\ pc = "edit" /\ control \in DOMAIN Controls
      /\ Len(Edits) \in Nat /\ DOMAIN Edits = 1 .. Len(Edits) /\ edit \in DOMAIN Edits
      /\ Edits[edit] \in Mine
      /\ tree \in [Mine -> Content] /\ found \in [Mine -> Content]
  BY ScriptTyped DEF ScriptInv, Write, TypeOK, Edits
<1>2. /\ script' = script /\ found' = found /\ work' = work /\ copy' = copy
      /\ exit' = exit /\ control' = control /\ edit' = edit + 1
      /\ Mine' = Mine /\ H' = H /\ Controls' = Controls /\ Edits' = Edits
  BY DEF Write, world, Running, Mine, H, Controls, Edits
<1>3. /\ pc' \in {"edit", "test"}
      /\ IF edit = Len(Edits) THEN pc' = "test" ELSE pc' = "edit"
  BY DEF Write, Goto
<1>4. \/ tree' = [tree EXCEPT ![Edits[edit]].edits = @ \cup {<<control, edit>>}]
      \/ tree' = tree /\ edit \in Controls[control].uncounted
  BY DEF Write, Mutated
<1>5. tree' \in [Mine -> Content]
  <2>1. control \in Nat /\ edit \in Nat
    BY <1>1, ScriptTyped
  <2>2. [tree[Edits[edit]] EXCEPT !.edits = @ \cup {<<control, edit>>}] \in Content
    BY <1>1, <2>1 DEF Content
  <2> QED
    BY <1>1, <1>4, <2>2
<1>6. TypeOK'
  <2>1. edit + 1 \in Nat /\ (pc' = "edit" => edit + 1 \in DOMAIN Edits)
    BY <1>1, <1>3
  <2> QED
    BY <1>1, <1>2, <1>3, <1>5, <2>1 DEF ScriptInv, Write, TypeOK, world
<1>7. ASSUME NEW f \in Mine PROVE Mutates(f)'
  <2>1. /\ Written(f)' = Written(f) \cup (IF f = Edits[edit] THEN {<<control, edit>>} ELSE {})
        /\ Counted(f)' = Counted(f) \cup
             (IF f = Edits[edit] /\ edit \notin Controls[control].uncounted
              THEN {<<control, edit>>} ELSE {})
    BY <1>1, <1>2 DEF Written, Counted
  <2>2. Mutates(f)
    BY <1>1 DEF ScriptInv, TreeIsKnown, Working
  <2>3. CASE tree'[f] = tree[f] /\ (f = Edits[edit] => edit \in Controls[control].uncounted)
    BY <1>2, <2>1, <2>2, <2>3 DEF Mutates
  <2>4. CASE f = Edits[edit] /\ tree'[f].work = tree[f].work
             /\ tree'[f].edits = tree[f].edits \cup {<<control, edit>>}
    BY <1>2, <2>1, <2>2, <2>4 DEF Mutates
  <2>5. CASE f = Edits[edit]
             /\ tree' = [tree EXCEPT ![Edits[edit]].edits = @ \cup {<<control, edit>>}]
    <3>1. tree'[f] = [tree[f] EXCEPT !.edits = @ \cup {<<control, edit>>}]
      BY <1>1, <2>5
    <3>2. tree'[f].work = tree[f].work
          /\ tree'[f].edits = tree[f].edits \cup {<<control, edit>>}
      BY <1>1, <3>1 DEF Content
    <3> QED
      BY <2>4, <2>5, <3>2
  <2> QED
    BY <1>1, <1>4, <2>3, <2>5
<1>8. TreeIsKnown'
  BY <1>2, <1>3, <1>7 DEF TreeIsKnown
<1>9. CopyIsFound'
  <2>1. ASSUME H.copy = "undo", NEW k \in DOMAIN Edits, k < edit + 1
        PROVE  <<control, k>> \notin found[Edits[k]].edits
    <3>1. CASE k = edit
      <4>1. <<control, edit>> \notin tree[Edits[edit]].edits
        BY <2>1 DEF Write
      <4>2. found[Edits[edit]].edits \subseteq tree[Edits[edit]].edits
        BY <1>1 DEF ScriptInv, TreeIsKnown, Mutates, Working
      <4> QED
        BY <3>1, <4>1, <4>2
    <3>2. CASE k # edit
      BY <1>1, <2>1, <3>2 DEF ScriptInv, CopyIsFound, Working
    <3> QED
      BY <3>1, <3>2
  <2>2. H.copy = "start" => copy = found
    BY <1>1 DEF ScriptInv, CopyIsFound, Working
  <2>3. H.copy = "control" => \A f \in FilesOf(Controls[control]) : copy[f] = found[f]
    BY <1>1 DEF ScriptInv, CopyIsFound, Working
  <2>4. H.clean => \A f \in Mine : found[f] = Committed
    BY <1>1 DEF ScriptInv, CopyIsFound
  <2> QED
    BY <1>2, <2>1, <2>2, <2>3, <2>4 DEF CopyIsFound
<1>10. WorkIsFound'
  <2>1. \A f \in work : f \in Mine /\ found[f].work
    BY DEF ScriptInv, WorkIsFound, TypeOK
  <2>2. \A f \in Mine : tree'[f].work = found[f].work
    BY <1>2, <1>7 DEF Mutates
  <2> QED
    BY <1>2, <2>1, <2>2 DEF WorkIsFound
<1> QED
  BY <1>1, <1>2, <1>3, <1>6, <1>8, <1>9, <1>10 DEF ScriptInv, AllWritten, EndIsMarked,
     LeftAsFound, SignalLeavesAsFound

LEMMA RunTestsKeeps == ScriptInv /\ RunTests => ScriptInv'
<1> SUFFICES ASSUME ScriptInv, RunTests PROVE ScriptInv'
  OBVIOUS
<1>1. /\ UNCHANGED <<script, work, database, red, found, runs, tree, copy, control, edit, exit>>
      /\ pc = "test" /\ pc' = "restore"
      /\ wrong' \in BOOLEAN /\ missed' \in BOOLEAN
  BY DEF RunTests, Goto, Running, world, ScriptInv, TypeOK
<1>2. TypeOK'
  BY <1>1 DEF ScriptInv, TypeOK, Mine, Controls, Edits
<1>3. TreeIsKnown'
  BY <1>1 DEF ScriptInv, TreeIsKnown, Mutates, Written, Counted, Working, Mine, Edits, Controls
<1> QED
  BY <1>1, <1>2, <1>3 DEF ScriptInv, AllWritten, CopyIsFound, WorkIsFound,
     EndIsMarked, LeftAsFound, SignalLeavesAsFound, Working, Mine, H, Controls, Edits

LEMMA PutBackKeeps == ScriptInv /\ (PutBack \/ PutBackAgain) => ScriptInv'
<1> SUFFICES ASSUME ScriptInv, PutBack \/ PutBackAgain PROVE ScriptInv'
  OBVIOUS
<1>1. /\ UNCHANGED <<script, work, database, red, found, runs, copy, control, edit, exit,
                       wrong, missed>>
      /\ \/ pc = "restore" /\ pc' = "verify"
         \/ pc = "again" /\ pc' = "next"
      /\ Restore(FilesOf(Controls[control]))
  BY DEF PutBack, PutBackAgain, Goto, Running, world
<1>2. tree' = found
  BY <1>1, RestoreFindsTree DEF Working
<1>3. TypeOK'
  BY <1>1, <1>2 DEF ScriptInv, TypeOK, Mine, Controls, Edits
<1> QED
  BY <1>1, <1>2, <1>3 DEF ScriptInv, TreeIsKnown, AllWritten, CopyIsFound, WorkIsFound,
     EndIsMarked, LeftAsFound, SignalLeavesAsFound, Working, Mine, H, Controls, Edits

LEMMA VerifyKeeps == ScriptInv /\ Verify => ScriptInv'
<1> SUFFICES ASSUME ScriptInv, Verify PROVE ScriptInv'
  OBVIOUS
<1>1. /\ UNCHANGED <<script, work, database, red, found, runs, tree, copy, control, edit, missed>>
      /\ pc = "verify" /\ wrong' \in BOOLEAN
      /\ pc' = "next" /\ exit' = exit
  BY DEF Verify, Goto, Running, world, ScriptInv, TypeOK, TreeIsKnown
<1>2. TypeOK'
  BY <1>1 DEF ScriptInv, TypeOK, Mine, Controls, Edits
<1> QED
  BY <1>1, <1>2 DEF ScriptInv, TreeIsKnown, AllWritten, CopyIsFound, WorkIsFound,
     EndIsMarked, LeftAsFound, SignalLeavesAsFound, Working, Mine, H, Controls, Edits

LEMMA ReapplyKeeps == ScriptInv /\ Reapply => ScriptInv'
<1> SUFFICES ASSUME ScriptInv, Reapply PROVE ScriptInv'
  OBVIOUS
<1>1. /\ UNCHANGED <<script, work, database, red, found, runs, copy, control, edit, exit,
                       wrong, missed>>
      /\ pc = "verify" /\ pc' = "again" /\ H.again /\ tree = found
      /\ control \in DOMAIN Controls /\ script \in Scripts
      /\ found \in [Mine -> Content]
      /\ tree' = [f \in Mine |-> [found[f] EXCEPT !.edits = @ \cup Written(f)]]
  BY DEF Reapply, Goto, Running, world, ScriptInv, TypeOK, TreeIsKnown
<1>2. tree' \in [Mine -> Content]
  <2>1. \A f : Written(f) \subseteq Nat \X Nat
    BY <1>1, ScriptTyped DEF Written, Edits
  <2> QED
    BY <1>1, <2>1 DEF Content
<1>3. ASSUME NEW f \in Mine PROVE Mutates(f)'
  <2>1. Written(f)' = Written(f) /\ Counted(f)' = Counted(f) /\ Counted(f) \subseteq Written(f)
    BY <1>1 DEF Written, Counted, Edits, Controls
  <2>2. tree'[f] = [found[f] EXCEPT !.edits = @ \cup Written(f)] /\ found' = found
    BY <1>1
  <2>3. tree'[f].work = found[f].work /\ tree'[f].edits = found[f].edits \cup Written(f)
    BY <1>1, <2>2 DEF Content
  <2> QED
    BY <2>1, <2>2, <2>3 DEF Mutates
<1>4. TreeIsKnown'
  BY <1>1, <1>3 DEF TreeIsKnown, Mine
<1>5. TypeOK'
  BY <1>1, <1>2 DEF ScriptInv, TypeOK, Mine, Controls, Edits
<1>6. WorkIsFound'
  BY <1>1 DEF ScriptInv, WorkIsFound, Content, TypeOK, Mine
<1> QED
  BY <1>1, <1>4, <1>5, <1>6 DEF ScriptInv, AllWritten, CopyIsFound,
     EndIsMarked, LeftAsFound, SignalLeavesAsFound, Working, Mine, H, Controls, Edits

LEMMA FinishKeeps == ScriptInv /\ Finish => ScriptInv'
<1> SUFFICES ASSUME ScriptInv, Finish PROVE ScriptInv'
  OBVIOUS
<1>1. /\ UNCHANGED <<script, work, database, red, found, runs, copy, control, edit, wrong, missed>>
      /\ pc = "next" /\ pc' = "ended" /\ exit' \in {"zero", "failed"}
      /\ tree = found /\ found \in [Mine -> Content] /\ script \in Scripts
  BY DEF Finish, End, world, ScriptInv, TreeIsKnown, TypeOK
<1>2. tree' = found
  <2>1. CASE H.scope = "run"
    <3>1. H.copy = "start"
      BY <1>1, <2>1, HarnessesRestore DEF H
    <3>2. copy = found
      BY <1>1, <3>1 DEF ScriptInv, CopyIsFound
    <3> QED
      BY <1>1, <2>1, <3>1, <3>2 DEF Finish, Restore, Restored
  <2> QED
    BY <1>1, <2>1 DEF Finish
<1>3. TypeOK'
  BY <1>1, <1>2 DEF ScriptInv, TypeOK, Mine, Controls, Edits
<1> QED
  BY <1>1, <1>2, <1>3 DEF ScriptInv, TreeIsKnown, AllWritten, CopyIsFound, WorkIsFound,
     EndIsMarked, LeftAsFound, SignalLeavesAsFound, Working, Mine, H, Controls, Edits

LEMMA SignalKeeps == ScriptInv /\ Signal => ScriptInv'
<1> SUFFICES ASSUME ScriptInv, Signal PROVE ScriptInv'
  OBVIOUS
<1>1. /\ UNCHANGED <<script, work, database, red, found, runs, copy, control, edit, wrong, missed>>
      /\ pc \in Working /\ pc' = "ended" /\ exit' = "killed"
      /\ tree \in [Mine -> Content] /\ found \in [Mine -> Content] /\ script \in Scripts
      /\ control \in DOMAIN Controls
  BY DEF Signal, End, world, ScriptInv, TypeOK, Working
<1>2. IF H.handler THEN tree' = found ELSE tree' = tree
  <2>1. CASE H.handler /\ H.copy = "start"
    BY <1>1, <2>1, RestoreFindsTree, ScriptTyped DEF Signal
  <2>2. CASE H.handler /\ H.copy # "start"
    BY <1>1, <2>2, RestoreFindsTree DEF Signal
  <2> QED
    BY <2>1, <2>2 DEF Signal
<1>3. TypeOK'
  BY <1>1, <1>2 DEF ScriptInv, TypeOK, Mine, Controls, Edits
<1> QED
  BY <1>1, <1>2, <1>3 DEF ScriptInv, TreeIsKnown, AllWritten, CopyIsFound, WorkIsFound,
     EndIsMarked, LeftAsFound, SignalLeavesAsFound, Working, Mine, H, Controls, Edits

LEMMA RerunKeeps == ScriptInv /\ Rerun => ScriptInv'
<1> SUFFICES ASSUME ScriptInv, Rerun PROVE ScriptInv'
  OBVIOUS
<1>1. TypeOK'
  <2>1. 0 \in 0 .. Len(Controls) /\ runs + 1 \in 1 .. Runs /\ red' \in BOOLEAN
    BY ScriptTyped, ScriptsAreWellFormed DEF ScriptInv, TypeOK, Rerun
  <2> QED
    BY <2>1 DEF ScriptInv, Rerun, TypeOK, Goto, Mine, Controls, Edits
<1> QED
  BY <1>1 DEF ScriptInv, Rerun, Goto, TreeIsKnown, AllWritten, CopyIsFound, WorkIsFound,
     EndIsMarked, LeftAsFound, SignalLeavesAsFound, Working, Mine, H, Controls, Edits

LEMMA NextScript == ScriptInv /\ [Next]_vars => ScriptInv'
<1> SUFFICES ASSUME ScriptInv, [Next]_vars PROVE ScriptInv'
  OBVIOUS
<1>1. CASE Campaign
  BY <1>1, PreflightKeeps, BaselineKeeps, NextControlKeeps, StaleSkipKeeps, LeaveKeeps, WriteKeeps,
     RunTestsKeeps, PutBackKeeps, VerifyKeeps, ReapplyKeeps, FinishKeeps DEF Campaign
<1>2. CASE Raise \/ Signal \/ Rerun
  BY <1>2, LeaveKeeps, SignalKeeps, RerunKeeps
<1>3. CASE UNCHANGED vars
  BY <1>3 DEF vars, ScriptInv, TypeOK, TreeIsKnown, Mutates, Written, Counted, AllWritten, CopyIsFound, WorkIsFound,
     EndIsMarked, LeftAsFound, SignalLeavesAsFound, TryCoversEdits, Mine, H, Controls, Edits
<1> QED
  BY <1>1, <1>2, <1>3 DEF Next

THEOREM ScriptInvHolds == Spec => []ScriptInv
BY InitScript, NextScript, PTL DEF Spec

\* Every variable stays in its set, for every set of scripts.
THEOREM TypeCorrect == Spec => []TypeOK
BY ScriptInvHolds, PTL DEF ScriptInv

\* A script whose `try` covers its edits leaves every file as it found it,
\* refused, stopped, failed or finished (main and control of the scripts).
THEOREM FilesComeBack == Spec => []LeftAsFound
BY ScriptInvHolds, PTL DEF ScriptInv

\* A handler brings them back when the run is killed (restore_on_signal).
THEOREM SignalsAreSurvived == Spec => []SignalLeavesAsFound
BY ScriptInvHolds, PTL DEF ScriptInv

\* Uncommitted work is never lost, also where git restores (preflight,
\* clean_tree).
THEOREM NoWorkIsLost == Spec => []WorkKept
<1>1. ScriptInv => WorkKept
  BY DEF ScriptInv, WorkIsFound, WorkKept
<1> QED
  BY <1>1, ScriptInvHolds, PTL

\* A verdict is about the edits of its control and nothing else, and every
\* edit that was counted is there.
THEOREM VerdictsAreAttributed == Spec => []Attribution
<1>1. ASSUME ScriptInv, pc = "test", NEW f \in Mine
      PROVE  LET own == {k \in DOMAIN Edits : Edits[k] = f}
             IN  /\ tree[f].work = found[f].work
                 /\ found[f].edits \subseteq tree[f].edits
                 /\ tree[f].edits \subseteq found[f].edits \cup {<<control, k>> : k \in own}
                 /\ \A k \in own \ Controls[control].uncounted : Applied(k)
  <2>1. edit = Len(Edits) + 1 /\ Len(Edits) \in Nat /\ DOMAIN Edits = 1 .. Len(Edits)
    BY <1>1, ScriptTyped DEF ScriptInv, TypeOK, AllWritten, Edits
  <2>2. Mutates(f)
    BY <1>1 DEF ScriptInv, TreeIsKnown, Working
  <2>3. Written(f) = {<<control, k>> : k \in {n \in DOMAIN Edits : Edits[n] = f}}
    BY <2>1 DEF Written
  <2>4. \A k \in DOMAIN Edits \ Controls[control].uncounted : Edits[k] = f => Applied(k)
    BY <2>1, <2>2 DEF Mutates, Counted, Applied
  <2> QED
    BY <2>2, <2>3, <2>4 DEF Mutates
<1>2. ScriptInv => Attribution
  BY <1>1 DEF Attribution
<1> QED
  BY <1>2, ScriptInvHolds, PTL

-----------------------------------------------------------------------------
(* Why status 0 is earned: what was missed has been counted, or the suite   *)
(* was red and the controls that predict green have counted that.           *)

Judged == {"next", "restore", "verify", "again"}

VerdictsCounted ==
    /\ pc \in {"start", "baseline"} => ~ missed /\ control = 0
    /\ Discriminates /\ pc \notin {"start", "baseline", "ended"} =>
         /\ H.baseline = "refuse" => ~ red
         /\ H.baseline = "count" /\ red => wrong
         /\ H.baseline = "none" /\ red =>
              \A c \in 1 .. control :
                 Controls[c].predict = "green" /\ (c < control \/ pc \in Judged) => wrong
         /\ missed => wrong \/ (H.baseline = "none" /\ red)
    /\ PassIsEarned

EarnedInv == ScriptInv /\ VerdictsCounted

LEMMA TestsCounted == EarnedInv /\ RunTests => VerdictsCounted'
<1> SUFFICES ASSUME EarnedInv, RunTests PROVE VerdictsCounted'
  OBVIOUS
<1>1. /\ UNCHANGED <<script, red, control, exit>> /\ H' = H /\ Controls' = Controls
      /\ pc = "test" /\ pc' = "restore" /\ exit = "no"
      /\ script \in Scripts /\ control \in DOMAIN Controls
      /\ Controls[control] \in ControlType(Files)
  BY ScriptTyped
     DEF RunTests, Goto, Running, world, EarnedInv, ScriptInv, TypeOK, EndIsMarked, H, Controls
<1>2. PICK outcome \in Outcomes :
        /\ wrong' = (wrong \/ ~ AsPredicted(Scored(outcome)))
        /\ missed' = \/ missed \/ ~ AsPredicted(outcome)
                     \/ red /\ H.baseline \in {"none", "count"}
                     \/ /\ Controls[control].predict # "any"
                        /\ \E k \in DOMAIN Edits : ~ Applied(k)
  BY DEF RunTests
<1>3. Discriminates' <=> Discriminates
  BY <1>1 DEF Discriminates
<1>4. ASSUME Discriminates, ~ AsPredicted(outcome) PROVE wrong'
  <2>1. outcome \in {"red", "green", "void"} /\ Controls[control].void # Controls[control].predict
    BY <1>1, <1>4 DEF Outcomes, Discriminates
  <2>2. ~ AsPredicted(Scored(outcome))
    BY <1>1, <1>4, <2>1 DEF AsPredicted, Scored
  <2> QED
    BY <1>2, <2>2
<1>5. ASSUME Discriminates, red, H.baseline = "none", Controls[control].predict = "green"
      PROVE  wrong'
  <2>1. outcome \in {"red", "void"}
    BY <1>5 DEF Outcomes, StaysRed
  <2> QED
    BY <1>4, <1>5, <2>1 DEF AsPredicted
<1>6. wrong => wrong'
  BY <1>2
<1>7. ASSUME Discriminates, H.baseline = "none", red,
             NEW c \in 1 .. control, Controls[c].predict = "green"
      PROVE  wrong'
  <2>1. CASE c = control
    BY <1>5, <1>7, <2>1
  <2>2. CASE c # control
    <3>1. c < control
      BY <1>1, <1>7, <2>2, ScriptTyped
    <3> QED
      BY <1>1, <1>6, <1>7, <3>1 DEF EarnedInv, VerdictsCounted
  <2> QED
    BY <2>1, <2>2
<1>8. ASSUME Discriminates
      PROVE  (H.baseline = "refuse" => ~ red) /\ (H.baseline = "count" /\ red => wrong)
  BY <1>1, <1>8 DEF EarnedInv, VerdictsCounted
<1>9. ASSUME Discriminates, Controls[control].predict # "any", NEW k \in DOMAIN Edits, ~ Applied(k)
      PROVE  wrong' \/ (H.baseline = "none" /\ red)
  \* An edit that is missing is the whole of a control that predicts red: the
  \* suite says of it what it said before.
  <2>1. edit = Len(Edits) + 1 /\ Len(Edits) \in Nat /\ DOMAIN Edits = 1 .. Len(Edits)
        /\ Edits[k] \in Mine
    BY <1>1, ScriptTyped DEF EarnedInv, ScriptInv, AllWritten, Edits
  <2>2. k \in Controls[control].uncounted
    <3>1. Counted(Edits[k]) \subseteq tree[Edits[k]].edits
      BY <1>1, <2>1 DEF EarnedInv, ScriptInv, TreeIsKnown, Working, Mutates
    <3> QED
      BY <1>9, <2>1, <3>1 DEF Counted, Applied
  <2>3. Controls[control].predict = "red" /\ Len(Edits) = 1
    BY <1>1, <1>9, <2>2 DEF Discriminates, Edits
  <2>4. NothingApplied
    <3>1. DOMAIN Edits = {k}
      BY <1>9, <2>1, <2>3
    <3> QED
      BY <1>9, <3>1 DEF NothingApplied
  <2>5. CASE StaysRed
    BY <1>1, <1>6, <1>8, <1>9, <2>5, ScriptTyped DEF StaysRed, HarnessType
  <2>6. CASE ~ StaysRed
    <3>1. outcome = "green"
      BY <2>4, <2>6 DEF Outcomes
    <3> QED
      BY <1>4, <1>9, <2>3, <3>1 DEF AsPredicted
  <2> QED
    BY <2>5, <2>6
<1>10. ASSUME Discriminates, missed' PROVE wrong' \/ (H.baseline = "none" /\ red)
  BY <1>1, <1>2, <1>4, <1>6, <1>8, <1>9, <1>10 DEF EarnedInv, VerdictsCounted
<1> QED
  BY <1>1, <1>3, <1>6, <1>7, <1>8, <1>10 DEF VerdictsCounted, PassIsEarned

LEMMA FinishEarned == EarnedInv /\ Finish => VerdictsCounted'
<1> SUFFICES ASSUME EarnedInv, Finish PROVE VerdictsCounted'
  OBVIOUS
<1>1. /\ UNCHANGED <<script, red, control, wrong, missed>> /\ H' = H /\ Controls' = Controls
      /\ pc = "next" /\ pc' = "ended" /\ control = Len(Controls) /\ script \in Scripts
      /\ exit' = IF H.exit = "verdicts" /\ wrong THEN "failed" ELSE "zero"
  BY DEF Finish, End, world, EarnedInv, ScriptInv, TypeOK, H, Controls
<1>2. Discriminates' <=> Discriminates
  BY <1>1 DEF Discriminates
<1>3. ASSUME Discriminates, exit' = "zero", missed PROVE FALSE
  <2>1. ~ wrong
    BY <1>1, <1>3 DEF Discriminates
  <2>2. H.baseline = "none" /\ red
    BY <1>1, <1>3, <2>1 DEF EarnedInv, VerdictsCounted
  <2>3. PICK c \in DOMAIN Controls : Controls[c].predict = "green"
    BY <1>3, <2>2 DEF Discriminates
  <2>4. c \in 1 .. control
    BY <1>1, ScriptTyped
  <2> QED
    BY <1>1, <1>3, <2>1, <2>2, <2>3, <2>4 DEF EarnedInv, VerdictsCounted, Judged
<1> QED
  BY <1>1, <1>2, <1>3 DEF VerdictsCounted, PassIsEarned

LEMMA NextEarned == EarnedInv /\ [Next]_vars => EarnedInv'
<1> SUFFICES ASSUME EarnedInv, [Next]_vars PROVE VerdictsCounted'
  BY NextScript DEF EarnedInv
<1>0. script \in Scripts /\ control \in 0 .. Len(Controls) /\ Len(Controls) \in Nat
  BY ScriptTyped DEF EarnedInv, ScriptInv, TypeOK
<1>1. CASE Preflight
  BY <1>1 DEF EarnedInv, VerdictsCounted, Preflight, Goto, End, Running, world, PassIsEarned
<1>2. CASE Baseline
  <2>1. /\ UNCHANGED <<script, red, missed, control>> /\ H' = H /\ Controls' = Controls
        /\ control = 0 /\ ~ missed
    BY <1>2 DEF Baseline, world, H, Controls, EarnedInv, VerdictsCounted
  <2>2. Discriminates' <=> Discriminates
    BY <2>1 DEF Discriminates
  <2>3. CASE pc' = "ended" /\ exit' = "refused"
    BY <2>1, <2>3 DEF VerdictsCounted, PassIsEarned
  <2>4. CASE /\ pc' = "next" /\ exit' = exit /\ ~ (red /\ H.baseline = "refuse")
             /\ wrong' = (wrong \/ (red /\ H.baseline = "count"))
    <3>1. 1 .. control' = {}
      BY <2>1
    <3> QED
      BY <2>1, <2>2, <2>4, <3>1 DEF VerdictsCounted, PassIsEarned
  <2> QED
    BY <1>2, <2>3, <2>4 DEF Baseline, Goto, End, Running
<1>3. CASE NextControl
  BY <1>0, <1>3 DEF EarnedInv, ScriptInv, EndIsMarked, VerdictsCounted, NextControl, Goto, Running,
     world, PassIsEarned, Discriminates, H, Controls, Judged
<1>4. CASE StaleSkip
  <2>1. /\ UNCHANGED <<script, red, control>> /\ H' = H /\ Controls' = Controls
        /\ pc = "edit" /\ pc' = "next" /\ exit' = exit /\ exit = "no"
        /\ control \in DOMAIN Controls
    BY <1>4 DEF StaleSkip, AnchorGone, Goto, Running, world, H, Controls, EarnedInv, ScriptInv,
       EndIsMarked, TypeOK
  <2>2. Discriminates' <=> Discriminates
    BY <2>1 DEF Discriminates
  <2>3. /\ wrong => wrong'
        /\ missed' => missed \/ Controls[control].predict # "any"
        /\ Discriminates /\ Controls[control].predict # "any" => wrong'
    <3>1. Discriminates /\ Controls[control].predict # "any" => ~ Controls[control].marker
      BY <2>1 DEF Discriminates
    <3> QED
      BY <1>4, <3>1 DEF StaleSkip, CountsAsFailed, Forgone
  <2>4. ASSUME Discriminates, H.baseline = "none", red,
               NEW c \in 1 .. control, Controls[c].predict = "green"
        PROVE  wrong'
    <3>1. CASE c = control
      BY <2>3, <2>4, <3>1
    <3>2. CASE c # control
      <4>1. c < control
        BY <1>0, <2>4, <3>2
      <4> QED
        BY <2>1, <2>3, <2>4, <4>1 DEF EarnedInv, VerdictsCounted
    <3> QED
      BY <3>1, <3>2
  <2>5. Discriminates =>
          /\ H.baseline = "refuse" => ~ red
          /\ H.baseline = "count" /\ red => wrong
          /\ missed => wrong \/ (H.baseline = "none" /\ red)
    BY <2>1 DEF EarnedInv, VerdictsCounted
  <2> QED
    BY <2>1, <2>2, <2>3, <2>4, <2>5 DEF VerdictsCounted, PassIsEarned
<1>5. CASE Write
  BY <1>0, <1>5 DEF EarnedInv, ScriptInv, EndIsMarked, VerdictsCounted, Write, Goto, Running,
     world, PassIsEarned, Discriminates, H, Controls, Judged
<1>6. CASE RunTests
  BY <1>6, TestsCounted
<1>7. CASE PutBack \/ PutBackAgain \/ Reapply
  BY <1>0, <1>7 DEF EarnedInv, ScriptInv, EndIsMarked, VerdictsCounted, PutBack, PutBackAgain,
     Reapply, Goto, Running, world, PassIsEarned, Discriminates, H, Controls, Judged
<1>8. CASE Verify
  BY <1>0, <1>8 DEF EarnedInv, ScriptInv, EndIsMarked, TreeIsKnown, TypeOK, VerdictsCounted,
     Verify, Goto, Running, world, PassIsEarned, Discriminates, H, Controls, Judged
<1>9. CASE Finish
  BY <1>9, FinishEarned
<1>10. CASE StartupStale \/ StaleStop \/ Raise \/ Signal
  BY <1>10 DEF EarnedInv, VerdictsCounted, StartupStale, StaleStop, Raise, Signal, End, PassIsEarned
<1>11. CASE Rerun
  BY <1>11 DEF VerdictsCounted, Rerun, Goto, PassIsEarned
<1>12. CASE UNCHANGED vars
  BY <1>12 DEF EarnedInv, VerdictsCounted, vars, PassIsEarned, Discriminates, H, Controls
<1> QED
  BY <1>1, <1>2, <1>3, <1>4, <1>5, <1>6, <1>7, <1>8, <1>9, <1>10, <1>11, <1>12
     DEF Next, Campaign

\* A script that can tell returns 0 only when every control was applied and did
\* what it predicts on a green suite (the verdicts at the end of main).
THEOREM PassesAreEarned == Spec => []PassIsEarned
<1>1. Init => VerdictsCounted
  BY DEF Init, VerdictsCounted, PassIsEarned
<1>2. Init => EarnedInv
  BY <1>1, InitScript DEF EarnedInv
<1>3. EarnedInv => PassIsEarned
  BY DEF EarnedInv, VerdictsCounted
<1> QED
  BY <1>2, <1>3, NextEarned, PTL DEF Spec

-----------------------------------------------------------------------------
(***************************************************************************)
(* The guards.  A guard keeps one invariant, that the merged tree passes it; *)
(* what a merge does to the lists follows from its rules at the two ends of *)
(* the merge.                                                              *)
(***************************************************************************)

-----------------------------------------------------------------------------
(* check-control-anchors.py.                                               *)

\* What is merged has passed the census.
AnchorInv == AnchorsPass(anchorMain)

LEMMA AnchorInvHolds == AnchorSpec => []AnchorInv
<1>1. AnchorInit => AnchorInv
  BY DEF AnchorInit, AnchorInv
<1>2. AnchorInv /\ [AnchorNext]_anchorVars => AnchorInv'
  <2> SUFFICES ASSUME AnchorInv, [AnchorNext]_anchorVars PROVE AnchorInv'
    OBVIOUS
  <2>1. CASE UNCHANGED anchorMain
    BY <2>1 DEF AnchorInv
  <2>2. CASE MergeAnchors
    BY <2>2 DEF MergeAnchors, AnchorInv
  <2> QED
    BY <2>1, <2>2 DEF AnchorNext, anchorVars, EditTarget, MoveFile, Reshape, ListDead,
       Unlist, WorkOnAnchors, AbandonAnchors
<1> QED
  BY <1>1, <1>2, PTL DEF AnchorSpec

\* An entry of KNOWN_DEAD whose key no other row has is about a dead control.
LEMMA ListedIsDead ==
    ASSUME NEW t, AnchorsPass(t), NEW r \in AnchorRows, Alone(r), Key(r) \in t.knownDead
    PROVE  ~ Applies(t, r)
<1>1. PICK q \in Keyed(t, Key(r)) : ~ Applies(t, q)
  BY DEF AnchorsPass, ListShrinks
<1>2. q \in AnchorRows /\ Key(q) = Key(r)
  BY <1>1 DEF Keyed, Results, Read, Considered
<1> QED
  BY <1>1, <1>2 DEF Alone

\* A control that died without another row of its key is entered by the merge
\* that killed it, whatever KNOWN_DEAD said before.
THEOREM DeathsOfControlsAreListed == AnchorSpec => DeathsAreListed
<1>1. AnchorInv /\ AnchorInv' /\ [AnchorNext]_anchorVars =>
        [ \A r \in AnchorRows :
            /\ Alone(r)
            /\ r \in Read(anchorMain) /\ Applies(anchorMain, r)
            /\ r \in Read(anchorMain') /\ ~ Applies(anchorMain', r)
            => Key(r) \in anchorMain'.knownDead \ anchorMain.knownDead ]_anchorVars
  <2> SUFFICES ASSUME AnchorInv, AnchorInv', NEW r \in AnchorRows, Alone(r),
                      Applies(anchorMain, r), r \in Read(anchorMain'), ~ Applies(anchorMain', r)
               PROVE  Key(r) \in anchorMain'.knownDead /\ Key(r) \notin anchorMain.knownDead
    OBVIOUS
  <2>1. Key(r) \notin anchorMain.knownDead
    BY ListedIsDead DEF AnchorInv
  <2>2. r \in Bad(anchorMain')
    BY DEF Bad, Results
  <2>3. NoneUnaccounted(anchorMain')
    BY DEF AnchorInv, AnchorsPass
  <2> QED
    BY <2>1, <2>2, <2>3 DEF NoneUnaccounted
<1> QED
  BY <1>1, AnchorInvHolds, PTL DEF DeathsAreListed, AnchorSpec
-----------------------------------------------------------------------------
(* check-restore-signal-handlers.py.                                       *)

\* What is merged has passed the rules.
HandlerInv == HandlersPass(handlerMain)

LEMMA HandlerInvHolds == HandlerSpec => []HandlerInv
<1>1. HandlerInit => HandlerInv
  BY DEF HandlerInit, HandlerInv
<1>2. HandlerInv /\ [HandlerNext]_handlerVars => HandlerInv'
  <2> SUFFICES ASSUME HandlerInv, [HandlerNext]_handlerVars PROVE HandlerInv'
    OBVIOUS
  <2>1. CASE UNCHANGED handlerMain
    BY <2>1 DEF HandlerInv
  <2>2. CASE MergeHandlers
    BY <2>2 DEF MergeHandlers, HandlerInv
  <2> QED
    BY <2>1, <2>2 DEF HandlerNext, handlerVars, Rewrite, EditLists, WorkOnHandlers, AbandonHandlers
<1> QED
  BY <1>1, <1>2, PTL DEF HandlerSpec

\* A script that lost its handler or its `finally` is entered in a list by the
\* merge that took it, whatever the lists said before.
THEOREM LossesOfProtectionAreListed == HandlerSpec => LossesAreListed
<1>1. HandlerInv /\ HandlerInv' =>
        [ \A s \in Narrow(handlerMain) \cap Protected(handlerMain) :
            /\ Strands(handlerMain', s)
            /\ s \in Narrow(handlerMain') \cup Wide(handlerMain')
            /\ s \notin Excused(handlerMain)
            => \/ s \in handlerMain'.UNPROTECTED \ handlerMain.UNPROTECTED
               \/ s \in handlerMain'.HAPPY_PATH_ONLY \ handlerMain.HAPPY_PATH_ONLY
               \/ s \in Excused(handlerMain') ]_handlerVars
  <2> SUFFICES ASSUME HandlerInv, HandlerInv',
                      NEW s \in Narrow(handlerMain) \cap Protected(handlerMain),
                      Strands(handlerMain', s), s \in Narrow(handlerMain') \cup Wide(handlerMain')
               PROVE  \/ s \in handlerMain'.UNPROTECTED \ handlerMain.UNPROTECTED
                      \/ s \in handlerMain'.HAPPY_PATH_ONLY \ handlerMain.HAPPY_PATH_ONLY
                      \/ s \in Excused(handlerMain')
    OBVIOUS
  <2>1. s \notin handlerMain.UNPROTECTED /\ s \notin handlerMain.HAPPY_PATH_ONLY
    BY DEF HandlerInv, HandlersPass, FixedAreUnlisted
  <2>2. s \notin Protected(handlerMain')
    BY DEF Protected, Strands
  <2>3. s \in Narrow(handlerMain') => s \in handlerMain'.UNPROTECTED
    BY <2>2 DEF HandlerInv, HandlersPass, AllProtected
  <2>4. s \notin Narrow(handlerMain') =>
          s \in Excused(handlerMain') \/ s \in handlerMain'.HAPPY_PATH_ONLY
    BY DEF HandlerInv, HandlersPass, AllInFinally
  <2> QED
    BY <2>1, <2>3, <2>4
<1> QED
  BY <1>1, HandlerInvHolds, PTL DEF LossesAreListed, HandlerSpec
=============================================================================
