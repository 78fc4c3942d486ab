----------------------------- MODULE AnchorGuard -----------------------------
(***************************************************************************)
(* check-control-anchors.py, which CI runs with --ci before a merge, over  *)
(* a history of merges: the code under the anchors changes, control        *)
(* scripts are rewritten, and people edit the list KNOWN_DEAD.             *)
(*                                                                         *)
(* A row is an anchor as a script writes it: the file it is looked for in, *)
(* how often it must occur there, and where in the census it comes.  The   *)
(* lists name it by script and hash of the anchor, which two rows may      *)
(* share.  NOT_ANCHORS is empty.                                           *)
(***************************************************************************)
EXTENDS Integers, FiniteSets

CONSTANTS
    AnchorRows,     \* [script, anchor, path, want, at]
    Declared,       \* ROW_SCHEMA: scripts whose rows have a declared column
    Scoped,         \* SCOPED: keys counted after a marker only
    AnchorFloors,   \* [scripts, anchors, bareScripts, bareAnchors]
    MaxCount,       \* bound: occurrences of an anchor in a file
    MaxAnchorEdits  \* bound: changes in one branch

Key(r) == <<r.script, r.anchor>>
Keys == {Key(r) : r \in AnchorRows}
AnchorScripts == {r.script : r \in AnchorRows}
Paths == {r.path : r \in AnchorRows}
RowsOf(s) == {r \in AnchorRows : r.script = s}

\* Where an anchor is looked for by any script.
Spots == UNION {{<<r.anchor, q.path>> : q \in RowsOf(r.script)} : r \in AnchorRows}

VARIABLES
    anchorBranch,  \* the tree somebody works on
    anchorMain,    \* main: the last tree for which the guard has passed
    anchorEdits    \* changes of the branch since then

anchorVars == <<anchorBranch, anchorMain, anchorEdits>>

\* How a script keeps its anchors: in rows the census finds, in constants it
\* sees used as anchors, or so that it cannot be read.
Shapes == {"table", "constants", "unread"}

\* An anchor counted after a marker that is not there occurs 0 times.
AnchorTree == [files : SUBSET Paths, count : [Spots -> 0 .. MaxCount],
               shape : [AnchorScripts -> Shapes], knownDead : SUBSET Keys]

-----------------------------------------------------------------------------
(* The census.                                                             *)

\* A constant, one for all rows of its key, is looked for in all files of its
\* script together; without a file the script is not read.
Targets(t, s) == {r.path : r \in RowsOf(s)} \cap t.files
Considered(t) == {r \in AnchorRows :
    /\ t.shape[r.script] = "constants" /\ Targets(t, r.script) # {}
    /\ \A q \in AnchorRows : Key(q) = Key(r) => r.at <= q.at}

Applies(t, r) ==
    IF t.shape[r.script] = "constants"
      THEN \E p \in Targets(t, r.script) : t.count[<<r.anchor, p>>] > 0
      ELSE r.path \in t.files /\ t.count[<<r.anchor, r.path>>] = r.want

Read(t) == {r \in AnchorRows : t.shape[r.script] = "table"} \cup Considered(t)

\* A constant makes a row of the census only when it is dead.
Results(t) == {r \in Read(t) : t.shape[r.script] = "table" \/ ~ Applies(t, r)}
Bad(t) == {r \in Results(t) : ~ Applies(t, r)}

\* The last row of a key hides the others.
Keyed(t, k) ==
    {r \in Results(t) : Key(r) = k /\ \A q \in Results(t) : Key(q) = k => q.at <= r.at}

-----------------------------------------------------------------------------
(* The rules.                                                              *)

NoneUnaccounted(t) == \A r \in Bad(t) : Key(r) \in t.knownDead

\* Fault: an entry is stale only when its anchor is gone from the census.
ListShrinksWhenGone(t) == \A k \in t.knownDead : Keyed(t, k) # {}

ListShrinks(t) == \A k \in t.knownDead : \E r \in Keyed(t, k) : ~ Applies(t, r)

DeclaredAreRead(t) == \A s \in Declared : \E r \in Results(t) : r.script = s
ScopedAreRead(t) == \A k \in Scoped : \E r \in Results(t) : Key(r) = k

AnchorFloorsHold(t) ==
    /\ Cardinality({r.script : r \in Results(t)}) >= AnchorFloors.scripts
    /\ Cardinality(Results(t)) >= AnchorFloors.anchors
    /\ Cardinality({r.script : r \in Considered(t)}) >= AnchorFloors.bareScripts
    /\ Cardinality(Considered(t)) >= AnchorFloors.bareAnchors

AnchorsPass(t) ==
    /\ NoneUnaccounted(t) /\ ListShrinks(t)
    /\ DeclaredAreRead(t) /\ ScopedAreRead(t) /\ AnchorFloorsHold(t)

-----------------------------------------------------------------------------
AnchorInit ==
    /\ anchorMain \in AnchorTree /\ AnchorsPass(anchorMain)
    /\ anchorBranch = anchorMain /\ anchorEdits = 0

WorkOnAnchors(t) ==
    /\ anchorEdits < MaxAnchorEdits
    /\ anchorBranch' = t /\ anchorBranch' # anchorBranch
    /\ anchorEdits' = anchorEdits + 1
    /\ UNCHANGED anchorMain

\* The code around an anchor is changed: "every one was killed by a fix".
EditTarget == \E x \in Spots, n \in 0 .. MaxCount :
    WorkOnAnchors([anchorBranch EXCEPT !.count[x] = n])

MoveFile == \E p \in Paths :
    \/ WorkOnAnchors([anchorBranch EXCEPT !.files = @ \ {p}])
    \/ WorkOnAnchors([anchorBranch EXCEPT !.files = @ \cup {p}])

\* A script keeps its anchors elsewhere, or the census cannot read it any more.
Reshape == \E s \in AnchorScripts, shape \in Shapes :
    WorkOnAnchors([anchorBranch EXCEPT !.shape[s] = shape])

ListDead == \E k \in Keys : WorkOnAnchors([anchorBranch EXCEPT !.knownDead = @ \cup {k}])
Unlist == \E k \in anchorBranch.knownDead : WorkOnAnchors([anchorBranch EXCEPT !.knownDead = @ \ {k}])

MergeAnchors ==
    /\ anchorBranch # anchorMain /\ AnchorsPass(anchorBranch)
    /\ anchorMain' = anchorBranch /\ anchorEdits' = 0
    /\ UNCHANGED anchorBranch

AbandonAnchors ==
    /\ anchorBranch # anchorMain
    /\ anchorBranch' = anchorMain /\ anchorEdits' = 0
    /\ UNCHANGED anchorMain

AnchorNext ==
    \/ EditTarget \/ MoveFile \/ Reshape \/ ListDead \/ Unlist
    \/ MergeAnchors \/ AbandonAnchors

AnchorSpec == AnchorInit /\ [][AnchorNext]_anchorVars

-----------------------------------------------------------------------------
Alone(r) == \A q \in AnchorRows : Key(q) = Key(r) => q = r

\* "The next one reddens the build on the commit that kills it" (the comment of
\* KNOWN_DEAD): a control that could be applied and cannot be after a merge is
\* entered in the list by that merge, whatever the list said earlier - as long
\* as the guard reads its script, and no other row of the script has its key.
DeathsAreListed ==
    [][ \A r \in AnchorRows :
          /\ Alone(r)
          /\ r \in Read(anchorMain) /\ Applies(anchorMain, r)
          /\ r \in Read(anchorMain') /\ ~ Applies(anchorMain', r)
          => Key(r) \in anchorMain'.knownDead \ anchorMain.knownDead ]_anchorVars
=============================================================================
