---------------------------- MODULE HandlerGuard ----------------------------
(***************************************************************************)
(* check-restore-signal-handlers.py, which CI runs before a merge, over a  *)
(* history of merges: control scripts are written, converted and removed,  *)
(* and people edit its three lists.                                        *)
(***************************************************************************)
EXTENDS Integers, FiniteSets

CONSTANTS
    GuardedScripts,
    HandlerFloors,   \* [narrow, wide]
    MaxHandlerEdits  \* bound: changes in one branch

VARIABLES handlerBranch, handlerMain, handlerEdits

handlerVars == <<handlerBranch, handlerMain, handlerEdits>>

\* How a script restores: in a `finally` the walk can follow (a write in it, a
\* helper that writes, a `with`, a `git checkout`), in one reached by two hops,
\* after the measurement only, or not at all because what it writes is meant.
\* A broken script cannot be parsed.
Ways == {"finally", "hops", "after", "refresh", "broken", "absent"}

\* paths: it reads the file by read_text or read_bytes, not by open().
ScriptForm == [way : Ways, paths : BOOLEAN, handler : BOOLEAN]

\* A reason given or not, for an entry of NOT_MUTATORS.
Reason == {"none", "empty", "given"}

HandlerTree == [script : [GuardedScripts -> ScriptForm],
                UNPROTECTED : SUBSET GuardedScripts,
                HAPPY_PATH_ONLY : SUBSET GuardedScripts,
                NOT_MUTATORS : [GuardedScripts -> Reason]]

-----------------------------------------------------------------------------
(* The two detectors and the rules.                                        *)

Narrow(t) == {s \in GuardedScripts : t.script[s].way = "finally"}
Wide(t) == {s \in GuardedScripts : t.script[s].way \notin {"absent", "broken"} /\ t.script[s].paths}
Protected(t) == {s \in Narrow(t) \cup Wide(t) : t.script[s].handler}
Excused(t) == {s \in GuardedScripts : t.NOT_MUTATORS[s] # "none"}

AllParsed(t) == \A s \in GuardedScripts : t.script[s].way # "broken"

HandlerFloorsHold(t) ==
    /\ Cardinality(Narrow(t)) >= HandlerFloors.narrow
    /\ Cardinality(Wide(t)) >= HandlerFloors.wide

AllProtected(t) == Narrow(t) \ Protected(t) \subseteq t.UNPROTECTED
AllInFinally(t) == (Wide(t) \ Narrow(t)) \ Excused(t) \subseteq t.HAPPY_PATH_ONLY

\* Fault: an entry may stay when its script is fixed.
FixedMayStay(t) == TRUE

FixedAreUnlisted(t) ==
    /\ t.UNPROTECTED \cap Protected(t) = {}
    /\ t.HAPPY_PATH_ONLY \cap Narrow(t) = {}

ListedAreCandidates(t) ==
    /\ t.UNPROTECTED \subseteq Narrow(t)
    /\ t.HAPPY_PATH_ONLY \subseteq Wide(t)
    /\ Excused(t) \subseteq Wide(t)

ReasonsAreGiven(t) == \A s \in GuardedScripts : t.NOT_MUTATORS[s] # "empty"

HandlersPass(t) ==
    /\ AllParsed(t) /\ HandlerFloorsHold(t) /\ AllProtected(t) /\ AllInFinally(t)
    /\ FixedAreUnlisted(t) /\ ListedAreCandidates(t) /\ ReasonsAreGiven(t)

-----------------------------------------------------------------------------
HandlerInit ==
    /\ handlerMain \in HandlerTree /\ HandlersPass(handlerMain)
    /\ handlerBranch = handlerMain /\ handlerEdits = 0

WorkOnHandlers(t) ==
    /\ handlerEdits < MaxHandlerEdits
    /\ handlerBranch' = t /\ handlerBranch' # handlerBranch
    /\ handlerEdits' = handlerEdits + 1
    /\ UNCHANGED handlerMain

\* A script is written, converted or removed.
Rewrite == \E s \in GuardedScripts, x \in ScriptForm : WorkOnHandlers([handlerBranch EXCEPT !.script[s] = x])

EditLists == \E s \in GuardedScripts :
    \/ WorkOnHandlers([handlerBranch EXCEPT !.UNPROTECTED = @ \cup {s}])
    \/ WorkOnHandlers([handlerBranch EXCEPT !.UNPROTECTED = @ \ {s}])
    \/ WorkOnHandlers([handlerBranch EXCEPT !.HAPPY_PATH_ONLY = @ \cup {s}])
    \/ WorkOnHandlers([handlerBranch EXCEPT !.HAPPY_PATH_ONLY = @ \ {s}])
    \/ \E why \in Reason : WorkOnHandlers([handlerBranch EXCEPT !.NOT_MUTATORS[s] = why])

MergeHandlers ==
    /\ handlerBranch # handlerMain /\ HandlersPass(handlerBranch)
    /\ handlerMain' = handlerBranch /\ handlerEdits' = 0
    /\ UNCHANGED handlerBranch

AbandonHandlers ==
    /\ handlerBranch # handlerMain
    /\ handlerBranch' = handlerMain /\ handlerEdits' = 0
    /\ UNCHANGED handlerMain

HandlerNext == Rewrite \/ EditLists \/ MergeHandlers \/ AbandonHandlers

HandlerSpec == HandlerInit /\ [][HandlerNext]_handlerVars

-----------------------------------------------------------------------------
\* A signal leaves its mutation in the tree.
Strands(t, s) == t.script[s].way \in {"finally", "hops", "after"} /\ ~ t.script[s].handler

\* "An entry ... fixed must leave the list, or the list rots into an excuse"
\* (R2): a script that restored under a handler and strands its mutation after
\* a merge is entered in a list by that merge, unless it was excused as no
\* mutator, or no detector sees it any more.
LossesAreListed ==
    [][ \A s \in Narrow(handlerMain) \cap Protected(handlerMain) :
          /\ Strands(handlerMain', s)
          /\ s \in Narrow(handlerMain') \cup Wide(handlerMain')
          /\ s \notin Excused(handlerMain)
          => \/ s \in handlerMain'.UNPROTECTED \ handlerMain.UNPROTECTED
             \/ s \in handlerMain'.HAPPY_PATH_ONLY \ handlerMain.HAPPY_PATH_ONLY
             \/ s \in Excused(handlerMain') ]_handlerVars
=============================================================================
