----------------------------- MODULE MCControls -----------------------------
(***************************************************************************)
(* Everything under scripts/: all control scripts, each started twice, and *)
(* the two guards over small populations of them.  They share no state, so *)
(* a behaviour is about one of the three and the others stay where they    *)
(* are.                                                                    *)
(***************************************************************************)
EXTENDS ControlRun, AnalyticsControls, ImporterControls, TrackControls,
        AnchorGuard, HandlerGuard

VARIABLE part

allVars == <<vars, part, anchorVars, handlerVars>>

ControlScripts == AnalyticsScripts \cup ImporterScripts \cup TrackScripts
MutatedFiles == UNION {Touched(s) : s \in ControlScripts}

\* An anchor of one script in two files, and two scripts with one anchor each.
Anchor(s, a, p, n) == [script |-> s, anchor |-> a, path |-> p, want |-> 1, at |-> n]
CensusRows == {Anchor("s1", "a", "p1", 1), Anchor("s1", "a", "p2", 2), Anchor("s2", "b", "p2", 3),
               Anchor("s3", "c", "p1", 4)}
CensusFloors == [scripts |-> 2, anchors |-> 3, bareScripts |-> 1, bareAnchors |-> 1]
DetectorFloors == [narrow |-> 1, wide |-> 1]

\* Where the parts a behaviour is not about stay.
SomeScript == CHOOSE s \in ControlScripts : ~ s.harness.database
AnchorsIdle ==
    /\ anchorMain = [files |-> {}, count |-> [x \in Spots |-> 0],
                     shape |-> [s \in AnchorScripts |-> "unread"], knownDead |-> {}]
    /\ anchorBranch = anchorMain /\ anchorEdits = 0
HandlersIdle ==
    /\ handlerMain = [script |-> [s \in GuardedScripts |->
                                    [way |-> "absent", paths |-> FALSE, handler |-> FALSE]],
                      UNPROTECTED |-> {}, HAPPY_PATH_ONLY |-> {},
                      NOT_MUTATORS |-> [s \in GuardedScripts |-> "none"]]
    /\ handlerBranch = handlerMain /\ handlerEdits = 0
CampaignIdle == Init /\ script = SomeScript /\ work = {} /\ ~ red

InitAll ==
    \/ part = "campaign" /\ Init /\ AnchorsIdle /\ HandlersIdle
    \/ part = "anchors" /\ CampaignIdle /\ AnchorInit /\ HandlersIdle
    \/ part = "handlers" /\ CampaignIdle /\ AnchorsIdle /\ HandlerInit

NextAll ==
    /\ \/ part = "campaign" /\ Next /\ UNCHANGED <<anchorVars, handlerVars>>
       \/ part = "anchors" /\ AnchorNext /\ UNCHANGED <<vars, handlerVars>>
       \/ part = "handlers" /\ HandlerNext /\ UNCHANGED <<vars, anchorVars>>
    /\ UNCHANGED part

SpecAll == InitAll /\ [][NextAll]_allVars
=============================================================================
