-------------------------- MODULE MCBackgroundLoops --------------------------
(***************************************************************************)
(* The loops of an instance that reach into every workspace: the syncers   *)
(* of LensSpend, in the instance MCLensSpend describes, and the purge of   *)
(* WorkspaceLifecycle.  They share no table but ai_spend_events, where the *)
(* purge meets a syncer's row as one of the late writes; so a behaviour is *)
(* about one of the two and the other stays where it is.                   *)
(***************************************************************************)
EXTENDS MCLensSpend, WorkspaceLifecycle

VARIABLE part

InitAll == part \in {"sync", "life"} /\ Init /\ LifeInit

NextAll ==
    /\ \/ part = "sync" /\ Next /\ UNCHANGED lifeVars
       \/ part = "life" /\ LifeNext /\ UNCHANGED vars
    /\ UNCHANGED part

\* The fairness of LensSpend and of WorkspaceLifecycle, each in its part.
FairnessAll ==
    /\ \A s \in Syncers : WF_vars(part = "sync" /\ Sync(s))
    /\ \A i \in Instances : WF_lifeVars(part = "life" /\ PurgeLoop(i))

SpecAll == InitAll /\ [][NextAll]_<<vars, lifeVars, part>> /\ FairnessAll
=============================================================================
