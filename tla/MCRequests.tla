----------------------------- MODULE MCRequests -----------------------------
(***************************************************************************)
(* Requests that run their statements between each other's: deliveries of  *)
(* the Lens webhook, in the instance MCLensSpend describes, changes of a   *)
(* workspace's members, in the one MCMemberRoles describes, and two        *)
(* requests at a time about one member's timers, of which three entries    *)
(* come.  They share no table, so a behaviour is about one of the three.   *)
(***************************************************************************)
EXTENDS MCLensSpend, MCMemberRoles, Timers

VARIABLE part

InitAll ==
    /\ part \in {"webhook", "members", "timers"}
    /\ Init /\ RolesInit /\ TimersInit

NextAll ==
    /\ \/ part = "webhook" /\ Next /\ UNCHANGED <<rolesVars, timerVars>>
       \/ part = "members" /\ RolesNext /\ UNCHANGED <<vars, timerVars>>
       \/ part = "timers" /\ TimersNext /\ UNCHANGED <<vars, rolesVars>>
    /\ UNCHANGED part

SpecAll == InitAll /\ [][NextAll]_<<vars, rolesVars, timerVars, part>>

Symmetry == HandlerSymmetry \cup ClientSymmetry
=============================================================================
