----------------------------- MODULE MCOutboxes -----------------------------
(***************************************************************************)
(* Two instances, one endpoint subscribed to everything, one event that    *)
(* assigns an issue to one member.                                         *)
(***************************************************************************)
EXTENDS Outboxes

Everything == [h \in Hooks |-> Events]
TheMember == [e \in Events |-> CHOOSE m \in Members : TRUE]
=============================================================================
