--------------------------- MODULE MCRealtimeHub ---------------------------
(***************************************************************************)
(* Two connections in one workspace, whose room is w.  In one run they are *)
(* two tabs of one member, the first may also join the issue room i, and a *)
(* member who is not connected changes the issue; in the other they belong *)
(* to two members, who change things in w.                                 *)
(***************************************************************************)
EXTENDS RealtimeHub, TLC

CONSTANTS c1, c2, m1, m2, w, i

Home == [c \in Conns |-> w]
MemberOf == (c1 :> m1) @@ (c2 :> m2)
SameMember == [c \in Conns |-> m1]
MayJoinHome == Conns \X {w}
MayJoinIssue == {<<c1, i>>}
OfAnother == {[room |-> i, actor |-> m2]}
OfEachMember == [room : {w}, actor : Members]
=============================================================================
