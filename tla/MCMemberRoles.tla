--------------------------- MODULE MCMemberRoles ---------------------------
(***************************************************************************)
(* The founder m1 and rows to add: m2 and m3 are two spellings of one      *)
(* address, m4 and m5 are others.                                          *)
(***************************************************************************)
EXTENDS MemberRoles, TLC

CONSTANTS m1, m2, m3, m4, m5, alice, bob, dana, erin

AddressOf == (m1 :> alice) @@ (m2 :> bob) @@ (m3 :> bob) @@ (m4 :> dana) @@ (m5 :> erin)
Addresses == [m \in Members |-> AddressOf[m]]
ClientSymmetry == Permutations(Clients)
=============================================================================
