---------------------------- MODULE MCIssueStore ----------------------------
(***************************************************************************)
(* Two teams, called ENG and OPS unless renamed, and imports that bring    *)
(* the identifier ENG-2.                                                   *)
(***************************************************************************)
EXTENDS IssueStore, TLC

CONSTANTS tA, tB, ENG, OPS, WEB

ProviderENG2 == {<<ENG, 2>>}
StoreSymmetry ==
    Permutations(Callers) \cup Permutations(Teams) \cup Permutations({OPS, WEB})
=============================================================================
