-------------------------- MODULE MCRealtimeBridge --------------------------
(***************************************************************************)
(* Two instances, n1 and n2, each with one emitting goroutine: two events  *)
(* from n1, one from n2.                                                   *)
(***************************************************************************)
EXTENDS RealtimeBridge, TLC

CONSTANTS g1, g2, n1, n2

TwoHomes == (g1 :> n1) @@ (g2 :> n2)
TwoAndOne == (g1 :> 2) @@ (g2 :> 1)
=============================================================================
