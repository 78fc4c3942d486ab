--------------------------- MODULE MCFeatureVotes ---------------------------
(***************************************************************************)
(* Two visitors with two addresses.                                        *)
(***************************************************************************)
EXTENDS FeatureVotes
=============================================================================
