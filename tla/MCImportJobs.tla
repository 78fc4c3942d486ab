---------------------------- MODULE MCImportJobs ----------------------------
(***************************************************************************)
(* Instances of ImportJobs for TLC.  Job j1 is a file of team tA whose rows *)
(* name issue p and nothing; j2 pulls p from an API into team tB, and a    *)
(* row that cannot be read.  The two compete for p with each other and     *)
(* with a person.                                                          *)
(***************************************************************************)
EXTENDS ImportJobs, TLC

CONSTANTS j1, j2, tA, tB, p

Teams2 == (j1 :> tA) @@ (j2 :> tB)
Source2 == (j1 :> <<p, Keyless>>) @@ (j2 :> <<p, Malformed>>)
=============================================================================
