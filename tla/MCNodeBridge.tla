---------------------------- MODULE MCNodeBridge ----------------------------
(***************************************************************************)
(* Instances of NodeBridge for TLC: two jobs for the attached runtime r1   *)
(* and one for the managed runtime r2.                                     *)
(***************************************************************************)
EXTENDS NodeBridge, TLC

CONSTANTS j1, j2, j3, r1, r2

Target == j1 :> r1 @@ j2 :> r1 @@ j3 :> r2
=============================================================================
