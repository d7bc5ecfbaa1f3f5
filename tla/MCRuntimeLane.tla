--------------------------- MODULE MCRuntimeLane ----------------------------
(***************************************************************************)
(* Instances of RuntimeLane for TLC.                                       *)
(***************************************************************************)
EXTENDS RuntimeLane

CONSTANTS m1, m2, c1, c2, i1, i2, i3, i4
=============================================================================
