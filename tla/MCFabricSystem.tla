--------------------------- MODULE MCFabricSystem ---------------------------
(***************************************************************************)
(* Instances of FabricSystem for TLC: every job is for the one runtime.    *)
(***************************************************************************)
EXTENDS FabricSystem, TLC

CONSTANTS n1, r1, c1, c2, j1, j2, t1

OneRuntime == [j \in Job |-> r1]

Symmetry == Permutations(Job) \cup Permutations(Conn)
=============================================================================
