---------------------------- MODULE MCFabricRoom ----------------------------
(***************************************************************************)
(* Instances of FabricRoom for TLC.                                        *)
(***************************************************************************)
EXTENDS FabricRoom, TLC

CONSTANTS n1, n2, r1, r2, c1, c2, c3, j1, j2, t1, t2, t3

\* Two tokens of one node, one of another.
TwoNodes == t1 :> n1 @@ t2 :> n1 @@ t3 :> n2

OneNode == t1 :> n1

JobConnSymmetry == Permutations(Job) \cup Permutations(Conn)

\* The two tokens of TwoNodes that are bound to n1 are alike.
NodesSymmetry == JobConnSymmetry \cup Permutations({t1, t2})
=============================================================================
