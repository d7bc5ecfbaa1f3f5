------------------------ MODULE MCFabricRoomHistory -------------------------
(***************************************************************************)
(* Instances of FabricRoomHistory for TLC.                                 *)
(***************************************************************************)
EXTENDS FabricRoomHistory, TLC

CONSTANTS n1, r1, c1, c2, c3, j1, j2, t1

OneNode == t1 :> n1

JobConnSymmetry == Permutations(Job) \cup Permutations(Conn)
=============================================================================
