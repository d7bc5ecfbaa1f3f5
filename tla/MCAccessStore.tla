--------------------------- MODULE MCAccessStore ----------------------------
(***************************************************************************)
(* Instances of AccessStore for TLC.                                       *)
(***************************************************************************)
EXTENDS AccessStore, TLC

CONSTANTS t1, t2, s1, s2, k1, k2, b1, b2

StoreSymmetry ==
    Permutations(Token) \cup Permutations(Session) \cup Permutations(Call) \cup Permutations(Secret)
=============================================================================
