---------------------------- MODULE MCDashboard -----------------------------
(***************************************************************************)
(* Instances of Dashboard for TLC.                                         *)
(***************************************************************************)
EXTENDS Dashboard

CONSTANTS g1, q1, w1, w2, s1, s2, j1, j2
=============================================================================
