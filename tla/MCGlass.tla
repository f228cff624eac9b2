------------------------------ MODULE MCGlass -------------------------------
(***************************************************************************)
(* Instances of Glass for TLC.                                              *)
(***************************************************************************)
EXTENDS Glass

CONSTANTS c1, c2, k1, k2
=============================================================================
