------------------------------- MODULE MCStats -------------------------------
(***************************************************************************)
(* A small instance of Stats.                                              *)
(***************************************************************************)
EXTENDS Stats, TLC

CONSTANTS p1, p2, p3

(* The callers are alike.                                                  *)
Symmetric == Permutations(Callers)
=============================================================================
