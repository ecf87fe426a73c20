----------------------------- MODULE MCSocial ------------------------------
(* Two or three pilots over a few days, in behaviours that each see a few  *)
(* kinds of request.                                                       *)
EXTENDS Social, TLC
Symmetric == Permutations(Ids) \cup Permutations(Runs)
=============================================================================
