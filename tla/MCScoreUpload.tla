--------------------------- MODULE MCScoreUpload ---------------------------
(* ScoreUpload on small instances for TLC. *)
EXTENDS ScoreUpload, TLC

\* The drain loops are interchangeable.
Symmetry == Permutations(Drains)
=============================================================================
