--------------------------- MODULE MCRaceSession ---------------------------
(* RaceSession on small instances for TLC. *)
EXTENDS RaceSession, TLC

\* Players are interchangeable; only safety is checked under symmetry.
PlayerSymmetry == Permutations(Players)
=============================================================================
