--------------------------- MODULE MCRoomService ---------------------------
(* RoomService on small instances for TLC. *)
EXTENDS RoomService, TLC

\* Players and room codes are interchangeable; only safety is checked so.
Symmetry == Permutations(Players) \cup Permutations(Codes)
=============================================================================
