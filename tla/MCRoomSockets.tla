--------------------------- MODULE MCRoomSockets ---------------------------
(* RoomSockets on small instances for TLC. *)
EXTENDS RoomSockets, TLC

\* Sockets, codes and seeds are interchangeable; only safety is checked so.
Symmetry == Permutations(Sockets) \cup Permutations(Codes) \cup Permutations(Seeds)
=============================================================================
