--------------------------- MODULE MCRaceGateway ---------------------------
(* RaceGateway on small instances for TLC. *)
EXTENDS RaceGateway

First(S) == CHOOSE x \in S : TRUE

\* Pilots and sockets are interchangeable: the first socket is the first
\* pilot's.  It speaks v1; the others speak either protocol.
MCInit ==
  /\ Init
  /\ sockets[First(Sockets)].player = First(Players) /\ sockets[First(Sockets)].proto = "v1"

MCFairSpec == MCInit /\ [][Next]_vars /\ Fairness
=============================================================================
