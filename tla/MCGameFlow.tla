----------------------------- MODULE MCGameFlow -----------------------------
(* A small instance of the run's life: a free player of the portal, a free and a Gold
   player of the web build. *)
EXTENDS GameFlow

MCPlayers == {<<"portal", "free">>, <<"web", "free">>, <<"web", "gold">>}

MCWindCap == [t \in Tiers |-> IF t = "gold" THEN 2 ELSE 1]
=============================================================================
