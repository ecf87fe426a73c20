------------------------------ MODULE RaceRoom ------------------------------
(***************************************************************************)
(* What a race room promises its pilots, whatever the server behind it:    *)
(* a room is a lobby, then one race, then over; while it races it          *)
(* announces finish places, each to one seat and each seat one; and the    *)
(* ranking it publishes at the end repeats only what it announced.         *)
(* RaceSession implements this specification (see Room there).             *)
(***************************************************************************)

VARIABLES
  phase,      \* "lobby", "racing", "finished" or "canceled"
  given,      \* the <<seat, place>> pairs announced so far
  published   \* the <<seat, place>> pairs of the final ranking

vars == <<phase, given, published>>

NoClash(g) == \A a, b \in g : (a[1] = b[1]) <=> (a[2] = b[2])

Init == phase = "lobby" /\ given = {} /\ published = {}

\* The all-ready barrier, or the host.
Start ==
  /\ phase = "lobby" /\ phase' = "racing"
  /\ UNCHANGED <<given, published>>

\* One more place, or those of a wave of timeouts.
Announce ==
  /\ phase = "racing" /\ phase' = "racing"
  /\ given \subseteq given' /\ NoClash(given')
  /\ UNCHANGED published

\* The last places and the ranking.
Complete ==
  /\ phase = "racing" /\ phase' = "finished"
  /\ given \subseteq given' /\ NoClash(given')
  /\ published' \subseteq given'

Cancel ==
  /\ phase \in {"lobby", "racing"} /\ phase' = "canceled"
  /\ UNCHANGED <<given, published>>

Next == Start \/ Announce \/ Complete \/ Cancel

Spec == Init /\ [][Next]_vars
=============================================================================
