---------------------------- MODULE RaceSession ----------------------------
(***************************************************************************)
(* One authoritative race room of the Node social backend:                 *)
(* server/src/realtime/race-session.ts, class RaceSession.                 *)
(*                                                                         *)
(* The class is single-threaded JavaScript, so every public method and     *)
(* every run of the tick timer is one atomic action.  What interleaves is  *)
(* the order of the calls: REST handlers, two kinds of WebSocket gateway,  *)
(* the timer and the clock reach the same session independently.           *)
(*                                                                         *)
(* Abstractions.                                                           *)
(*  - Seat ids are random and never reused; here they are the numbers      *)
(*    1, 2, ... in the order they are drawn.  The code's Map of seats and  *)
(*    its `order' array change together in every method, so the join order *)
(*    of the seats is the order of their numbers, and no sequence is kept. *)
(*  - Names, skins, hues, coordinates and scores are left out.  A movement *)
(*    frame is its sequence number and the distance it results in.         *)
(*  - Time is counted in units of the tick timer.  A seat keeps its age    *)
(*    (now - lastSeenAt) and the room the race clock (now - startAtMs);    *)
(*    both stop counting one unit past the bound the code compares with.   *)
(***************************************************************************)
EXTENDS Integers, FiniteSets, Functions

CONSTANTS
  Players,      \* the pilots
  MaxSeats,     \* bound: how many seats a room ever draws
  Capacity,     \* seats a room holds at once (cfg.roomCapacity)
  Grace,        \* cfg.reconnectGraceMs
  Countdown,    \* cfg.startCountdownMs
  MaxRace,      \* cfg.maxRaceMs
  MaxDistance,  \* LIMITS.maxDistance
  Tolerance,    \* LIMITS.distanceRegressionTolerance
  MaxSeq,       \* bound: the largest sequence number a client sends
  MaxGen        \* bound: the largest generation of a seat

ASSUME SessionAssumption ==
  /\ MaxSeats \in Nat /\ Capacity \in Nat
  /\ Grace \in Nat /\ Countdown \in Nat /\ MaxRace \in Nat
  /\ MaxDistance \in Nat /\ Tolerance \in Nat
  /\ MaxSeq \in Nat /\ MaxGen \in Nat \ {0}

VARIABLES
  seats,        \* live seats: a function from seat ids to seat records
  issued,       \* how many seat ids have been drawn
  status,       \* "lobby", "racing", "finished" or "canceled"
  host,         \* hostSeatId; 0 stands for the empty string
  nextPlace,    \* the next finish place to hand out
  finishOrder,  \* seats with a finish that were not removed since (as a set)
  clock,        \* now - startAtMs, meaningful while racing
  finishedAt,   \* whether finishedAtMs was set
  results,      \* standings of the last "results" event: seat id -> row
  awarded       \* history: every <<seat, place>> a "finish" event announced

vars == <<seats, issued, status, host, nextPlace, finishOrder, clock,
          finishedAt, results, awarded>>

SeatIds == 1..MaxSeats

\* A seat without a finish record, and one without a movement state yet.
NoFinish == [place |-> 0, time |-> 0, dist |-> 0]
NoState  == -1

Finishes == [place : Nat, time : (-Countdown)..(MaxRace + 1),
             dist : 0..MaxDistance]

Seat == [player : Players, gen : 1..MaxGen, ready : BOOLEAN,
         phase : {"connected", "reconnecting"}, lastSeq : 0..MaxSeq,
         dist : NoState..MaxDistance, silent : 0..(Grace + 1),
         finish : Finishes, dnf : BOOLEAN, token : BOOLEAN]

Row == [player : Players, pos : Nat \ {0}, place : Nat \ {0},
        time : (-Countdown)..(MaxRace + 1), dnf : BOOLEAN]

NoSeats == [s \in {} |-> NoFinish]

\* A map of well-formed seats among the first n ids.
SeatMap(ss, n) == DOMAIN ss \subseteq 1..n /\ ss \in [DOMAIN ss -> Seat]
----------------------------------------------------------------------------
(* Reading a seat map                                                      *)

Connected(ss)  == {s \in DOMAIN ss : ss[s].phase = "connected"}
Placed(ss)     == {s \in DOMAIN ss : ss[s].finish.place # 0}
Unplaced(ss)   == DOMAIN ss \ Placed(ss)

\* Mutant: a player is looked up among the connected seats only.
SeatsOfConnected(ss, p) == {s \in Connected(ss) : ss[s].player = p}
SeatsOf(ss, p) == {s \in DOMAIN ss : ss[s].player = p}

Travelled(x) == IF x.dist = NoState THEN 0 ELSE x.dist

\* Mutant: a seat without a movement state is not defaulted to the claim.
OfficialRaw(x, claimed) == x.dist
\* The distance of a finish: the server's, or the claim when it has none.
Official(x, claimed)    == IF x.dist = NoState THEN claimed ELSE x.dist

First(S) == CHOOSE s \in S : \A t \in S : s <= t

\* Mutant: the first seat hosts, connected or not.
HostOfAnySeat(ss) == IF DOMAIN ss = {} THEN 0 ELSE First(DOMAIN ss)

\* migrateHost: the first connected seat in join order, or none.
HostOf(ss) == IF Connected(ss) = {} THEN 0 ELSE First(Connected(ss))

\* Mutant: a dropped seat is given up at once.
ExpiredAtOnce(x) == x.phase = "reconnecting"

Expired(x) == x.phase = "reconnecting" /\ x.silent > Grace

\* t comes before s when seats are sorted by distance, best first; the sort
\* is stable, so equal distances keep the join order.
AheadByDistance(ss, t, s) ==
  \/ Travelled(ss[t]) > Travelled(ss[s])
  \/ Travelled(ss[t]) = Travelled(ss[s]) /\ t < s

\* Mutant: the comparison of finish times is the wrong way round.
AheadByTimeReversed(ss, t, s) ==
  \/ ss[t].finish.time > ss[s].finish.time
  \/ ss[t].finish.time = ss[s].finish.time /\ t < s

AheadByTime(ss, t, s) ==
  \/ ss[t].finish.time < ss[s].finish.time
  \/ ss[t].finish.time = ss[s].finish.time /\ t < s

\* standings(): finishers by time, then everybody else by distance.  A row
\* shows the place the server awarded, or else its position in the list.
Standings(ss) ==
  LET Fin  == {s \in Placed(ss) : ~ss[s].dnf}
      Rest == DOMAIN ss \ Fin
      Pos(s) == IF s \in Fin
                THEN 1 + Cardinality({t \in Fin : AheadByTime(ss, t, s)})
                ELSE 1 + Cardinality(Fin)
                       + Cardinality({t \in Rest : AheadByDistance(ss, t, s)})
  IN [s \in DOMAIN ss |->
        [player |-> ss[s].player,
         pos    |-> Pos(s),
         place  |-> IF s \in Placed(ss) THEN ss[s].finish.place ELSE Pos(s),
         time   |-> ss[s].finish.time,
         dnf    |-> s \in Rest]]
----------------------------------------------------------------------------
(* Steps several methods share                                             *)

\* The seat map after seat n is granted to player p.
WithSeat(ss, n, p) ==
  [s \in DOMAIN ss \cup {n} |->
     IF s = n
     THEN [player |-> p, gen |-> 1, ready |-> FALSE, phase |-> "connected",
           lastSeq |-> 0, dist |-> NoState, silent |-> 0,
           finish |-> NoFinish, dnf |-> FALSE, token |-> FALSE]
     ELSE ss[s]]

Without(ss, gone) == Restrict(ss, DOMAIN ss \ gone)

\* completeRace: standings first, then the sweep.
CompleteRace(ss) ==
  /\ status' = "finished"
  /\ finishedAt' = TRUE
  /\ results' = Standings(ss)
  /\ seats' = NoSeats
  /\ host' = 0

\* Mutants: a dropped pilot does not count as flying; a dropped pilot counts
\* as flying even with a place.
AllConnectedDone(ss) == DOMAIN ss # {} /\ Unplaced(ss) \cap Connected(ss) = {}
AllDoneAndHere(ss) ==
  DOMAIN ss # {} /\ Unplaced(ss) = {} /\ Connected(ss) = DOMAIN ss

AllDone(ss) == DOMAIN ss # {} /\ Unplaced(ss) = {}

\* maybeComplete after the seat map became ss; if the race goes on, `left'
\* is the seat that is then removed (none: {}).
MaybeComplete(ss, left) ==
  \/ AllDone(ss) /\ CompleteRace(ss)
  \/ /\ ~AllDone(ss)
     /\ seats' = Without(ss, left)
     /\ host' = IF left = {} THEN host ELSE HostOf(Without(ss, left))
     /\ UNCHANGED <<status, finishedAt, results>>

\* beginCountdown on the seat map ss.
BeginCountdown(ss) ==
  /\ status' = "racing"
  /\ nextPlace' = 1
  /\ finishOrder' = {}
  /\ clock' = -Countdown
  /\ seats' = [s \in DOMAIN ss |-> [ss[s] EXCEPT !.token = TRUE]]

\* maybeStart: the all-ready barrier over the connected seats.
Barrier(ss) ==
  /\ Cardinality(Connected(ss)) >= 2
  /\ \A s \in Connected(ss) : ss[s].ready

\* Mutant: the seat's own finish record is not looked at.
StillRacing(s) == status = "racing" /\ s \in DOMAIN seats

\* A pilot who is in the race and has no place yet.
StillFlying(s) == status = "racing" /\ s \in Unplaced(seats)

Award(s, place) == awarded' = awarded \cup {<<s, place>>}
----------------------------------------------------------------------------
Init ==
  /\ seats = NoSeats /\ issued = 0 /\ status = "lobby" /\ host = 0
  /\ nextPlace = 1 /\ finishOrder = {} /\ clock = 0
  /\ finishedAt = FALSE /\ results = NoSeats /\ awarded = {}

\* Mutant: a finished room may still be canceled, joined, ...
OpenUnlessCanceled == status # "canceled"
Open == status \in {"lobby", "racing"}

\* join with no seat of this player in the room: a new seat, late joiners
\* of a race under way included (they never get a match token).
JoinNew(p) ==
  /\ Open
  /\ SeatsOf(seats, p) = {}
  /\ Cardinality(DOMAIN seats) < Capacity
  /\ issued < MaxSeats
  /\ issued' = issued + 1
  /\ seats' = WithSeat(seats, issued + 1, p)
  /\ host' = HostOf(seats')
  /\ UNCHANGED <<status, nextPlace, finishOrder, clock, finishedAt, results,
                 awarded>>

\* Both ways back to a seat: phase, generation and age; progress is kept.
Reattach(s) ==
  /\ seats[s].gen < MaxGen
  /\ seats' = [seats EXCEPT ![s] = [seats[s] EXCEPT !.phase = "connected",
                                             !.silent = 0, !.gen = @ + 1]]
  /\ host' = HostOf(seats')
  /\ UNCHANGED <<issued, status, nextPlace, finishOrder, clock, finishedAt,
                 results, awarded>>

\* join with a reconnect token: accepted when it carries the seat's current
\* generation (any older one throws), whatever the age of the seat.
JoinWithToken(p, s, gen) ==
  /\ Open
  /\ s \in DOMAIN seats
  /\ gen = seats[s].gen
  /\ SeatsOf(seats, p) # {} => seats[s].player = p
  /\ Reattach(s)

\* join of a player who has a seat here, without a token: the same seat
\* while it is within the grace window ...
JoinExisting(p) ==
  /\ Open
  /\ \E s \in SeatsOf(seats, p) : seats[s].silent <= Grace /\ Reattach(s)

\* ... and past it the old seat is dropped and a new one granted.
JoinExpired(p) ==
  /\ Open
  /\ issued < MaxSeats
  /\ \E s \in SeatsOf(seats, p) :
       /\ seats[s].silent > Grace
       /\ Cardinality(DOMAIN seats \ {s}) < Capacity
       /\ seats' = WithSeat(Without(seats, {s}), issued + 1, p)
       /\ finishOrder' = finishOrder \ {s}
  /\ issued' = issued + 1
  /\ host' = HostOf(seats')
  /\ UNCHANGED <<status, nextPlace, clock, finishedAt, results, awarded>>

Ready(s, value) ==
  /\ status = "lobby"
  /\ s \in DOMAIN seats
  /\ LET ss == [seats EXCEPT ![s] = [seats[s] EXCEPT !.ready = value]]
     IN \/ Barrier(ss) /\ BeginCountdown(ss)
        \/ ~Barrier(ss) /\ seats' = ss
                        /\ UNCHANGED <<status, nextPlace, finishOrder, clock>>
  /\ UNCHANGED <<issued, host, finishedAt, results, awarded>>

\* start() by the host's REST or legacy call.
Start(s) ==
  /\ status = "lobby"
  /\ s \in DOMAIN seats /\ s = host
  /\ BeginCountdown(seats)
  /\ UNCHANGED <<issued, host, finishedAt, results, awarded>>

Cancel(s) ==
  /\ Open
  /\ s \in DOMAIN seats /\ s = host
  /\ status' = "canceled"
  /\ finishedAt' = TRUE
  /\ results' = Standings(seats)
  /\ seats' = NoSeats
  /\ host' = 0
  /\ UNCHANGED <<issued, nextPlace, finishOrder, clock, awarded>>

\* leave() in a race by a pilot still flying: a DNF that takes a place.
LeaveFlying(s) ==
  /\ StillFlying(s)
  /\ LET ss == [seats EXCEPT ![s] = [seats[s] EXCEPT !.dnf = TRUE,
                  !.finish = [place |-> nextPlace, time |-> clock,
                              dist |-> Travelled(seats[s])]]]
     IN MaybeComplete(ss, {s})
  /\ finishOrder' = IF seats' = NoSeats /\ status' = "finished"
                    THEN finishOrder \cup {s} ELSE finishOrder
  /\ nextPlace' = nextPlace + 1
  /\ Award(s, nextPlace)
  /\ UNCHANGED <<issued, clock>>

\* leave() in the lobby, or by a pilot who already has a place.
LeaveIdle(s) ==
  /\ s \in DOMAIN seats
  /\ status = "racing" => s \in Placed(seats)
  /\ seats' = Without(seats, {s})
  /\ finishOrder' = finishOrder \ {s}
  /\ host' = HostOf(seats')
  /\ UNCHANGED <<issued, status, nextPlace, clock, finishedAt, results, awarded>>

\* markDisconnected: the socket dropped; the grace window runs from now.
MarkDisconnected(s) ==
  /\ s \in Connected(seats)
  /\ seats' = [seats EXCEPT ![s] = [seats[s] EXCEPT !.phase = "reconnecting",
                                             !.silent = 0, !.ready = FALSE]]
  /\ host' = HostOf(seats')
  /\ UNCHANGED <<issued, status, nextPlace, finishOrder, clock, finishedAt,
                 results, awarded>>

\* poke(), and every input() that is refused for its sequence number.
Poke(s) ==
  /\ s \in DOMAIN seats
  /\ seats' = [seats EXCEPT ![s] = [seats[s] EXCEPT !.silent = 0]]
  /\ UNCHANGED <<issued, status, host, nextPlace, finishOrder, clock,
                 finishedAt, results, awarded>>

\* input() with a fresh sequence number; `dist' is the authoritative distance,
\* or NoState when the rate or the movement envelope refuses the frame: the
\* sequence number is spent all the same.
Input(s, seq, dist) ==
  /\ s \in DOMAIN seats
  /\ seq > seats[s].lastSeq
  /\ dist = NoState \/ dist >= seats[s].dist - Tolerance
  /\ seats' = [seats EXCEPT ![s] = [seats[s] EXCEPT !.silent = 0, !.lastSeq = seq,
                 !.dist = IF dist = NoState THEN @ ELSE dist]]
  /\ UNCHANGED <<issued, status, host, nextPlace, finishOrder, clock,
                 finishedAt, results, awarded>>

\* heartbeat() with a fresh sequence number; a stale one changes nothing.
Heartbeat(s, seq) ==
  /\ s \in DOMAIN seats
  /\ seq > seats[s].lastSeq
  /\ seats' = [seats EXCEPT ![s] = [seats[s] EXCEPT !.silent = 0, !.lastSeq = seq]]
  /\ UNCHANGED <<issued, status, host, nextPlace, finishOrder, clock,
                 finishedAt, results, awarded>>

\* finish(): the place is the arrival order, the time the server's clock,
\* the distance the server's own, or the claim if it has none.
Finish(s, claimed) ==
  /\ StillFlying(s)
  /\ LET ss == [seats EXCEPT ![s] = [seats[s] EXCEPT !.finish =
                  [place |-> nextPlace, time |-> IF clock < 0 THEN 0 ELSE clock,
                   dist |-> Official(seats[s], claimed)]]]
     IN MaybeComplete(ss, {})
  /\ finishOrder' = finishOrder \cup {s}
  /\ nextPlace' = nextPlace + 1
  /\ Award(s, nextPlace)
  /\ UNCHANGED <<issued, clock>>

\* Mutant: an empty lobby is only closed by the tick that empties it.
LobbyStatusOnReap(ss) ==
  IF DOMAIN ss = {} /\ DOMAIN seats # {} THEN "canceled" ELSE status

LobbyStatus(ss) == IF DOMAIN ss = {} THEN "canceled" ELSE status

\* tickStep in a lobby: expired seats go, and an empty lobby closes without
\* a finishedAtMs.
TickLobby ==
  /\ status = "lobby"
  /\ LET gone == {s \in DOMAIN seats : Expired(seats[s])}
     IN /\ seats' = Without(seats, gone)
        /\ finishOrder' = finishOrder \ gone
        /\ host' = IF gone = {} THEN host ELSE HostOf(seats')
  /\ status' = LobbyStatus(seats')
  /\ UNCHANGED <<issued, nextPlace, clock, finishedAt, results, awarded>>

\* The seats a racing tick gives up, and the places they take in join order.
Abandoned == {s \in Unplaced(seats) : Expired(seats[s])}

\* Mutants: a wave of timeouts takes one place; the counter is bumped first.
AbandonedSamePlace(s) == nextPlace
AbandonedNextPlace(s) == nextPlace + Cardinality({t \in Abandoned : t <= s})

AbandonedPlace(s) == nextPlace + Cardinality({t \in Abandoned : t < s})

\* Mutant: the cap looks for somebody to cut off.
CapReachedBySomebody == clock > MaxRace /\ DOMAIN seats # {}

CapReached == clock > MaxRace

\* tickStep while racing, before the race cap.
TickRace ==
  /\ status = "racing"
  /\ ~CapReached
  /\ LET ss == Without(seats, Abandoned)
     IN \/ /\ Abandoned # {} /\ AllDone(ss)
           /\ CompleteRace(ss)
        \/ /\ ~(Abandoned # {} /\ AllDone(ss))
           /\ seats' = ss
           /\ host' = IF Abandoned = {} THEN host ELSE HostOf(ss)
           /\ UNCHANGED <<status, finishedAt, results>>
  /\ nextPlace' = nextPlace + Cardinality(Abandoned)
  /\ awarded' = awarded \cup {<<s, AbandonedPlace(s)>> : s \in Abandoned}
  /\ UNCHANGED <<issued, finishOrder, clock>>

\* tickStep past the race cap: abandoned seats go first, then whoever still
\* flies gets a place by distance, and the race completes.
TickCap ==
  /\ status = "racing"
  /\ CapReached
  /\ LET left   == Without(seats, Abandoned)
         flying == Unplaced(left)
         place(s) == nextPlace + Cardinality(Abandoned)
                       + Cardinality({t \in flying : AheadByDistance(seats, t, s)})
         ss == [s \in DOMAIN left |->
                  IF s \in flying
                  THEN [left[s] EXCEPT !.dnf = TRUE,
                          !.finish = [place |-> place(s), time |-> clock,
                                      dist |-> Travelled(left[s])]]
                  ELSE left[s]]
     IN /\ CompleteRace(ss)
        /\ nextPlace' = nextPlace + Cardinality(Abandoned) + Cardinality(flying)
        /\ finishOrder' = finishOrder \cup flying
        /\ awarded' = awarded
             \cup {<<s, AbandonedPlace(s)>> : s \in Abandoned}
             \cup {<<s, place(s)>> : s \in flying}
  /\ UNCHANGED <<issued, clock>>

TickStep == TickLobby \/ TickRace \/ TickCap

\* Time passes.
Elapse ==
  /\ Open
  /\ seats' = [s \in DOMAIN seats |->
                 [seats[s] EXCEPT !.silent = IF @ > Grace THEN @ ELSE @ + 1]]
  /\ clock' = IF status = "racing" /\ clock <= MaxRace THEN clock + 1 ELSE clock
  /\ UNCHANGED <<issued, status, host, nextPlace, finishOrder, finishedAt,
                 results, awarded>>

Arrive(p) ==
  \/ JoinNew(p)
  \/ JoinExisting(p)
  \/ JoinExpired(p)
  \/ \E s \in SeatIds, gen \in 1..MaxGen : JoinWithToken(p, s, gen)

Pilot(s) ==
  \/ \E value \in BOOLEAN : Ready(s, value)
  \/ Start(s)
  \/ Cancel(s)
  \/ LeaveFlying(s)
  \/ LeaveIdle(s)
  \/ MarkDisconnected(s)
  \/ Poke(s)
  \/ \E seq \in 1..MaxSeq, dist \in NoState..MaxDistance : Input(s, seq, dist)
  \/ \E seq \in 1..MaxSeq : Heartbeat(s, seq)
  \/ \E claimed \in 0..MaxDistance : Finish(s, claimed)

Next ==
  \/ \E p \in Players : Arrive(p)
  \/ \E s \in SeatIds : Pilot(s)
  \/ TickStep
  \/ Elapse

Spec == Init /\ [][Next]_vars

\* The tick timer is a setInterval that is only cleared when the room is
\* destroyed, and time passes whatever anybody does.
FairSpec == Spec /\ WF_vars(TickStep) /\ WF_vars(Elapse)
----------------------------------------------------------------------------
(* Properties                                                              *)

\* Every variable has its type, and live seats were drawn.
TypeOK ==
  /\ issued \in 0..MaxSeats
  /\ SeatMap(seats, issued)
  /\ status \in {"lobby", "racing", "finished", "canceled"}
  /\ host \in 0..MaxSeats
  /\ nextPlace \in Nat \ {0}
  /\ finishOrder \subseteq 1..issued
  /\ clock \in (-Countdown)..(MaxRace + 1)
  /\ finishedAt \in BOOLEAN
  /\ DOMAIN results \subseteq 1..issued
  /\ results \in [DOMAIN results -> Row]
  /\ awarded \subseteq (1..issued) \X (Nat \ {0})

\* The host is the first connected seat in join order after every call that
\* joins, drops, reattaches or removes a seat, so a room with a connected
\* pilot always has someone who may start or cancel it (migrateHost).
HostIsFirstConnected ==
  /\ host = 0 <=> Connected(seats) = {}
  /\ host # 0 => /\ host \in Connected(seats)
                 /\ \A s \in Connected(seats) : host <= s

\* No two "finish" events of a race announce the same place, and no seat is
\* given two: leavers, timeouts and the race cap included (nextPlace).
PlacesUnique ==
  \A a, b \in awarded : (a[1] = b[1]) <=> (a[2] = b[2])

\* Why places stay unique (the inductive strengthening of PlacesUnique): the
\* counter is past every place handed out, nothing was handed out before the
\* start resets it, and a live seat has a record exactly if it has a place.
PlacesInv ==
  /\ PlacesUnique
  /\ \A a \in awarded : a[2] < nextPlace
  /\ status = "lobby" => awarded = {}
  /\ \A a \in awarded : a[1] \in DOMAIN seats => a[1] \in Placed(seats)
  /\ \A s \in Placed(seats) : <<s, seats[s].finish.place>> \in awarded

\* The places announced so far are exactly 1, 2, ... up to the counter: no
\* race shows a P3 without a P2.
PlacesDense == {a[2] : a \in awarded} = 1..(nextPlace - 1)

\* However often a pilot joins, comes back or is dropped by the timeout, the
\* room holds one seat per player and never more than its capacity (join).
OneSeatPerPlayer ==
  /\ \A s, t \in DOMAIN seats : seats[s].player = seats[t].player => s = t
  /\ Cardinality(DOMAIN seats) <= Capacity

\* The standings of a finished race list only places the race awarded: a
\* dropped pilot within the grace window keeps the race open (maybeComplete),
\* so nobody is ranked who neither finished, left nor ran out of time.
ResultsAreAwarded ==
  status = "finished" => \A s \in DOMAIN results : <<s, results[s].place>> \in awarded

\* A race nobody flies in any more is over: while pilots are seated, one of
\* them is still to get a place.  Every way a flying pilot can get one or go
\* (finish, leave, timeout) re-evaluates the end of the race (maybeComplete).
RaceNeverLingers ==
  status = "racing" /\ DOMAIN seats # {} => Unplaced(seats) # {}

\* In the standings of a finished race the list order is the order of the
\* places, up to ties in time; nobody who did not finish outranks a finisher.
ResultsInPlaceOrder ==
  status = "finished" =>
    \A s, t \in DOMAIN results :
      results[s].place < results[t].place =>
        \/ results[s].pos < results[t].pos
        \/ results[s].time = results[t].time /\ results[s].dnf = results[t].dnf

\* A place, once announced for a seat, stays that seat's record for as long
\* as the seat lives: no reconnect, late frame or timeout rewrites it.
FinishIsFinal ==
  [][\A s \in Placed(seats) :
       s \in DOMAIN seats' => seats'[s].finish = seats[s].finish]_vars

\* A pilot whose socket dropped less than the grace window ago loses the
\* seat only by an explicit leave or by the end of the room.
GraceIsHonoured ==
  [][\A s \in DOMAIN seats :
       (seats[s].silent <= Grace /\ s \notin DOMAIN seats') =>
          \/ status' \in {"finished", "canceled"}
          \/ LeaveFlying(s) \/ LeaveIdle(s)]_vars

\* A race that started ends, whether or not any pilot ever sends a frame
\* again: the timer reaps the dropped ones and caps the rest.
RaceEnds == (status = "racing") ~> (status \in {"finished", "canceled"})

\* A lobby that everybody has left closes, unless a pilot comes in first.
EmptyLobbyCloses ==
  (status = "lobby" /\ DOMAIN seats = {}) ~>
    (status = "canceled" \/ DOMAIN seats # {})

\* No session stays for ever without anybody: the two together.
SessionsEnd == RaceEnds /\ EmptyLobbyCloses

\* "Finish places are the scoreboard. They must be unique for a whole race,
\* even when pilots leave" (server/tests/finish-places.test.ts): no standings
\* a room broadcasts, those of a canceled race included, show a place twice.
ScoreboardPlacesUnique ==
  \A s, t \in DOMAIN results : results[s].place = results[t].place => s = t

\* The room implements its abstract specification: the ranking it publishes
\* is that of a race that was completed (completeRace), not canceled.
Published ==
  IF status = "finished" THEN {<<s, results[s].place>> : s \in DOMAIN results}
                         ELSE {}

Room == INSTANCE RaceRoom WITH phase <- status, given <- awarded,
                               published <- Published
ImplementsRoom == Room!Spec
=============================================================================
