---------------------------- MODULE RoomService ----------------------------
(***************************************************************************)
(* The registry of race rooms of the Node social backend                   *)
(* (server/src/rooms/RoomService.ts): room codes, public matchmaking, the  *)
(* REST face of a room, the legacy gateway's rooms on demand, suspensions  *)
(* and the prune timer.                                                    *)
(*                                                                         *)
(* One JavaScript process: every handler and every timer run is atomic.    *)
(*                                                                         *)
(* Abstractions.                                                           *)
(*  - A room is what the registry can tell of a RaceSession, which has a   *)
(*    module of its own: its status and, per pilot, whether the socket is  *)
(*    up, whether the reconnect grace window has passed, and whether the   *)
(*    pilot has a place.  Hosts, places and frames are left out: whoever   *)
(*    is connected may start or cancel, and the race cap may fall at any   *)
(*    time.  RaceSession shows one seat per player, so players key seats.  *)
(*  - Time passes in units of the reconnect grace window.                  *)
(*  - A match token reaches no client in this code (matchTokenFor has no   *)
(*    caller), so submitResult, which changes no state, is left out.       *)
(***************************************************************************)
EXTENDS Integers, FiniteSets, Functions

CONSTANTS
  Players,      \* the pilots
  Codes,        \* room codes
  Seeds,        \* race seeds
  Capacity,     \* cfg.roomCapacity
  EmptyTtl,     \* EMPTY_ROOM_TTL_MS
  FinishedTtl   \* FINISHED_ROOM_TTL_MS

ASSUME ServiceAssumption ==
  /\ IsFiniteSet(Players)
  /\ Capacity \in Nat \ {0}
  /\ EmptyTtl \in Nat /\ FinishedTtl \in Nat

VARIABLES
  sessions,     \* room code -> room, for the rooms that exist
  order,        \* the Map's order: <<c, d>> when c was put in before d
  suspended     \* players whose account is suspended

vars == <<sessions, order, suspended>>

MaxTtl == IF EmptyTtl > FinishedTtl THEN EmptyTtl ELSE FinishedTtl

Seat == [phase : {"connected", "reconnecting"}, stale : BOOLEAN, done : BOOLEAN]

SeatMaps == UNION {[S -> Seat] : S \in SUBSET Players}

\* age counts from createdAtMs, or from finishedAtMs once that is stamped.
Room == [seed : Seeds, status : {"lobby", "racing", "finished", "canceled"},
         seats : SeatMaps, age : 0..(MaxTtl + 1), stamped : BOOLEAN]

NoSeats   == [p \in {} |-> 0]
FreshSeat == [phase |-> "connected", stale |-> FALSE, done |-> FALSE]

\* A session newSession has just made.
NewRoom(seed) == [seed |-> seed, status |-> "lobby", seats |-> NoSeats,
                  age |-> 0, stamped |-> FALSE]
----------------------------------------------------------------------------
(* What a session does                                                     *)

Seated(r)    == DOMAIN r.seats
Connected(r) == {p \in Seated(r) : r.seats[p].phase = "connected"}
Full(r)      == Cardinality(Seated(r)) >= Capacity

\* Mutant: a finished room still takes joins.
NotCanceled(r) == r.status # "canceled"
Open(r)     == r.status \in {"lobby", "racing"}
Terminal(r) == r.status \in {"finished", "canceled"}

\* Mutant: the capacity of a room is not looked at.
AcceptsAnybody(r, p) == Open(r)
Accepts(r, p) == Open(r) /\ (p \in Seated(r) \/ ~Full(r))

\* join: the player's own seat, unless it sat out the grace window.
Joined(r, p) ==
  LET kept == p \in Seated(r) /\ ~r.seats[p].stale
  IN [r EXCEPT !.seats = [q \in Seated(r) \cup {p} |->
        IF q # p THEN r.seats[q]
        ELSE IF kept THEN [r.seats[p] EXCEPT !.phase = "connected"]
        ELSE FreshSeat]]

\* join with the current reconnect token: whatever the age of the seat.
Reattached(r, p) ==
  [r EXCEPT !.seats[p].phase = "connected", !.seats[p].stale = FALSE]

Removed(r, ps) == [r EXCEPT !.seats = Restrict(r.seats, Seated(r) \ ps)]

\* Mutant: completing a race forgets to stamp finishedAtMs.
ClosedUnstamped(r, status) == [r EXCEPT !.status = status, !.seats = NoSeats]

\* completeRace and cancel: the seats are swept and the end is stamped.
Closed(r, status) == [r EXCEPT !.status = status, !.seats = NoSeats,
                               !.age = 0, !.stamped = TRUE]

\* maybeComplete
Settled(r) ==
  IF Seated(r) # {} /\ \A p \in Seated(r) : r.seats[p].done
  THEN Closed(r, "finished") ELSE r

Placed(r, p) == Settled([r EXCEPT !.seats[p].done = TRUE])

\* leave: a DNF when still flying, which may complete the race.
Left(r, p) ==
  IF r.status = "racing" /\ ~r.seats[p].done
  THEN Removed(Placed(r, p), {p})
  ELSE Removed(r, {p})

\* Dropped pilots whose grace window has passed.
Overdue(r) == {p \in Seated(r) : r.seats[p].phase = "reconnecting" /\ r.seats[p].stale}

\* tickStep of a lobby; note that an emptied lobby is not stamped.
TickedLobby(r) ==
  LET w == Removed(r, Overdue(r))
  IN IF Seated(w) = {} THEN [w EXCEPT !.status = "canceled"] ELSE w

\* tickStep of a race, the race cap aside.
TickedRace(r) ==
  LET gone == {p \in Overdue(r) : ~r.seats[p].done}
  IN IF gone = {} THEN r ELSE Settled(Removed(r, gone))
----------------------------------------------------------------------------
(* The registry                                                            *)

Init == sessions = [c \in {} |-> 0] /\ order = {} /\ suspended = {}

Live == DOMAIN sessions

\* The first of the given rooms in Map order.
FirstOf(cs) == CHOOSE c \in cs : \A d \in cs \ {c} : <<c, d>> \in order

Put(c, room) == sessions' = [sessions EXCEPT ![c] = room]

\* newSession on a free code, with the session it makes.
AddRoom(c, room) ==
  /\ sessions' = [d \in Live \cup {c} |-> IF d = c THEN room ELSE sessions[d]]
  /\ order' = order \cup (Live \X {c})

\* create: makeRoomCode draws a code no session has.
Create(p, seed) ==
  /\ p \notin suspended
  /\ \E c \in Codes \ Live : AddRoom(c, Joined(NewRoom(seed), p))
  /\ UNCHANGED suspended

OpenLobbies(seed) ==
  {c \in Live : /\ sessions[c].status = "lobby" /\ sessions[c].seed = seed
                /\ ~Full(sessions[c])}

\* Mutant: racing rooms are not skipped when full.
RacesOnSeed(p, seed) ==
  {c \in Live : sessions[c].status = "racing" /\ sessions[c].seed = seed}

\* Mutant: a full race is skipped, whoever asks.
RacesWithRoom(p, seed) ==
  {c \in Live : /\ sessions[c].status = "racing" /\ sessions[c].seed = seed
                /\ ~Full(sessions[c])}

\* Racing rooms that hold a seat of this player, or have one to give.
RacesWithSeat(p, seed) ==
  {c \in Live : /\ sessions[c].status = "racing" /\ sessions[c].seed = seed
                /\ p \in Seated(sessions[c]) \/ ~Full(sessions[c])}

Candidates(p, seed) ==
  IF OpenLobbies(seed) # {} THEN OpenLobbies(seed) ELSE RacesWithSeat(p, seed)

\* matchmake, by REST or by either gateway: first open lobby, else a race,
\* else a room of one's own.
Matchmake(p, seed) ==
  /\ p \notin suspended
  /\ LET cs == Candidates(p, seed)
     IN IF cs = {} THEN Create(p, seed)
        ELSE /\ Accepts(sessions[FirstOf(cs)], p)
             /\ Put(FirstOf(cs), Joined(sessions[FirstOf(cs)], p))
             /\ UNCHANGED <<order, suspended>>

\* join by room code, over REST or the v1 socket.
Join(p, c) ==
  /\ p \notin suspended
  /\ c \in Live /\ Accepts(sessions[c], p)
  /\ Put(c, Joined(sessions[c], p))
  /\ UNCHANGED <<order, suspended>>

Reconnect(p, c) ==
  /\ p \notin suspended
  /\ c \in Live /\ Open(sessions[c]) /\ p \in Seated(sessions[c])
  /\ Put(c, Reattached(sessions[c], p))
  /\ UNCHANGED <<order, suspended>>

\* The legacy gateway on a code of the client's choice: createForGateway
\* returns the session there is or makes one, and the socket joins it.
Connect(p, c, seed) ==
  /\ p \notin suspended
  /\ IF c \in Live
     THEN /\ Accepts(sessions[c], p)
          /\ Put(c, Joined(sessions[c], p)) /\ UNCHANGED order
     ELSE AddRoom(c, Joined(NewRoom(seed), p))
  /\ UNCHANGED suspended

\* leave, by REST or by either socket; the host's kick is the same call.
Leave(p, c) ==
  /\ c \in Live /\ p \in Seated(sessions[c])
  /\ Put(c, Left(sessions[c], p))
  /\ UNCHANGED <<order, suspended>>

\* start by the host, or the all-ready barrier.
Start(c) ==
  /\ c \in Live /\ sessions[c].status = "lobby" /\ Connected(sessions[c]) # {}
  /\ Put(c, [sessions[c] EXCEPT !.status = "racing"])
  /\ UNCHANGED <<order, suspended>>

Cancel(c) ==
  /\ c \in Live /\ Open(sessions[c]) /\ Connected(sessions[c]) # {}
  /\ Put(c, Closed(sessions[c], "canceled"))
  /\ UNCHANGED <<order, suspended>>

\* Mutant: the player is looked for in the oldest room only.
FirstSeat(p) == {c \in Live : c = FirstOf(Live) /\ p \in Seated(sessions[c])}
SeatsHeld(p) == {c \in Live : p \in Seated(sessions[c])}

\* suspend and kickPlayer: out of every live room at once.
Suspend(p) ==
  /\ suspended' = suspended \cup {p}
  /\ sessions' = [c \in Live |-> IF c \in SeatsHeld(p) THEN Left(sessions[c], p)
                                 ELSE sessions[c]]
  /\ UNCHANGED order

\* restore, an expired suspension, or a mute that takes its place.
Restore(p) == suspended' = suspended \ {p} /\ UNCHANGED <<sessions, order>>
----------------------------------------------------------------------------
(* Sockets, timers and the clock                                           *)

Drop(p, c) ==
  /\ c \in Live /\ p \in Connected(sessions[c])
  /\ Put(c, [sessions[c] EXCEPT !.seats[p].phase = "reconnecting",
                                !.seats[p].stale = FALSE])
  /\ UNCHANGED <<order, suspended>>

\* Any inbound frame.
Frame(p, c) ==
  /\ c \in Live /\ p \in Seated(sessions[c])
  /\ Put(c, [sessions[c] EXCEPT !.seats[p].stale = FALSE])
  /\ UNCHANGED <<order, suspended>>

Finish(p, c) ==
  /\ c \in Live /\ sessions[c].status = "racing"
  /\ p \in Seated(sessions[c]) /\ ~sessions[c].seats[p].done
  /\ Put(c, Placed(sessions[c], p))
  /\ UNCHANGED <<order, suspended>>

Tick(c) ==
  /\ c \in Live
  /\ \/ sessions[c].status = "lobby" /\ Put(c, TickedLobby(sessions[c]))
     \/ sessions[c].status = "racing" /\ Put(c, TickedRace(sessions[c]))
  /\ UNCHANGED <<order, suspended>>

\* tickStep of a race past maxRaceMs.
RaceCap(c) ==
  /\ c \in Live /\ sessions[c].status = "racing"
  /\ Put(c, Closed(sessions[c], "finished"))
  /\ UNCHANGED <<order, suspended>>

Ttl(r) == IF Terminal(r) THEN FinishedTtl ELSE EmptyTtl

\* A closed room without a stamp is as old as now: finishedAtMs || now.
Age(r) == IF Terminal(r) /\ ~r.stamped THEN 0 ELSE r.age

Prunable(c) == Seated(sessions[c]) = {} /\ Age(sessions[c]) > Ttl(sessions[c])

\* Mutant: a pruned room keeps its place in the Map order.
SameOrder(cs) == order
OrderWithout(cs) == {e \in order : e[1] \notin cs /\ e[2] \notin cs}

Prune ==
  LET gone == {c \in Live : Prunable(c)}
  IN /\ gone # {}
     /\ sessions' = Restrict(sessions, Live \ gone)
     /\ order' = OrderWithout(gone)
     /\ UNCHANGED suspended

\* One grace window later.
Aged(r) ==
  [r EXCEPT !.age = IF r.age > MaxTtl THEN r.age ELSE r.age + 1,
            !.seats = [p \in Seated(r) |-> [r.seats[p] EXCEPT !.stale = TRUE]]]

Elapse ==
  /\ sessions' = [c \in Live |-> Aged(sessions[c])]
  /\ UNCHANGED <<order, suspended>>

Visit(p) ==
  \/ \E seed \in Seeds : \/ Create(p, seed) \/ Matchmake(p, seed)
                         \/ \E c \in Codes : Connect(p, c, seed)
  \/ \E c \in Codes : Join(p, c) \/ Reconnect(p, c) \/ Leave(p, c)
  \/ \E c \in Codes : Drop(p, c) \/ Frame(p, c) \/ Finish(p, c)
  \/ Suspend(p) \/ Restore(p)

RoomStep(c) == Start(c) \/ Cancel(c) \/ Tick(c) \/ RaceCap(c)

Next == \/ \E p \in Players : Visit(p)
        \/ \E c \in Codes : RoomStep(c)
        \/ Prune \/ Elapse

Spec == Init /\ [][Next]_vars

\* Every session's tick timer, the prune timer and the clock keep running
\* (setInterval); RaceSession shows that its race cap ends every race.
FairSpec == /\ Spec /\ WF_vars(Prune) /\ WF_vars(Elapse)
            /\ \A c \in Codes : WF_vars(Tick(c)) /\ WF_vars(RaceCap(c))
----------------------------------------------------------------------------
(* Properties                                                              *)

RoomsOK ==
  /\ Live \subseteq Codes /\ sessions \in [Live -> Room]
  /\ suspended \subseteq Players

\* The Map's order is a strict linear order of the rooms that exist.
OrderOK ==
  /\ order \subseteq Live \X Live
  /\ \A c, d \in Live : (<<c, d>> \in order) <=> (c # d /\ <<d, c>> \notin order)
  /\ \A c, d, e \in Live : <<c, d>> \in order /\ <<d, e>> \in order => <<c, e>> \in order

\* The type invariant.
TypeOK == RoomsOK /\ OrderOK

\* "Suspended players are kicked from every live room (propagation)"
\* (kickPlayer), and every way into a room checks: whatever a suspension
\* races with, a suspended player holds no seat anywhere.
SuspendedHoldNoSeat ==
  \A c \in Live : Seated(sessions[c]) \cap suspended = {}

\* A room never holds more pilots than its capacity, whichever of the four
\* ways in (create, matchmaking, join by code, legacy connect) they took.
NeverOverfull == \A c \in Live : Cardinality(Seated(sessions[c])) <= Capacity

\* Matchmaking never picks a room that then turns the pilot away: the scan
\* of matchmake and the checks of join agree in every state.
MatchmakeNeverRefuses ==
  \A p \in Players, seed \in Seeds :
    LET cs == Candidates(p, seed)
    IN cs # {} => Accepts(sessions[FirstOf(cs)], p)

\* A room that is over stays empty: nobody can be seated where no timer will
\* ever free the seat again.
ClosedRoomsAreEmpty ==
  \A c \in Live : Terminal(sessions[c]) => Seated(sessions[c]) = {}

\* "A dropped pilot whose seat is in the reconnecting phase already owns a
\* slot that join() will hand back to them" (matchmake): a pilot comes back to
\* his race as he left it, full or not, unless another room takes him in.
OwnSlotIsHandedBack ==
  [][\A p \in Players, seed \in Seeds, c \in Live :
       (/\ Matchmake(p, seed) /\ sessions[c].seed = seed
        /\ sessions[c].status = "racing"
        /\ p \in Seated(sessions[c]) /\ ~sessions[c].seats[p].stale
        /\ \A d \in Live \ {c} : sessions[d].seed = seed => ~Accepts(sessions[d], p))
       => sessions'[c].seats[p] = [sessions[c].seats[p] EXCEPT !.phase = "connected"]]_vars

\* "A reconnecting pilot must land back in the room they were racing in, not
\* get silently shunted into a fresh lobby" (matchmake).
ReconnectLandsInItsRace ==
  [][\A p \in Players, seed \in Seeds, c \in Live :
       (/\ Matchmake(p, seed) /\ sessions[c].seed = seed
        /\ sessions[c].status = "racing"
        /\ p \in Seated(sessions[c]) /\ ~sessions[c].seats[p].stale)
       => sessions'[c].seats[p].phase = "connected"]_vars

\* A race that is over is forgotten: its code becomes free again.
FinishedRoomsGo ==
  \A c \in Codes : (c \in Live /\ sessions[c].status = "finished") ~> c \notin Live

\* The prune timer drops every empty room that is past its TTL
\* (EMPTY_ROOM_TTL_MS, FINISHED_ROOM_TTL_MS), abandoned lobbies included.
CanceledRoomsGo ==
  \A c \in Codes : (c \in Live /\ sessions[c].status = "canceled") ~> c \notin Live
=============================================================================
