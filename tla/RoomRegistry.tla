---------------------------- MODULE RoomRegistry ----------------------------
(***************************************************************************)
(* The room registry of the Rust service, protocol v1                      *)
(* (rust/crates/sunbird-server/src/rooms.rs, RoomManager): two maps behind *)
(* one lock, so every operation is atomic.  RoomSockets puts the socket    *)
(* tasks that call it on top.                                              *)
(*                                                                         *)
(* Abstractions.  Room and seat ids (random UUIDs) are numbers in the      *)
(* order they are drawn, so a smaller seat id has the earlier joined_at.   *)
(* Names, skins and broadcast payloads are left out; a heartbeat is either *)
(* recent or older than SEAT_TIMEOUT.                                      *)
(***************************************************************************)
EXTENDS Integers, FiniteSets, Functions

CONSTANTS
  Codes,        \* room codes, as normalize_code leaves them
  Seeds,        \* race seeds
  MinCapacity,  \* MIN_CAPACITY: pilots it takes to race
  Capacity,     \* DEFAULT_CAPACITY: no caller of join gives a hint
  MaxRooms,     \* bound: rooms ever made
  MaxSeats      \* bound: seats ever granted

ASSUME RegistryAssumption ==
  /\ MinCapacity \in Nat \ {0} /\ Capacity \in Nat \ {0}
  /\ MaxRooms \in Nat /\ MaxSeats \in Nat

VARIABLES
  rooms,       \* room id -> room
  byCode,      \* room code -> room id
  roomsMade, seatsMade

registry == <<rooms, byCode, roomsMade, seatsMade>>

RoomIds == 1..MaxRooms
SeatIds == 1..MaxSeats

Seat == [ready : BOOLEAN, gen : Nat, silent : BOOLEAN]

\* A room with the seats S.
Room(S) == [code : Codes, seed : Seeds, host : SeatIds \cup {0}, started : BOOLEAN,
            seats : [S -> Seat]]

Live     == DOMAIN rooms
Taken    == DOMAIN byCode
Seats(r) == DOMAIN rooms[r].seats

RegistryInit ==
  /\ rooms = [r \in {} |-> 0] /\ byCode = [c \in {} |-> 0]
  /\ roomsMade = 0 /\ seatsMade = 0
----------------------------------------------------------------------------
NewSeat == [ready |-> FALSE, gen |-> 1, silent |-> FALSE]

Oldest(S) == CHOOSE s \in S : \A t \in S : s <= t

\* Mutant: the host's seat is not looked at when the host goes.
KeepHost(room, left) == room.host

\* A departing host hands the room to the longest-seated pilot.
HostAfter(room, left) ==
  IF room.host \in left \/ left = {} THEN room.host ELSE Oldest(left)

\* Mutant: the room is torn down, its code is not.
CodesKept(gone) == byCode

\* Teardown of the rooms in `gone' takes their codes along.
CodesWithout(gone) == Restrict(byCode, {c \in Taken : byCode[c] \notin gone})

\* Mutant: the last pilot leaves an empty room behind.
EmptiedKept(left) == {}

\* The rooms that lose their last seat, when `left' are the seats kept.
Emptied(left) == {r \in Live : left[r] = {}}

\* What leave and sweep make of the registry; left is a function from every
\* room to the seats it keeps.
Keep(left) ==
  LET gone == Emptied(left)
  IN /\ rooms' = [r \in Live \ gone |->
                    [rooms[r] EXCEPT !.seats = Restrict(rooms[r].seats, left[r]),
                                     !.host = HostAfter(rooms[r], left[r])]]
     /\ byCode' = CodesWithout(gone)
     /\ UNCHANGED <<roomsMade, seatsMade>>

\* Mutant: a started race takes late joiners.
HasSpace(room) == Cardinality(DOMAIN room.seats) < Capacity

\* A room that takes a new pilot.
Joinable(room) == ~room.started /\ Cardinality(DOMAIN room.seats) < Capacity

\* A new seat s in room r of the registry map rs.
Seated(rs, r, s) ==
  [rs EXCEPT ![r] = [rs[r] EXCEPT
     !.host  = IF DOMAIN rs[r].seats = {} THEN s ELSE rs[r].host,
     !.seats = [t \in DOMAIN rs[r].seats \cup {s} |->
                  IF t = s THEN NewSeat ELSE rs[r].seats[t]]]]

\* join into the existing room r.
JoinRoom(r) ==
  /\ r \in Live /\ Joinable(rooms[r]) /\ seatsMade < MaxSeats
  /\ seatsMade' = seatsMade + 1
  /\ rooms' = Seated(rooms, r, seatsMade')
  /\ UNCHANGED <<byCode, roomsMade>>

\* create_room_with_code, and the first seat with it.
JoinFresh(code, seed) ==
  /\ roomsMade < MaxRooms /\ seatsMade < MaxSeats
  /\ roomsMade' = roomsMade + 1 /\ seatsMade' = seatsMade + 1
  /\ LET room == [code |-> code, seed |-> seed, host |-> 0, started |-> FALSE,
                  seats |-> [s \in {} |-> NewSeat]]
         made == [r \in Live \cup {roomsMade'} |->
                    IF r = roomsMade' THEN room ELSE rooms[r]]
     IN rooms' = Seated(made, roomsMade', seatsMade')
  /\ byCode' = [c \in Taken \cup {code} |-> IF c = code THEN roomsMade' ELSE byCode[c]]

\* join with a code: the room of that code, made on demand.  A room found
\* by code may have another seed.
JoinByCode(code, seed) ==
  IF code \in Taken THEN JoinRoom(byCode[code]) ELSE JoinFresh(code, seed)

\* Open rooms on the seed, and the fullest of them (HashMap order breaks ties).
OpenRooms(seed) == {r \in Live : rooms[r].seed = seed /\ Joinable(rooms[r])}
Fullest(rs) == {r \in rs : \A q \in rs : Cardinality(Seats(q)) <= Cardinality(Seats(r))}

\* join without a code: matchmake; fresh_code draws a code not in use.
Matchmake(seed) ==
  IF OpenRooms(seed) # {}
  THEN \E r \in Fullest(OpenRooms(seed)) : JoinRoom(r)
  ELSE \E code \in Codes \ Taken : JoinFresh(code, seed)

Join(code, seed) == JoinByCode(code, seed) \/ Matchmake(seed)

Leave(r, s) ==
  /\ r \in Live /\ s \in Seats(r)
  /\ Keep([q \in Live |-> IF q = r THEN Seats(r) \ {s} ELSE Seats(q)])

\* The all-ready barrier, of the seats as they are after the flip.
AllReady(seats) ==
  Cardinality(DOMAIN seats) >= MinCapacity /\ \A s \in DOMAIN seats : seats[s].ready

SetReady(r, s, ready) ==
  /\ r \in Live /\ s \in Seats(r)
  /\ LET seats == [rooms[r].seats EXCEPT ![s].ready = ready, ![s].silent = FALSE]
     IN rooms' = [rooms EXCEPT ![r].seats = seats,
                               ![r].started = rooms[r].started \/ AllReady(seats)]
  /\ UNCHANGED <<byCode, roomsMade, seatsMade>>

Heartbeat(r, s) ==
  /\ r \in Live /\ s \in Seats(r)
  /\ rooms' = [rooms EXCEPT ![r].seats[s].silent = FALSE]
  /\ UNCHANGED <<byCode, roomsMade, seatsMade>>

\* seat_generation: 0 for a seat that is gone.
Generation(r, s) == IF r \in Live /\ s \in Seats(r) THEN rooms[r].seats[s].gen ELSE 0

\* Mutant: a reattached seat keeps its generation.
SameGen(seat) == seat.gen
NextGen(seat) == seat.gen + 1

Reconnect(r, s) ==
  /\ r \in Live /\ s \in Seats(r)
  /\ rooms' = [rooms EXCEPT ![r].seats[s].gen = NextGen(rooms[r].seats[s]),
                            ![r].seats[s].silent = FALSE]
  /\ UNCHANGED <<byCode, roomsMade, seatsMade>>

\* SEAT_TIMEOUT without a heartbeat.
FallSilent(r, s) ==
  /\ r \in Live /\ s \in Seats(r) /\ ~rooms[r].seats[s].silent
  /\ rooms' = [rooms EXCEPT ![r].seats[s].silent = TRUE]
  /\ UNCHANGED <<byCode, roomsMade, seatsMade>>

Sweep ==
  LET left == [r \in Live |-> {s \in Seats(r) : ~rooms[r].seats[s].silent}]
  IN (\E r \in Live : left[r] # Seats(r)) /\ Keep(left)
----------------------------------------------------------------------------
(* Properties of the registry, whoever calls it                            *)

RegistryTypeOK ==
  /\ Live \subseteq 1..roomsMade /\ rooms = [r \in Live |-> rooms[r]]
  /\ \A r \in Live : Seats(r) \subseteq 1..seatsMade /\ rooms[r] \in Room(Seats(r))
  /\ Taken \subseteq Codes /\ byCode \in [Taken -> RoomIds]
  /\ roomsMade \in 0..MaxRooms /\ seatsMade \in 0..MaxSeats

\* The two maps name the same rooms: every code in use leads to a live room
\* that carries it, and every room is found by its code ("Same code can be
\* reused afterwards", tests of rooms.rs).
CodesMatchRooms ==
  /\ \A c \in Taken : byCode[c] \in Live /\ rooms[byCode[c]].code = c
  /\ \A r \in Live : rooms[r].code \in Taken /\ byCode[rooms[r].code] = r

\* "empty rooms are torn down" (rust/README.md): in the same step.
NoEmptyRooms == \A r \in Live : Seats(r) # {}

\* "host is the first pilot; a departing host hands the room to the
\* longest-seated pilot" (rust/README.md): the host is always the seated
\* pilot who joined first, whichever way the others went.
HostIsLongestSeated ==
  \A r \in Live : Seats(r) # {} =>
    rooms[r].host \in Seats(r) /\ \A s \in Seats(r) : rooms[r].host <= s

\* A race that started keeps to its field: nobody joins it, and it never
\* becomes a lobby again.
StartedFieldsOnlyShrink ==
  [][\A r \in Live : (rooms[r].started /\ r \in DOMAIN rooms') =>
       rooms'[r].started /\ DOMAIN rooms'[r].seats \subseteq Seats(r)]_registry

\* "All pilots ready (at least two seated): started" (rust/README.md): no
\* lobby waits with everybody ready.
ReadyLobbiesStart == \A r \in Live : AllReady(rooms[r].seats) => rooms[r].started
=============================================================================
