---------------------------- MODULE RaceGateway ----------------------------
(***************************************************************************)
(* The two WebSocket gateways over the race rooms                          *)
(* (server/src/realtime/gateways.ts) and the REST routes that seat pilots  *)
(* without a socket: which socket speaks for which seat, the silence       *)
(* reaper and late close events.                                           *)
(*                                                                         *)
(* A socket of the server is two things that change at different times:    *)
(* the connection and the client object's session and seatId.  The peer    *)
(* may vanish long before the `close' event runs; by then the pilot may be *)
(* back on a new socket, over REST, or another one on the token.           *)
(*                                                                         *)
(* Abstractions.                                                           *)
(*  - A room is its status and its seats (RaceSession has the rest): who   *)
(*    sits there, whether the seat counts as connected, whether its grace  *)
(*    has run out, whether it has finished.  Seat ids are random, so the   *)
(*    seats of all rooms are one map.  All rooms are there from the start, *)
(*    as empty lobbies.  Frame numbers and the movement are left out.      *)
(*  - A reconnect token is the seat it opens; anybody may have been given  *)
(*    it.  A frame with an old one is refused, like a join of a full or    *)
(*    closed room: all that it does is to break the silence (Chatter).     *)
(*  - Silence (30 s) and grace are raised by time and lowered by frames;   *)
(*    how long a socket on its way out has been silent is left open.  The  *)
(*    fan-out of the room's events, rosters, emotes and the wire dialects  *)
(*    are left out, and sockets without an account.                        *)
(***************************************************************************)
EXTENDS Integers, FiniteSets, Functions

CONSTANTS
  Players,   \* the pilots
  Sockets,   \* the connections of a run
  NumRooms,  \* bound: rooms
  Races,     \* bound: the rooms whose race may start
  MaxSeats   \* bound: seats ever granted

ASSUME GatewayAssumption == NumRooms \in Nat \ {0} /\ MaxSeats \in Nat

VARIABLES
  sockets,   \* the client objects, with the account and the path they come by
  seats,     \* the seats of all rooms: seat number -> seat
  issued,    \* seats granted so far
  status     \* room -> its status

vars == <<sockets, seats, issued, status>>

RoomIds == 1..NumRooms
SeatIds == 1..MaxSeats
None    == 0

\* wire: "new" before the handshake, "silent" when nothing has come for 30 s,
\* "closing" once the peer is known to be gone or the server has called
\* close(), "gone" after the close event.
Socket == [wire : {"new", "open", "silent", "closing", "gone"},
           proto : {"v1", "legacy"}, player : Players,
           session : RoomIds \cup {None}, seat : SeatIds \cup {None}]

Seat == [room : RoomIds, player : Players, phase : {"connected", "reconnecting"},
         stale : BOOLEAN, finished : BOOLEAN]

\* "closed" is finished or canceled.
Status == {"lobby", "racing", "closed"}

Live == DOMAIN seats
InRoom(r) == {s \in Live : seats[s].room = r}
SeatsOf(r, p) == {s \in InRoom(r) : seats[s].player = p}
Listening(c) == sockets[c].wire \in {"open", "silent", "closing"}

\* A socket that speaks for a seat: client.session && client.seatId.
Speaks(c) == sockets[c].session # None /\ sockets[c].seat # None
Speaker(c, s) == Speaks(c) /\ sockets[c].seat = s
Spoken(s) == \E c \in Sockets : Speaker(c, s)

Init ==
  /\ sockets \in [Sockets -> {x \in Socket :
       x.wire = "new" /\ x.session = None /\ x.seat = None}]
  /\ seats = [s \in {} |-> 0] /\ issued = 0
  /\ status = [r \in RoomIds |-> "lobby"]
----------------------------------------------------------------------------
(* What the handlers and the routes call on the session                    *)

\* Mutant: a seat id is the first free slot.
FirstFree(n) == CHOOSE s \in SeatIds : s \notin Live /\ \A t \in 1..(s - 1) : t \in Live

\* randomId("seat"): an id no seat has had.
FreshId(n) == n + 1

\* join of room r by player p, no token: the player's own seat while its
\* grace lasts, else a new one, in place of the seat that is past it.
SessionJoin(r, p, s) ==
  /\ status[r] # "closed"
  /\ \/ /\ s \in SeatsOf(r, p) /\ ~seats[s].stale
        /\ seats' = [seats EXCEPT ![s].phase = "connected"]
        /\ UNCHANGED issued
     \/ /\ \A t \in SeatsOf(r, p) : seats[t].stale
        /\ issued < MaxSeats /\ s = FreshId(issued) /\ issued' = issued + 1
        /\ seats' = [t \in (Live \ SeatsOf(r, p)) \cup {s} |->
                      IF t = s THEN [room |-> r, player |-> p, phase |-> "connected",
                                     stale |-> FALSE, finished |-> FALSE]
                      ELSE seats[t]]

\* join of room r by player p, with the current token of seat s: the bearer
\* has it, stale or not, unless it is another pilot's and he has his own.
TokenJoin(r, p, s) ==
  /\ status[r] # "closed" /\ s \in InRoom(r)
  /\ seats[s].player = p \/ SeatsOf(r, p) = {}
  /\ seats' = [seats EXCEPT ![s].phase = "connected", ![s].stale = FALSE]
  /\ UNCHANGED issued

\* The seats of S remain, or none of room r's if the room is over.
Remain(S, r, over) ==
  /\ seats' = Restrict(seats, IF over THEN S \ InRoom(r) ELSE S)
  /\ status' = IF over THEN [status EXCEPT ![r] = "closed"] ELSE status

\* leave: who has not finished a race gets a DNF before the seat goes, and
\* the race completes when he was the last one out.
Leave(s) ==
  LET r == seats[s].room
  IN Remain(Live \ {s}, r,
            /\ status[r] = "racing" /\ ~seats[s].finished
            /\ \A t \in InRoom(r) \ {s} : seats[t].finished)

\* Mutant: a seat that has gone quiet is not dropped.
DroppedIfWarm(s) ==
  IF s \in Live /\ seats[s].phase = "connected" /\ ~seats[s].stale
  THEN [seats EXCEPT ![s].phase = "reconnecting"]
  ELSE seats

\* session.markDisconnected, as the gateway guards it.
Dropped(s) ==
  IF s \in Live /\ seats[s].phase = "connected"
  THEN [seats EXCEPT ![s].phase = "reconnecting", ![s].stale = FALSE]
  ELSE seats

\* poke, touch: a frame of a seat that is alive keeps it warm.
Warm(s) == IF s \in Live THEN [seats EXCEPT ![s].stale = FALSE] ELSE seats
----------------------------------------------------------------------------
(* protocol v1                                                             *)

OpenV1(c) ==
  /\ sockets[c].wire = "new" /\ sockets[c].proto = "v1"
  /\ sockets' = [sockets EXCEPT ![c].wire = "open"]
  /\ UNCHANGED <<seats, issued, status>>

\* client.lastMsg
Heard(x) == IF x.wire = "silent" THEN [x EXCEPT !.wire = "open"] ELSE x
Hear(c)  == sockets' = [sockets EXCEPT ![c] = Heard(@)]

\* The welcome: client.session and client.seatId.
Attach(c, r, s) ==
  sockets' = [sockets EXCEPT ![c] = [Heard(@) EXCEPT !.session = r, !.seat = s]]

\* "join", whether or not the socket has a seat.  By code the token decides.
\* Without a code the pilot is matched first, which seats him and makes any
\* token he brings an old one, so that the second join is refused and the
\* seat is left without a socket.
JoinV1(c) ==
  /\ Listening(c) /\ sockets[c].proto = "v1"
  /\ \E r \in RoomIds, s \in SeatIds :
       \/ SessionJoin(r, sockets[c].player, s) /\ Attach(c, r, s)
       \/ TokenJoin(r, sockets[c].player, s) /\ Attach(c, r, s)
       \/ SessionJoin(r, sockets[c].player, s) /\ Hear(c)
  /\ UNCHANGED status

\* "reconnect": on a socket that has joined before, with a current token.
ReconnectV1(c) ==
  /\ Listening(c) /\ sockets[c].proto = "v1" /\ sockets[c].session # None
  /\ \E s \in SeatIds :
       /\ TokenJoin(sockets[c].session, sockets[c].player, s)
       /\ sockets' = [sockets EXCEPT ![c] = [Heard(@) EXCEPT !.seat = s]]
  /\ UNCHANGED status

\* "leave"
LeaveV1(c) ==
  /\ Listening(c) /\ sockets[c].proto = "v1"
  /\ IF Speaks(c) /\ sockets[c].seat \in Live THEN Leave(sockets[c].seat)
     ELSE UNCHANGED <<seats, status>>
  /\ sockets' = [sockets EXCEPT ![c].session = None, ![c].seat = None,
                                ![c].wire = "closing"]
  /\ UNCHANGED issued
----------------------------------------------------------------------------
(* the legacy protocol                                                     *)

\* Connecting joins at once; a pilot who cannot be seated (the room closed, or
\* is full, or the account is suspended) is hung up on.
ConnectLegacy(c) ==
  /\ sockets[c].wire = "new" /\ sockets[c].proto = "legacy"
  /\ \/ \E r \in RoomIds, s \in SeatIds :
          /\ SessionJoin(r, sockets[c].player, s)
          /\ sockets' = [sockets EXCEPT ![c].wire = "open", ![c].session = r, ![c].seat = s]
     \/ /\ sockets' = [sockets EXCEPT ![c].wire = "closing"]
        /\ UNCHANGED <<seats, issued>>
  /\ UNCHANGED status

\* "leave" frees the seat; the socket stays.
LeaveLegacy(c) ==
  /\ Speaks(c) /\ sockets[c].proto = "legacy"
  /\ IF sockets[c].seat \in Live THEN Leave(sockets[c].seat) ELSE UNCHANGED <<seats, status>>
  /\ sockets' = [sockets EXCEPT ![c] = [Heard(@) EXCEPT !.seat = None]]
  /\ UNCHANGED issued
----------------------------------------------------------------------------
(* both                                                                    *)

\* A movement frame, a heartbeat the session accepts, any legacy frame: the
\* seat is kept warm.
Input(c) ==
  /\ Speaks(c)
  /\ Hear(c)
  /\ seats' = Warm(sockets[c].seat)
  /\ UNCHANGED <<issued, status>>

\* The other frames: ready, emotes, all that is refused.
Chatter(c) ==
  /\ Listening(c) /\ (sockets[c].proto = "legacy" => ~Speaks(c))
  /\ Hear(c)
  /\ UNCHANGED <<seats, issued, status>>

\* The finish gate; the last one through it completes the race.
Finish(c) ==
  /\ Speaks(c) /\ sockets[c].seat \in Live
  /\ LET s == sockets[c].seat
         r == seats[s].room
         over == \A t \in InRoom(r) \ {s} : seats[t].finished
     IN /\ status[r] = "racing" /\ ~seats[s].finished
        /\ IF over THEN Remain(Live, r, TRUE)
           ELSE /\ seats' = [seats EXCEPT ![s].finished = TRUE,
                                          ![s].stale = @ /\ sockets[c].proto = "v1"]
                /\ UNCHANGED status
  /\ Hear(c)
  /\ UNCHANGED issued

\* The peer hangs up or its network is gone, or the server hangs up on it;
\* the event is still to come.
HangUp(c) ==
  /\ sockets[c].wire \in {"open", "silent"}
  /\ sockets' = [sockets EXCEPT ![c].wire = "closing"]
  /\ UNCHANGED <<seats, issued, status>>

\* onGone; nobody looks at the client object again.
OnGone(c) ==
  /\ sockets[c].wire = "closing"
  /\ sockets' = [sockets EXCEPT ![c].wire = "gone", ![c].session = None, ![c].seat = None]
  /\ seats' = IF Speaks(c) THEN Dropped(sockets[c].seat) ELSE seats
  /\ UNCHANGED <<issued, status>>

\* Thirty seconds without a message.
FallSilent(c) ==
  /\ sockets[c].wire = "open"
  /\ sockets' = [sockets EXCEPT ![c].wire = "silent"]
  /\ UNCHANGED <<seats, issued, status>>

\* reapSilent, for one client of the housekeeping sweep; a client whose close
\* event is still to come is swept again.
Reap(c) ==
  /\ Speaks(c) /\ sockets[c].wire \in {"silent", "closing"}
  /\ seats' = Dropped(sockets[c].seat)
  /\ sockets' = [sockets EXCEPT ![c].wire = "closing"]
  /\ UNCHANGED <<issued, status>>
----------------------------------------------------------------------------
(* the REST routes: the client attaches over WebSocket later, or never     *)

\* create, matchmake, and join without a token.
RestJoin(p) ==
  /\ \E r \in RoomIds, s \in SeatIds : SessionJoin(r, p, s)
  /\ UNCHANGED <<sockets, status>>

\* reconnect, and join with a token.
RestReconnect(p) ==
  /\ \E r \in RoomIds, s \in SeatIds : TokenJoin(r, p, s)
  /\ UNCHANGED <<sockets, status>>

\* leave, and kickPlayer at the suspension of a pilot.
RestLeave(s) ==
  /\ s \in Live /\ Leave(s)
  /\ UNCHANGED <<sockets, issued>>
----------------------------------------------------------------------------
(* the room's own steps                                                    *)

GraceOver(s) ==
  /\ s \in Live /\ ~seats[s].stale
  /\ seats' = [seats EXCEPT ![s].stale = TRUE]
  /\ UNCHANGED <<sockets, issued, status>>

\* Mutant: only a race looks for seats past their grace, a lobby does not.
ExpirableRacing(s) ==
  /\ seats[s].phase = "reconnecting" /\ seats[s].stale
  /\ status[seats[s].room] = "racing" /\ ~seats[s].finished

Expirable(s) ==
  /\ seats[s].phase = "reconnecting" /\ seats[s].stale
  /\ status[seats[s].room] = "racing" => ~seats[s].finished

\* tickStep frees a seat past its grace window, but not one that has finished
\* the race.  An empty lobby is canceled; a race completes when somebody is
\* left and all have finished, and goes on without anybody.
Expire(s) ==
  /\ s \in Live /\ Expirable(s)
  /\ LET r == seats[s].room
         others == InRoom(r) \ {s}
     IN Remain(Live \ {s}, r,
               IF status[r] = "lobby" THEN others = {}
               ELSE others # {} /\ \A t \in others : seats[t].finished)
  /\ UNCHANGED <<sockets, issued>>

\* beginCountdown
Start(r) ==
  /\ r \in Races /\ status[r] = "lobby" /\ InRoom(r) # {}
  /\ status' = [status EXCEPT ![r] = "racing"]
  /\ UNCHANGED <<sockets, seats, issued>>

\* The host cancels, the race cap is reached, or the lobby is empty.
CloseRoom(r) ==
  /\ status[r] # "closed"
  /\ Remain(Live, r, TRUE)
  /\ UNCHANGED <<sockets, issued>>

SocketStep(c) ==
  \/ OpenV1(c) \/ JoinV1(c) \/ ReconnectV1(c) \/ LeaveV1(c)
  \/ ConnectLegacy(c) \/ LeaveLegacy(c)
  \/ Input(c) \/ Chatter(c) \/ Finish(c) \/ HangUp(c) \/ OnGone(c) \/ FallSilent(c) \/ Reap(c)

SeatStep(s) == RestLeave(s) \/ GraceOver(s) \/ Expire(s)
RoomStep(r) == Start(r) \/ CloseRoom(r)

Next == \/ \E c \in Sockets : SocketStep(c)
        \/ \E p \in Players : RestJoin(p) \/ RestReconnect(p)
        \/ \E s \in SeatIds : SeatStep(s)
        \/ \E r \in RoomIds : RoomStep(r)

Spec == Init /\ [][Next]_vars

\* Close events are delivered, the two timers (housekeeping, tick) run, and
\* the grace of a seat nobody touches runs out.
Fairness ==
  /\ \A c \in Sockets : WF_vars(OnGone(c)) /\ WF_vars(Reap(c))
  /\ \A s \in SeatIds : WF_vars(GraceOver(s) \/ Expire(s))

FairSpec == Spec /\ Fairness
----------------------------------------------------------------------------
(* Properties                                                              *)

TypeOK ==
  /\ sockets \in [Sockets -> Socket]
  /\ Live \subseteq 1..issued /\ seats \in [Live -> Seat]
  /\ issued \in 0..MaxSeats
  /\ status \in [RoomIds -> Status]

\* The session and the seat of a client object change one without the other
\* (reconnect, the legacy leave); the handlers take them together, as
\* client.session.seat(client.seatId).  A socket never names a seat of a room
\* it is not in.
SeatsInTheirSession ==
  \A c \in Sockets, s \in Live : Speaker(c, s) => sockets[c].session = seats[s].room

\* A socket whose seat expired, was kicked or was taken over is mute until it
\* joins again itself: no seat comes to life under the id it still holds.
OutlivedSocketsStayMute ==
  [][\A c \in Sockets :
       (\E s \in Live' : Speaker(c, s)') /\ ~(\E s \in Live : Speaker(c, s))
         => sockets'[c] # sockets[c]]_vars

\* However sockets are hung up on, reaped, closed late or left: the last
\* socket of a seat never goes away leaving the seat connected.  Only a
\* socket that takes another seat leaves its own behind.
OnlyMovesLeaveSeatsBehind ==
  [][\A s \in Live :
       (Spoken(s) /\ ~Spoken(s)' /\ s \in Live' /\ seats'[s].phase = "connected")
         => \E c \in Sockets : Speaker(c, s) /\ Speaks(c)' /\ sockets'[c].seat # s]_vars

\* A seat that has come back over REST, or whose socket took another one.
Unattended(s) == s \in Live /\ seats[s].phase = "connected" /\ ~Spoken(s)

\* Somebody is at the other end of one of the seat's sockets.
Attended(s) == \E c \in Sockets : Speaker(c, s) /\ sockets[c].wire = "open"

\* Whoever had a socket and is silent or gone loses the seat in the end, in
\* whatever order the reaper, the close events of his sockets and the tick
\* come; or somebody is back on it, or he has finished a race still on.
AbandonedSeatsAreFreed ==
  \A s \in SeatIds :
    (s \in Live /\ ~Unattended(s)) ~>
      \/ s \notin Live \/ Attended(s) \/ Unattended(s)
      \/ seats[s].finished /\ status[seats[s].room] = "racing"

\* What does not hold, see README.  Every connected seat has a socket.
NoGhostSeats == \A s \in Live : ~Unattended(s)

\* "Enforced on every socket: ... 30 s silence reaping" (gateways.ts).
EverySilentSocketIsHungUp ==
  \A c \in Sockets :
    (sockets[c].wire = "silent") ~> (sockets[c].wire \in {"open", "gone"})

\* A seat is in its grace window only when its socket dropped: "Socket
\* dropped (not an explicit leave): keep the seat for the grace window"
\* (markDisconnected), and the generation "Bumped on every (re)connect".
GraceMeansDropped ==
  \A s \in Live : seats[s].phase = "reconnecting" => ~Attended(s)
=============================================================================
