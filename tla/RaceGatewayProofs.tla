------------------------- MODULE RaceGatewayProofs -------------------------
(***************************************************************************)
(* Proofs about the gateways, for any rooms, sockets and pilots: a socket  *)
(* names seats of its own room only, an outlived socket stays mute, and    *)
(* only a socket that takes another seat leaves a connected one behind.    *)
(***************************************************************************)
EXTENDS RaceGateway, TLAPS

\* No socket names a seat that is not granted yet; who names a seat has a
\* session, the one that seat is in if it is still there.
LinksOK ==
  \A c \in Sockets :
    /\ sockets[c].seat \in 0..issued
    /\ sockets[c].seat # None => sockets[c].session # None
    /\ sockets[c].seat \in Live => sockets[c].session = seats[sockets[c].seat].room

\* A pilot has one seat in a room at most.
OneSeat == \A s, t \in Live : seats[s].room = seats[t].room /\ seats[s].player = seats[t].player => s = t

GatewayInv == TypeOK /\ LinksOK /\ OneSeat

-----------------------------------------------------------------------------
(* Seats and sockets, whatever happens to them.                            *)

\* Same seats, or fewer, in the same rooms for the same pilots.
SeatsStay(ss) ==
  /\ DOMAIN ss \subseteq Live /\ ss \in [DOMAIN ss -> Seat]
  /\ \A s \in DOMAIN ss : ss[s].room = seats[s].room /\ ss[s].player = seats[s].player

\* What becomes of a socket x when no seat is granted: it names none, or a
\* seat of its session, or what it named before.
Linked(x, c) ==
  \/ x.seat = None
  \/ x.seat \in Live /\ x.session = seats[x.seat].room
  \/ x.seat = sockets[c].seat /\ x.session = sockets[c].session

\* A step that grants no seat keeps everything in order.
LEMMA QuietKeeps ==
  ASSUME GatewayInv, SeatsStay(seats'), UNCHANGED issued, status' \in [RoomIds -> Status],
         sockets' \in [Sockets -> Socket], \A c \in Sockets : Linked(sockets'[c], c)
  PROVE  GatewayInv'
<1>1. TypeOK'
  BY DEF GatewayInv, TypeOK, SeatsStay, Live
<1>2. LinksOK'
  <2>1. issued \in Nat /\ Live \subseteq 1..issued /\ seats \in [Live -> Seat]
    BY GatewayAssumption DEF GatewayInv, TypeOK
  <2>2. ASSUME NEW c \in Sockets
        PROVE  /\ sockets'[c].seat \in 0..issued'
               /\ sockets'[c].seat # None => sockets'[c].session # None
               /\ sockets'[c].seat \in DOMAIN seats' =>
                    sockets'[c].session = seats'[sockets'[c].seat].room
    <3>1. /\ sockets[c].seat \in 0..issued
          /\ sockets[c].seat # None => sockets[c].session # None
          /\ sockets[c].seat \in Live => sockets[c].session = seats[sockets[c].seat].room
      BY DEF GatewayInv, LinksOK
    <3>2. \A s \in Live : s \in 0..issued /\ s # None /\ seats[s].room # None
      BY <2>1, GatewayAssumption DEF None, Seat, RoomIds
    <3>3. \A s \in DOMAIN seats' : s \in Live /\ seats'[s].room = seats[s].room
      BY DEF SeatsStay
    <3>4. CASE sockets'[c].seat = None
      BY <2>1, <3>2, <3>3, <3>4 DEF None
    <3>5. CASE sockets'[c].seat \in Live /\ sockets'[c].session = seats[sockets'[c].seat].room
      BY <3>2, <3>3, <3>5
    <3>6. CASE sockets'[c].seat = sockets[c].seat /\ sockets'[c].session = sockets[c].session
      BY <3>1, <3>3, <3>6
    <3>. QED  BY <3>4, <3>5, <3>6 DEF Linked
  <2>. QED  BY <2>2 DEF LinksOK, Live
<1>3. OneSeat'
  BY DEF GatewayInv, OneSeat, SeatsStay, Live
<1>. QED  BY <1>1, <1>2, <1>3 DEF GatewayInv

\* Every socket is what it was, but for one.
LEMMA SocketEdit ==
  ASSUME GatewayInv, NEW c \in Sockets, NEW x \in Socket, sockets' = [sockets EXCEPT ![c] = x]
  PROVE  /\ sockets' \in [Sockets -> Socket] /\ sockets'[c] = x
         /\ \A d \in Sockets : d # c => sockets'[d] = sockets[d]
BY DEF GatewayInv, TypeOK

\* A frame changes the wire at most.
LEMMA HeardIsSocket ==
  ASSUME NEW x \in Socket
  PROVE  /\ Heard(x) \in Socket /\ Heard(x).seat = x.seat /\ Heard(x).session = x.session
BY DEF Heard, Socket

\* One seat is edited; its room and pilot stay.
LEMMA SeatEdit ==
  ASSUME GatewayInv, NEW s \in Live, NEW x \in Seat, x.room = seats[s].room, x.player = seats[s].player,
         NEW ss, ss = [seats EXCEPT ![s] = x]
  PROVE  SeatsStay(ss) /\ DOMAIN ss = Live /\ ss[s] = x
BY DEF GatewayInv, TypeOK, SeatsStay, Live

\* Seats are taken away, and the room closes or not.
LEMMA RemainStays ==
  ASSUME GatewayInv, NEW S \in SUBSET Live, NEW r \in RoomIds, NEW over \in BOOLEAN, Remain(S, r, over)
  PROVE  /\ SeatsStay(seats') /\ DOMAIN seats' \subseteq S
         /\ status' \in [RoomIds -> Status]
<1>1. ASSUME NEW T \in SUBSET S, seats' = Restrict(seats, T)
      PROVE  SeatsStay(seats') /\ DOMAIN seats' \subseteq S
  BY <1>1 DEF GatewayInv, TypeOK, SeatsStay, Restrict, Live
<1>2. status' \in [RoomIds -> Status]
  BY DEF Remain, GatewayInv, TypeOK, Status
<1>3. CASE over
  BY <1>1, <1>2, <1>3 DEF Remain
<1>4. CASE ~over
  BY <1>1, <1>2, <1>4 DEF Remain
<1>. QED  BY <1>3, <1>4

\* leave frees the seat.
LEMMA LeaveStays ==
  ASSUME GatewayInv, NEW s \in Live, Leave(s)
  PROVE  SeatsStay(seats') /\ s \notin DOMAIN seats' /\ status' \in [RoomIds -> Status]
<1>1. seats[s].room \in RoomIds
  BY DEF GatewayInv, TypeOK, Seat
<1>2. PICK over \in BOOLEAN : Remain(Live \ {s}, seats[s].room, over)
  BY DEF Leave
<1>. DEFINE S == Live \ {s}
<1>3. S \in SUBSET Live /\ s \notin S
  OBVIOUS
<1>4. Remain(S, seats[s].room, over)
  BY <1>2
<1>. HIDE DEF S
<1>. QED  BY <1>1, <1>3, <1>4, RemainStays

\* The close event and the reaper leave the seat dropped.
LEMMA DroppedStays ==
  ASSUME GatewayInv, NEW s, seats' = Dropped(s)
  PROVE  SeatsStay(seats') /\ (s \in DOMAIN seats' => seats'[s].phase # "connected")
<1>1. seats \in [Live -> Seat]
  BY DEF GatewayInv, TypeOK
<1>2. CASE s \in Live /\ seats[s].phase = "connected"
  <2>. DEFINE x == [seats[s] EXCEPT !.phase = "reconnecting", !.stale = FALSE]
  <2>1. x \in Seat /\ x.room = seats[s].room /\ x.player = seats[s].player /\ x.phase # "connected"
    BY <1>1, <1>2 DEF Seat
  <2>2. seats' = [seats EXCEPT ![s] = x]
    BY <1>2 DEF Dropped
  <2>. HIDE DEF x
  <2>. QED  BY <1>2, <2>1, <2>2, SeatEdit
<1>3. CASE ~(s \in Live /\ seats[s].phase = "connected")
  BY <1>1, <1>3 DEF Dropped, SeatsStay, Live
<1>. QED  BY <1>2, <1>3

\* A frame warms the seat it comes for.
LEMMA WarmStays ==
  ASSUME GatewayInv, NEW s, seats' = Warm(s)
  PROVE  SeatsStay(seats')
<1>1. seats \in [Live -> Seat]
  BY DEF GatewayInv, TypeOK
<1>2. CASE s \in Live
  <2>. DEFINE x == [seats[s] EXCEPT !.stale = FALSE]
  <2>1. x \in Seat /\ x.room = seats[s].room /\ x.player = seats[s].player
    BY <1>1, <1>2 DEF Seat
  <2>2. seats' = [seats EXCEPT ![s] = x]
    BY <1>2 DEF Warm
  <2>. HIDE DEF x
  <2>. QED  BY <1>2, <2>1, <2>2, SeatEdit
<1>3. CASE s \notin Live
  BY <1>1, <1>3 DEF Warm, SeatsStay, Live
<1>. QED  BY <1>2, <1>3

-----------------------------------------------------------------------------
(* The two ways into a seat.                                               *)

\* With a token: no seat is granted, the one it opens is in room r.
LEMMA TokenStays ==
  ASSUME GatewayInv, NEW r \in RoomIds, NEW p \in Players, NEW s, TokenJoin(r, p, s)
  PROVE  SeatsStay(seats') /\ UNCHANGED issued /\ s \in Live /\ seats[s].room = r
<1>1. seats \in [Live -> Seat] /\ s \in Live /\ seats[s].room = r
  BY DEF TokenJoin, InRoom, GatewayInv, TypeOK
<1>. DEFINE x == [seats[s] EXCEPT !.phase = "connected", !.stale = FALSE]
<1>2. x \in Seat /\ x.room = seats[s].room /\ x.player = seats[s].player
  BY <1>1 DEF Seat
<1>3. seats' = [seats EXCEPT ![s] = x] /\ UNCHANGED issued
  BY <1>1 DEF TokenJoin
<1>. HIDE DEF x
<1>. QED  BY <1>1, <1>2, <1>3, SeatEdit

\* Without one: the pilot's own seat, or a new one for all he had in the
\* room.  The sockets keep what they named, but for those that take seat s.
LEMMA JoinKeeps ==
  ASSUME GatewayInv, NEW r \in RoomIds, NEW p \in Players, NEW s \in SeatIds,
         SessionJoin(r, p, s), UNCHANGED status, sockets' \in [Sockets -> Socket],
         \A c \in Sockets : \/ sockets'[c].seat = s /\ sockets'[c].session = r
                            \/ sockets'[c].seat = sockets[c].seat /\ sockets'[c].session = sockets[c].session
  PROVE  GatewayInv' /\ DOMAIN seats' \subseteq Live \cup {issued + 1}
<1>1. /\ issued \in Nat /\ Live \subseteq 1..issued /\ seats \in [Live -> Seat]
      /\ r # None /\ s # None /\ status' \in [RoomIds -> Status]
  BY GatewayAssumption DEF GatewayInv, TypeOK, RoomIds, SeatIds, None
<1>2. CASE s \in SeatsOf(r, p) /\ seats' = [seats EXCEPT ![s].phase = "connected"] /\ UNCHANGED issued
  <2>. DEFINE x == [seats[s] EXCEPT !.phase = "connected"]
  <2>1. s \in Live /\ seats[s].room = r
    BY <1>2 DEF SeatsOf, InRoom
  <2>2. x \in Seat /\ x.room = seats[s].room /\ x.player = seats[s].player
    BY <1>1, <2>1 DEF Seat
  <2>3. seats' = [seats EXCEPT ![s] = x]
    BY <1>2
  <2>. HIDE DEF x
  <2>4. SeatsStay(seats')
    BY <2>1, <2>2, <2>3, SeatEdit
  <2>5. \A c \in Sockets : Linked(sockets'[c], c)
    BY <2>1 DEF Linked
  <2>. QED  BY <1>1, <1>2, <2>4, <2>5, QuietKeeps DEF SeatsStay
<1>3. CASE /\ issued < MaxSeats /\ s = issued + 1 /\ issued' = issued + 1
           /\ seats' = [t \in (Live \ SeatsOf(r, p)) \cup {s} |->
                          IF t = s THEN [room |-> r, player |-> p, phase |-> "connected",
                                         stale |-> FALSE, finished |-> FALSE]
                          ELSE seats[t]]
  <2>. DEFINE K == Live \ SeatsOf(r, p)
              y == [room |-> r, player |-> p, phase |-> "connected", stale |-> FALSE, finished |-> FALSE]
  <2>1. y \in Seat /\ y.room = r /\ y.player = p
    BY DEF Seat
  <2>2. s \notin Live /\ K \subseteq Live
    BY <1>1, <1>3
  <2>3. seats' = [t \in K \cup {s} |-> IF t = s THEN y ELSE seats[t]]
    BY <1>3
  <2>4. \A i \in K : ~(seats[i].room = r /\ seats[i].player = p)
    BY DEF SeatsOf, InRoom
  <2>. HIDE DEF y, K
  <2>5. /\ DOMAIN seats' = K \cup {s} /\ seats' \in [K \cup {s} -> Seat]
        /\ seats'[s] = y /\ \A t \in K : seats'[t] = seats[t]
    BY <1>1, <2>1, <2>2, <2>3
  <2>6. TypeOK'
    <3>1. issued' \in 0..MaxSeats
      BY <1>1, <1>3, GatewayAssumption
    <3>2. K \cup {s} \subseteq 1..issued'
      <4>1. \A t \in K : t \in 1..issued
        BY <1>1, <2>2
      <4>. QED  BY <1>1, <1>3, <4>1
    <3>. QED  BY <1>1, <2>5, <3>1, <3>2 DEF TypeOK, Live
  <2>7. LinksOK'
    <3>1. ASSUME NEW c \in Sockets
          PROVE  /\ sockets'[c].seat \in 0..issued'
                 /\ sockets'[c].seat # None => sockets'[c].session # None
                 /\ sockets'[c].seat \in DOMAIN seats' =>
                      sockets'[c].session = seats'[sockets'[c].seat].room
      <4>1. CASE sockets'[c].seat = s /\ sockets'[c].session = r
        BY <1>1, <1>3, <2>1, <2>5, <4>1
      <4>2. CASE sockets'[c].seat = sockets[c].seat /\ sockets'[c].session = sockets[c].session
        <5>1. /\ sockets[c].seat \in 0..issued
              /\ sockets[c].seat # None => sockets[c].session # None
              /\ sockets[c].seat \in Live => sockets[c].session = seats[sockets[c].seat].room
          BY DEF GatewayInv, LinksOK
        <5>2. sockets[c].seat # s /\ sockets[c].seat \in 0..issued'
          BY <1>1, <1>3, <5>1
        <5>3. sockets[c].seat \in DOMAIN seats' => sockets[c].seat \in K
          BY <2>5, <5>2
        <5>. QED  BY <2>2, <2>5, <4>2, <5>1, <5>2, <5>3
      <4>. QED  BY <4>1, <4>2
    <3>. QED  BY <3>1 DEF LinksOK, Live
  <2>8. OneSeat'
    <3>. SUFFICES ASSUME NEW t \in K \cup {s}, NEW u \in K \cup {s},
                         seats'[t].room = seats'[u].room, seats'[t].player = seats'[u].player
                  PROVE  t = u
      BY <2>5 DEF OneSeat, Live
    <3>. QED  BY <2>1, <2>2, <2>4, <2>5 DEF GatewayInv, OneSeat
  <2>9. DOMAIN seats' \subseteq Live \cup {issued + 1}
    BY <1>3, <2>2, <2>5
  <2>. QED  BY <2>6, <2>7, <2>8, <2>9 DEF GatewayInv
<1>. QED  BY <1>2, <1>3 DEF SessionJoin, FreshId

-----------------------------------------------------------------------------
(* The steps.                                                              *)

\* Only the next seat number can come to life.
Fresh == DOMAIN seats' \subseteq Live \cup {issued + 1}

\* A socket that stops speaking for a seat has left it dropped or freed, or
\* has taken another one.
LetGo(c) ==
  \A s \in Live : Speaker(c, s) /\ ~Speaker(c, s)' =>
    \/ s \notin DOMAIN seats'
    \/ seats'[s].phase # "connected"
    \/ Speaks(c)' /\ sockets'[c].seat # s

\* One socket, no seat granted.
LEMMA StepKeeps ==
  ASSUME GatewayInv, SeatsStay(seats'), UNCHANGED issued, status' \in [RoomIds -> Status],
         NEW c \in Sockets, NEW x \in Socket, sockets' = [sockets EXCEPT ![c] = x], Linked(x, c)
  PROVE  GatewayInv' /\ Fresh
<1>1. /\ sockets' \in [Sockets -> Socket] /\ sockets'[c] = x
      /\ \A d \in Sockets : d # c => sockets'[d] = sockets[d]
  BY SocketEdit
<1>2. \A d \in Sockets : Linked(sockets'[d], d)
  BY <1>1 DEF Linked
<1>. QED  BY <1>1, <1>2, QuietKeeps DEF Fresh, SeatsStay

\* What one socket does.
LEMMA SocketStepKeeps ==
  ASSUME GatewayInv, NEW c \in Sockets, SocketStep(c)
  PROVE  /\ GatewayInv' /\ Fresh /\ LetGo(c)
         /\ \A d \in Sockets : d # c => sockets'[d] = sockets[d]
<1>1. /\ sockets \in [Sockets -> Socket] /\ sockets[c] \in Socket /\ seats \in [Live -> Seat]
      /\ status \in [RoomIds -> Status]
  BY DEF GatewayInv, TypeOK
<1>2. SeatsStay(seats)
  BY <1>1 DEF SeatsStay, Live
\* The socket keeps its seat and session; the seats stay.
<1>3. ASSUME NEW x \in Socket, sockets' = [sockets EXCEPT ![c] = x],
             x.seat = sockets[c].seat, x.session = sockets[c].session,
             SeatsStay(seats'), UNCHANGED issued, status' \in [RoomIds -> Status]
      PROVE  /\ GatewayInv' /\ Fresh /\ LetGo(c)
             /\ \A d \in Sockets : d # c => sockets'[d] = sockets[d]
  <2>1. Linked(x, c)
    BY <1>3 DEF Linked
  <2>2. sockets'[c] = x /\ \A d \in Sockets : d # c => sockets'[d] = sockets[d]
    BY <1>3, SocketEdit
  <2>3. LetGo(c)
    BY <1>3, <2>2 DEF LetGo, Speaker, Speaks
  <2>. QED  BY <1>3, <2>1, <2>2, <2>3, StepKeeps
\* The socket lets go of its seat, which is dropped or freed.
<1>4. ASSUME NEW x \in Socket, sockets' = [sockets EXCEPT ![c] = x], x.seat = None,
             SeatsStay(seats'), UNCHANGED issued, status' \in [RoomIds -> Status],
             Speaks(c) /\ sockets[c].seat \in DOMAIN seats' => seats'[sockets[c].seat].phase # "connected"
      PROVE  /\ GatewayInv' /\ Fresh /\ LetGo(c)
             /\ \A d \in Sockets : d # c => sockets'[d] = sockets[d]
  <2>1. Linked(x, c)
    BY <1>4 DEF Linked
  <2>2. \A d \in Sockets : d # c => sockets'[d] = sockets[d]
    BY <1>4, SocketEdit
  <2>3. LetGo(c)
    BY <1>4 DEF LetGo, Speaker
  <2>. QED  BY <1>4, <2>1, <2>2, <2>3, StepKeeps
\* The socket takes seat s of its session, with a token.
<1>5. ASSUME NEW r \in RoomIds, NEW s \in SeatIds, TokenJoin(r, sockets[c].player, s), UNCHANGED status,
             NEW x \in Socket, sockets' = [sockets EXCEPT ![c] = x], x.seat = s, x.session = r
      PROVE  /\ GatewayInv' /\ Fresh /\ LetGo(c)
             /\ \A d \in Sockets : d # c => sockets'[d] = sockets[d]
  <2>1. SeatsStay(seats') /\ UNCHANGED issued /\ s \in Live /\ seats[s].room = r
    BY <1>1, <1>5, TokenStays DEF Socket
  <2>2. Linked(x, c)
    BY <1>5, <2>1 DEF Linked
  <2>3. sockets'[c] = x /\ \A d \in Sockets : d # c => sockets'[d] = sockets[d]
    BY <1>5, SocketEdit
  <2>4. LetGo(c)
    BY <1>5, <2>3, GatewayAssumption DEF LetGo, Speaker, Speaks, RoomIds, SeatIds, None
  <2>. QED  BY <1>1, <1>5, <2>1, <2>2, <2>3, <2>4, StepKeeps
\* The socket takes seat s of room r, without one.
<1>6. ASSUME NEW r \in RoomIds, NEW s \in SeatIds, SessionJoin(r, sockets[c].player, s), UNCHANGED status,
             NEW x \in Socket, sockets' = [sockets EXCEPT ![c] = x],
             \/ x.seat = s /\ x.session = r
             \/ x.seat = sockets[c].seat /\ x.session = sockets[c].session
      PROVE  /\ GatewayInv' /\ Fresh /\ LetGo(c)
             /\ \A d \in Sockets : d # c => sockets'[d] = sockets[d]
  <2>1. /\ sockets' \in [Sockets -> Socket] /\ sockets'[c] = x
        /\ \A d \in Sockets : d # c => sockets'[d] = sockets[d]
    BY <1>6, SocketEdit
  <2>2. \A d \in Sockets : \/ sockets'[d].seat = s /\ sockets'[d].session = r
                           \/ sockets'[d].seat = sockets[d].seat /\ sockets'[d].session = sockets[d].session
    BY <1>6, <2>1
  <2>3. sockets[c].player \in Players
    BY <1>1 DEF Socket
  <2>4. GatewayInv' /\ Fresh
    BY <1>6, <2>1, <2>2, <2>3, JoinKeeps DEF Fresh
  <2>5. LetGo(c)
    BY <1>6, <2>1, GatewayAssumption DEF LetGo, Speaker, Speaks, RoomIds, SeatIds, None
  <2>. QED  BY <2>1, <2>4, <2>5
<1>7. CASE OpenV1(c) \/ Chatter(c) \/ HangUp(c) \/ FallSilent(c)
  <2>1. PICK x \in Socket : /\ sockets' = [sockets EXCEPT ![c] = x]
                            /\ x.seat = sockets[c].seat /\ x.session = sockets[c].session
    <3>1. \A w \in {"open", "silent", "closing"} :
            LET x == [sockets[c] EXCEPT !.wire = w]
            IN x \in Socket /\ x.seat = sockets[c].seat /\ x.session = sockets[c].session
      BY <1>1 DEF Socket
    <3>. QED  BY <1>1, <1>7, <3>1, HeardIsSocket DEF OpenV1, Chatter, Hear, HangUp, FallSilent
  <2>2. UNCHANGED <<seats, issued, status>>
    BY <1>7 DEF OpenV1, Chatter, HangUp, FallSilent
  <2>. QED  BY <1>1, <1>2, <1>3, <2>1, <2>2
<1>8. CASE Input(c)
  <2>1. SeatsStay(seats')
    BY <1>8, WarmStays DEF Input
  <2>. QED  BY <1>1, <1>3, <1>8, <2>1, HeardIsSocket DEF Input, Hear
<1>9. CASE Finish(c)
  <2>. DEFINE s == sockets[c].seat
              r == seats[s].room
  <2>1. s \in Live /\ r \in RoomIds
    BY <1>1, <1>9 DEF Finish, Seat
  <2>2. SeatsStay(seats') /\ status' \in [RoomIds -> Status]
    <3>1. CASE Remain(Live, r, TRUE)
      BY <2>1, <3>1, RemainStays
    <3>2. CASE /\ seats' = [seats EXCEPT ![s].finished = TRUE, ![s].stale = @ /\ sockets[c].proto = "v1"]
               /\ UNCHANGED status
      <4>. DEFINE x == [seats[s] EXCEPT !.finished = TRUE, !.stale = @ /\ sockets[c].proto = "v1"]
      <4>1. x \in Seat /\ x.room = seats[s].room /\ x.player = seats[s].player
        BY <1>1, <2>1 DEF Seat
      <4>2. seats' = [seats EXCEPT ![s] = x]
        BY <1>1, <2>1, <3>2
      <4>. HIDE DEF x, s
      <4>. QED  BY <1>1, <2>1, <3>2, <4>1, <4>2, SeatEdit
    <3>. QED  BY <1>9, <3>1, <3>2 DEF Finish
  <2>. QED  BY <1>1, <1>3, <1>9, <2>2, HeardIsSocket DEF Finish, Hear
<1>10. CASE Reap(c)
  <2>. DEFINE x == [sockets[c] EXCEPT !.wire = "closing"]
  <2>1. x \in Socket /\ x.seat = sockets[c].seat /\ x.session = sockets[c].session
    BY <1>1 DEF Socket
  <2>2. sockets' = [sockets EXCEPT ![c] = x] /\ UNCHANGED <<issued, status>>
    BY <1>10 DEF Reap
  <2>3. SeatsStay(seats')
    BY <1>10, DroppedStays DEF Reap
  <2>. HIDE DEF x
  <2>. QED  BY <1>1, <1>3, <2>1, <2>2, <2>3
<1>11. CASE OnGone(c)
  <2>. DEFINE x == [sockets[c] EXCEPT !.wire = "gone", !.session = None, !.seat = None]
  <2>1. x \in Socket /\ x.seat = None
    BY <1>1 DEF Socket
  <2>2. sockets' = [sockets EXCEPT ![c] = x] /\ UNCHANGED <<issued, status>>
    BY <1>11 DEF OnGone
  <2>3. /\ SeatsStay(seats')
        /\ Speaks(c) /\ sockets[c].seat \in DOMAIN seats' => seats'[sockets[c].seat].phase # "connected"
    BY <1>2, <1>11, DroppedStays DEF OnGone
  <2>. HIDE DEF x
  <2>. QED  BY <1>1, <1>4, <2>1, <2>2, <2>3
<1>12. CASE LeaveV1(c) \/ LeaveLegacy(c)
  <2>1. PICK x \in Socket : sockets' = [sockets EXCEPT ![c] = x] /\ x.seat = None
    <3>1. CASE LeaveV1(c)
      <4>1. LET x == [sockets[c] EXCEPT !.session = None, !.seat = None, !.wire = "closing"]
            IN x \in Socket /\ x.seat = None
        BY <1>1 DEF Socket
      <4>. QED  BY <3>1, <4>1 DEF LeaveV1
    <3>2. CASE LeaveLegacy(c)
      <4>1. LET x == [Heard(sockets[c]) EXCEPT !.seat = None]
            IN x \in Socket /\ x.seat = None
        BY <1>1, HeardIsSocket DEF Socket
      <4>. QED  BY <3>2, <4>1 DEF LeaveLegacy
    <3>. QED  BY <1>12, <3>1, <3>2
  <2>2. /\ UNCHANGED issued
        /\ \/ Speaks(c) /\ sockets[c].seat \in Live /\ Leave(sockets[c].seat)
           \/ ~(Speaks(c) /\ sockets[c].seat \in Live) /\ UNCHANGED <<seats, status>>
    BY <1>12 DEF LeaveV1, LeaveLegacy
  <2>3. /\ SeatsStay(seats') /\ status' \in [RoomIds -> Status]
        /\ Speaks(c) => sockets[c].seat \notin DOMAIN seats'
    BY <1>1, <1>2, <2>2, LeaveStays DEF Live
  <2>. QED  BY <1>4, <2>1, <2>2, <2>3
<1>13. CASE JoinV1(c)
  <2>1. PICK r \in RoomIds, s \in SeatIds :
          \/ SessionJoin(r, sockets[c].player, s) /\ Attach(c, r, s)
          \/ TokenJoin(r, sockets[c].player, s) /\ Attach(c, r, s)
          \/ SessionJoin(r, sockets[c].player, s) /\ Hear(c)
    BY <1>13 DEF JoinV1
  <2>. DEFINE h == Heard(sockets[c])
              x == [h EXCEPT !.session = r, !.seat = s]
  <2>2. /\ h \in Socket /\ h.seat = sockets[c].seat /\ h.session = sockets[c].session
        /\ x \in Socket /\ x.seat = s /\ x.session = r
    BY <1>1, HeardIsSocket DEF Socket
  <2>3. UNCHANGED status
    BY <1>13 DEF JoinV1
  <2>4. CASE Attach(c, r, s)
    <3>1. sockets' = [sockets EXCEPT ![c] = x]
      BY <2>4 DEF Attach
    <3>2. TokenJoin(r, sockets[c].player, s) \/ SessionJoin(r, sockets[c].player, s)
      BY <2>1
    <3>. HIDE DEF x, h
    <3>. QED  BY <1>5, <1>6, <2>2, <2>3, <3>1, <3>2
  <2>5. CASE SessionJoin(r, sockets[c].player, s) /\ Hear(c)
    <3>1. sockets' = [sockets EXCEPT ![c] = h]
      BY <2>5 DEF Hear
    <3>. HIDE DEF x, h
    <3>. QED  BY <1>6, <2>2, <2>3, <2>5, <3>1
  <2>. QED  BY <2>1, <2>4, <2>5
<1>14. CASE ReconnectV1(c)
  <2>. DEFINE r == sockets[c].session
  <2>1. PICK s \in SeatIds :
          /\ TokenJoin(r, sockets[c].player, s)
          /\ sockets' = [sockets EXCEPT ![c] = [Heard(@) EXCEPT !.seat = s]]
    BY <1>14 DEF ReconnectV1
  <2>. DEFINE x == [Heard(sockets[c]) EXCEPT !.seat = s]
  <2>2. r \in RoomIds
    BY <1>1, <1>14 DEF ReconnectV1, Socket
  <2>3. x \in Socket /\ x.seat = s /\ x.session = r
    BY <1>1, HeardIsSocket DEF Socket
  <2>4. sockets' = [sockets EXCEPT ![c] = x] /\ UNCHANGED status
    BY <1>14, <2>1 DEF ReconnectV1
  <2>. HIDE DEF x, r
  <2>. QED  BY <1>5, <2>1, <2>2, <2>3, <2>4
<1>15. CASE ConnectLegacy(c)
  <2>1. UNCHANGED status
    BY <1>15 DEF ConnectLegacy
  <2>2. CASE \E r \in RoomIds, s \in SeatIds :
               /\ SessionJoin(r, sockets[c].player, s)
               /\ sockets' = [sockets EXCEPT ![c].wire = "open", ![c].session = r, ![c].seat = s]
    <3>1. PICK r \in RoomIds, s \in SeatIds :
            /\ SessionJoin(r, sockets[c].player, s)
            /\ sockets' = [sockets EXCEPT ![c].wire = "open", ![c].session = r, ![c].seat = s]
      BY <2>2
    <3>. DEFINE x == [sockets[c] EXCEPT !.wire = "open", !.session = r, !.seat = s]
    <3>2. x \in Socket /\ x.seat = s /\ x.session = r /\ sockets' = [sockets EXCEPT ![c] = x]
      BY <1>1, <3>1 DEF Socket
    <3>. HIDE DEF x
    <3>. QED  BY <1>6, <2>1, <3>1, <3>2
  <2>3. CASE sockets' = [sockets EXCEPT ![c].wire = "closing"] /\ UNCHANGED <<seats, issued>>
    <3>. DEFINE x == [sockets[c] EXCEPT !.wire = "closing"]
    <3>1. /\ x \in Socket /\ x.seat = sockets[c].seat /\ x.session = sockets[c].session
          /\ sockets' = [sockets EXCEPT ![c] = x]
      BY <1>1, <2>3 DEF Socket
    <3>. HIDE DEF x
    <3>. QED  BY <1>1, <1>2, <1>3, <2>1, <2>3, <3>1
  <2>. QED  BY <1>15, <2>2, <2>3 DEF ConnectLegacy
<1>. QED  BY <1>7, <1>8, <1>9, <1>10, <1>11, <1>12, <1>13, <1>14, <1>15 DEF SocketStep

\* What happens without a socket: REST calls, time and the room's own steps.
LEMMA RoomStepKeeps ==
  ASSUME GatewayInv,
         \/ \E p \in Players : RestJoin(p) \/ RestReconnect(p)
         \/ \E s \in SeatIds : SeatStep(s)
         \/ \E r \in RoomIds : RoomStep(r)
  PROVE  GatewayInv' /\ Fresh /\ UNCHANGED sockets
<1>1. /\ sockets \in [Sockets -> Socket] /\ seats \in [Live -> Seat]
      /\ status \in [RoomIds -> Status]
  BY DEF GatewayInv, TypeOK
<1>2. UNCHANGED sockets
  BY DEF RestJoin, RestReconnect, SeatStep, RestLeave, GraceOver, Expire, RoomStep, Start, CloseRoom
<1>3. ASSUME SeatsStay(seats'), UNCHANGED issued, status' \in [RoomIds -> Status]
      PROVE  GatewayInv' /\ Fresh
  <2>1. \A c \in Sockets : Linked(sockets'[c], c)
    BY <1>2 DEF Linked
  <2>. QED  BY <1>1, <1>2, <1>3, <2>1, QuietKeeps DEF Fresh, SeatsStay
<1>4. ASSUME NEW p \in Players, RestJoin(p)
      PROVE  GatewayInv' /\ Fresh
  <2>1. PICK r \in RoomIds, s \in SeatIds : SessionJoin(r, p, s)
    BY <1>4 DEF RestJoin
  <2>. QED  BY <1>1, <1>2, <1>4, <2>1, JoinKeeps DEF RestJoin, Fresh
<1>5. ASSUME NEW p \in Players, RestReconnect(p)
      PROVE  GatewayInv' /\ Fresh
  <2>1. PICK r \in RoomIds, s \in SeatIds : TokenJoin(r, p, s)
    BY <1>5 DEF RestReconnect
  <2>. QED  BY <1>1, <1>3, <1>5, <2>1, TokenStays DEF RestReconnect
<1>6. ASSUME NEW s \in SeatIds, RestLeave(s)
      PROVE  GatewayInv' /\ Fresh
  BY <1>3, <1>6, LeaveStays DEF RestLeave
<1>7. ASSUME NEW s \in SeatIds, GraceOver(s)
      PROVE  GatewayInv' /\ Fresh
  <2>. DEFINE x == [seats[s] EXCEPT !.stale = TRUE]
  <2>1. s \in Live /\ x \in Seat /\ x.room = seats[s].room /\ x.player = seats[s].player
    BY <1>1, <1>7 DEF GraceOver, Seat
  <2>2. seats' = [seats EXCEPT ![s] = x] /\ UNCHANGED <<issued, status>>
    BY <1>7 DEF GraceOver
  <2>. HIDE DEF x
  <2>3. SeatsStay(seats')
    BY <2>1, <2>2, SeatEdit
  <2>. QED  BY <1>1, <1>3, <2>2, <2>3
<1>8. ASSUME NEW s \in SeatIds, Expire(s)
      PROVE  GatewayInv' /\ Fresh
  <2>1. s \in Live /\ seats[s].room \in RoomIds /\ UNCHANGED issued
    BY <1>1, <1>8 DEF Expire, Seat
  <2>2. PICK over \in BOOLEAN : Remain(Live \ {s}, seats[s].room, over)
    BY <1>8 DEF Expire
  <2>. QED  BY <1>3, <2>1, <2>2, RemainStays
<1>9. ASSUME NEW r \in RoomIds, Start(r)
      PROVE  GatewayInv' /\ Fresh
  <2>1. SeatsStay(seats') /\ UNCHANGED issued
    BY <1>1, <1>9 DEF Start, SeatsStay, Live
  <2>2. status' \in [RoomIds -> Status]
    BY <1>1, <1>9 DEF Start, Status
  <2>. QED  BY <1>3, <2>1, <2>2
<1>10. ASSUME NEW r \in RoomIds, CloseRoom(r)
       PROVE  GatewayInv' /\ Fresh
  BY <1>3, <1>10, RemainStays DEF CloseRoom
<1>. QED  BY <1>2, <1>4, <1>5, <1>6, <1>7, <1>8, <1>9, <1>10 DEF SeatStep, RoomStep

\* Every step keeps the invariant, and lets go of seats in order.
LEMMA NextKeeps ==
  ASSUME GatewayInv, [Next]_vars
  PROVE  /\ GatewayInv' /\ Fresh
         /\ \A c \in Sockets : LetGo(c)
<1>1. CASE \E c \in Sockets : SocketStep(c)
  <2>1. PICK c \in Sockets : SocketStep(c)
    BY <1>1
  <2>2. \A d \in Sockets : d # c => LetGo(d)
    BY <2>1, SocketStepKeeps DEF LetGo, Speaker, Speaks
  <2>. QED  BY <2>1, <2>2, SocketStepKeeps
<1>2. CASE \/ \E p \in Players : RestJoin(p) \/ RestReconnect(p)
           \/ \E s \in SeatIds : SeatStep(s)
           \/ \E r \in RoomIds : RoomStep(r)
  BY <1>2, RoomStepKeeps DEF LetGo, Speaker, Speaks
<1>3. CASE UNCHANGED vars
  BY <1>3 DEF vars, GatewayInv, TypeOK, Live, LinksOK, OneSeat, Fresh, LetGo, Speaker, Speaks
<1>. QED  BY <1>1, <1>2, <1>3 DEF Next

-----------------------------------------------------------------------------
(* What the sockets and seats promise.                                     *)

\* Sockets and seats are well formed and fit together in every state, and a
\* pilot has one seat in a room at most, whether he comes by a socket of
\* either protocol, over REST, or on a token.
THEOREM Inductive == Spec => []GatewayInv
<1>1. Init => GatewayInv
  <2>. SUFFICES ASSUME Init PROVE GatewayInv
    OBVIOUS
  <2>1. Live = {} /\ issued = 0 /\ status \in [RoomIds -> Status]
    BY DEF Init, Live, Status
  <2>2. /\ sockets \in [Sockets -> Socket]
        /\ \A c \in Sockets : sockets[c].seat = None
    BY DEF Init
  <2>3. seats \in [Live -> Seat]
    BY DEF Init, Live
  <2>4. TypeOK
    BY <2>1, <2>2, <2>3, GatewayAssumption DEF TypeOK
  <2>5. LinksOK /\ OneSeat
    BY <2>1, <2>2 DEF LinksOK, OneSeat, None
  <2>. QED  BY <2>4, <2>5 DEF GatewayInv
<1>2. GatewayInv /\ [Next]_vars => GatewayInv'
  BY NextKeeps
<1>. QED  BY <1>1, <1>2, PTL DEF Spec

\* The type invariant.
THEOREM TypeCorrect == Spec => []TypeOK
<1>1. GatewayInv => TypeOK
  BY DEF GatewayInv
<1>. QED  BY <1>1, Inductive, PTL

\* A socket never names a seat of a room it is not in: session and seat move
\* together through joins, reconnects on any token, leaves and closes.
THEOREM SessionsAgree == Spec => []SeatsInTheirSession
<1>1. GatewayInv => SeatsInTheirSession
  BY DEF GatewayInv, LinksOK, SeatsInTheirSession, Speaker
<1>. QED  BY <1>1, Inductive, PTL

\* A socket whose seat is gone is mute until it joins again itself.
THEOREM OutlivedAreMute == Spec => OutlivedSocketsStayMute
<1>. DEFINE Mute == \A c \in Sockets :
                      (\E s \in Live' : Speaker(c, s)') /\ ~(\E s \in Live : Speaker(c, s))
                        => sockets'[c] # sockets[c]
<1>1. GatewayInv /\ [Next]_vars => [Mute]_vars
  <2>. SUFFICES ASSUME GatewayInv, [Next]_vars, NEW c \in Sockets, NEW s \in DOMAIN seats',
                       Speaker(c, s)', ~(\E t \in Live : Speaker(c, t)), sockets'[c] = sockets[c]
                PROVE  FALSE
    BY DEF Live
  <2>1. Speaker(c, s)
    BY DEF Speaker, Speaks
  <2>2. s = issued + 1
    BY <2>1, NextKeeps DEF Fresh
  <2>3. s \in 0..issued /\ issued \in Nat
    BY <2>1, GatewayAssumption DEF Speaker, GatewayInv, LinksOK, TypeOK
  <2>. QED  BY <2>2, <2>3
<1>. QED  BY <1>1, Inductive, PTL DEF Spec, OutlivedSocketsStayMute

\* In whatever order sockets are hung up on, reaped, closed late or left, and
\* whatever comes in over REST or on another's token: a seat loses its last
\* socket and stays connected only when that socket has taken another seat.
THEOREM OnlyMovesStrand == Spec => OnlyMovesLeaveSeatsBehind
<1>. DEFINE Moves == \A s \in Live :
                       (Spoken(s) /\ ~Spoken(s)' /\ s \in Live' /\ seats'[s].phase = "connected")
                         => \E c \in Sockets : Speaker(c, s) /\ Speaks(c)' /\ sockets'[c].seat # s
<1>1. GatewayInv /\ [Next]_vars => [Moves]_vars
  <2>. SUFFICES ASSUME GatewayInv, [Next]_vars, NEW s \in Live, Spoken(s), ~Spoken(s)',
                       s \in DOMAIN seats', seats'[s].phase = "connected"
                PROVE  \E c \in Sockets : Speaker(c, s) /\ Speaks(c)' /\ sockets'[c].seat # s
    BY DEF Live
  <2>1. PICK c \in Sockets : Speaker(c, s)
    BY DEF Spoken
  <2>2. ~Speaker(c, s)'
    BY DEF Spoken
  <2>. QED  BY <2>1, <2>2, NextKeeps DEF LetGo
<1>. QED  BY <1>1, Inductive, PTL DEF Spec, OnlyMovesLeaveSeatsBehind
=============================================================================
