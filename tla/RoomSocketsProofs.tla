------------------------- MODULE RoomSocketsProofs -------------------------
(***************************************************************************)
(* Proofs about RoomSockets (and the RoomRegistry under it) for every      *)
(* value of the constants: types, codes and rooms, the host, the sockets   *)
(* that hold the seats, and the staleness of used tokens.                  *)
(***************************************************************************)
EXTENDS RoomSockets, FiniteSetTheorems, WellFoundedInduction, TLAPS

(***************************************************************************)
(* The inductive invariant.                                                *)
(***************************************************************************)

\* A live seat has a generation, so Generation is 0 for no live seat.
GensStartAtOne == \A r \in Live : \A s \in Seats(r) : rooms[r].seats[s].gen >= 1

RegistryInv ==
  /\ RegistryTypeOK /\ NoEmptyRooms /\ CodesMatchRooms /\ HostIsLongestSeated
  /\ GensStartAtOne

\* A token of a seat that was granted, and not of its future.
OfThePast(t) ==
  /\ t \in RoomIds \X SeatIds \X (1..MaxGen)
  /\ t[2] <= seatsMade
  /\ Generation(t[1], t[2]) # 0 => t[3] <= Generation(t[1], t[2])

\* A task between the two calls of a reconnect has no seat of its own.
ChecksAreFree ==
  \A k \in Sockets : sockets[k].checked # NoToken =>
    /\ sockets[k].up = "open" /\ sockets[k].seat = NoSeat
    /\ OfThePast(sockets[k].checked)

\* No fresh seat can match a token that was redeemed.
RedeemedWereSeats == \A e \in redeemed : e[2][2] <= seatsMade

SocketsInv ==
  /\ RegistryInv /\ TypeOK /\ ChecksAreFree /\ RedeemedWereSeats
  /\ SeatsHaveSockets /\ UsedTokensAreStale

(***************************************************************************)
(* Helpers.                                                                *)
(***************************************************************************)

\* A nonempty finite set of seats has an oldest: among the finite sets of
\* seats before a seat there is a minimal one.
LEMMA OldestIsMember ==
  ASSUME NEW S \in SUBSET Nat, S # {}, IsFiniteSet(S)
  PROVE  /\ Oldest(S) \in S
         /\ \A t \in S : Oldest(S) <= t
<1>. DEFINE Before(s) == {t \in S : t < s}
            T == {Before(s) : s \in S}
<1>1. T \subseteq FiniteSubsetsOf(S) /\ T # {}
  <2>1. \A s \in S : Before(s) \in SUBSET S /\ IsFiniteSet(Before(s))
    BY FS_Subset
  <2>. HIDE DEF Before
  <2>. QED  BY <2>1 DEF FiniteSubsetsOf
<1>2. PICK m \in T : \A y \in T : ~(<<y, m>> \in StrictSubsetOrdering(S))
  <2>. HIDE DEF T
  <2>. QED  BY <1>1, FS_StrictSubsetOrderingWellFounded, WFMin
<1>3. PICK x \in S : m = Before(x)
  BY <1>2
<1>4. ASSUME NEW y \in S, y < x
      PROVE  FALSE
  <2>1. \A t \in S : t < y => t < x
    <3>1. x \in Nat /\ y \in Nat /\ S \subseteq Nat
      BY <1>4
    <3>. QED  BY <1>4, <3>1
  <2>2. y \in Before(x) /\ y \notin Before(y) /\ Before(y) \subseteq Before(x)
    <3>1. y \in Before(x) /\ y \notin Before(y)
      BY <1>4
    <3>2. Before(y) \subseteq Before(x)
      BY <2>1
    <3>. QED  BY <3>1, <3>2
  <2>3. <<Before(y), m>> \in StrictSubsetOrdering(S) /\ Before(y) \in T
    BY <2>2, <1>3 DEF StrictSubsetOrdering
  <2>. QED  BY <2>3, <1>2
<1>5. \A y \in S : x <= y
  BY <1>4
<1>. QED  BY <1>5 DEF Oldest

\* The seats of a live room: finitely many numbers.
LEMMA SeatsAreFinite ==
  ASSUME NEW n \in Nat, NEW D \in SUBSET (1..n)
  PROVE  IsFiniteSet(D) /\ D \in SUBSET Nat
<1>1. IsFiniteSet(1..n)
  BY FS_Interval
<1>2. \A i \in D : i \in Nat
  OBVIOUS
<1>. QED  BY <1>1, <1>2, FS_Subset

\* What leave and sweep make of the registry: the rooms that keep a seat
\* keep exactly the seats left to them, as they were, and the registry stays
\* in order; the host that goes is replaced by the oldest seat left.
LEMMA KeepEffect ==
  ASSUME RegistryInv, NEW left, \A r \in Live : left[r] \subseteq Seats(r), Keep(left)
  PROVE  /\ RegistryInv' /\ UNCHANGED seatsMade
         /\ DOMAIN rooms' \subseteq Live
         /\ \A r \in DOMAIN rooms' : DOMAIN rooms'[r].seats = left[r]
         /\ \A r \in DOMAIN rooms' : \A s \in left[r] : rooms'[r].seats[s] = rooms[r].seats[s]
         /\ \A r \in DOMAIN rooms' : rooms'[r].started = rooms[r].started
<1>. DEFINE gone == Emptied(left)
<1>1. /\ rooms' = [r \in Live \ gone |->
                     [rooms[r] EXCEPT !.seats = Restrict(rooms[r].seats, left[r]),
                                      !.host = HostAfter(rooms[r], left[r])]]
      /\ byCode' = CodesWithout(gone)
      /\ roomsMade' = roomsMade /\ seatsMade' = seatsMade
  BY DEF Keep
<1>2. seatsMade \in Nat /\ seatsMade <= MaxSeats
  BY RegistryAssumption DEF RegistryInv, RegistryTypeOK
<1>3. ASSUME NEW r \in DOMAIN rooms'
      PROVE  /\ rooms'[r].code = rooms[r].code /\ rooms'[r].started = rooms[r].started
             /\ rooms'[r].seats = [s \in left[r] |-> rooms[r].seats[s]]
             /\ rooms'[r] \in Room(left[r])
             /\ rooms'[r].host \in left[r] /\ \A s \in left[r] : rooms'[r].host <= s
  <2>. r \in Live /\ r \notin gone
    BY <1>1
  <2>1. left[r] \subseteq Seats(r) /\ left[r] # {} /\ Seats(r) \subseteq 1..seatsMade
    BY DEF Emptied, RegistryInv, RegistryTypeOK
  <2>2. /\ rooms[r] \in Room(Seats(r))
        /\ rooms[r].host \in Seats(r) /\ \A s \in Seats(r) : rooms[r].host <= s
    BY <2>1 DEF RegistryInv, RegistryTypeOK, HostIsLongestSeated
  <2>3. /\ HostAfter(rooms[r], left[r]) \in left[r]
        /\ \A s \in left[r] : HostAfter(rooms[r], left[r]) <= s
    <3>1. CASE rooms[r].host \in left[r]
      BY <3>1, <2>1, <2>2 DEF HostAfter
    <3>2. CASE rooms[r].host \notin left[r]
      <4>1. Oldest(left[r]) \in left[r] /\ \A t \in left[r] : Oldest(left[r]) <= t
        BY <2>1, <1>2, SeatsAreFinite, OldestIsMember
      <4>. QED  BY <4>1, <3>2, <2>1 DEF HostAfter
    <3>. QED  BY <3>1, <3>2
  <2>4. Restrict(rooms[r].seats, left[r]) = [s \in left[r] |-> rooms[r].seats[s]]
    BY DEF Restrict
  <2>5. [s \in left[r] |-> rooms[r].seats[s]] \in [left[r] -> Seat]
    BY <2>1, <2>2 DEF Room
  <2>6. left[r] \subseteq SeatIds
    BY <2>1, <1>2, RegistryAssumption DEF SeatIds
  <2>7. rooms'[r] = [rooms[r] EXCEPT !.seats = [s \in left[r] |-> rooms[r].seats[s]],
                                     !.host = HostAfter(rooms[r], left[r])]
    BY <1>1, <2>4
  <2>. QED  BY <2>2, <2>3, <2>5, <2>6, <2>7 DEF Room
<1>4. DOMAIN rooms' = Live \ gone
  BY <1>1
<1>5. \A r \in DOMAIN rooms' : DOMAIN rooms'[r].seats = left[r]
  BY ZenonT(40), <1>3
<1>6. \A r \in DOMAIN rooms' : \A s \in left[r] : rooms'[r].seats[s] = rooms[r].seats[s]
  BY <1>3
<1>7. RegistryTypeOK'
  <2>1. \A r \in DOMAIN rooms' : /\ DOMAIN rooms'[r].seats \subseteq 1..seatsMade
                                 /\ rooms'[r] \in Room(DOMAIN rooms'[r].seats)
    BY <1>3, <1>4, <1>5 DEF RegistryInv, RegistryTypeOK, Seats
  <2>2. byCode' = [c \in {c \in Taken : byCode[c] \notin gone} |-> byCode[c]]
    BY <1>1 DEF CodesWithout, Restrict
  <2>3. (Taken \subseteq Codes)' /\ (byCode \in [Taken -> RoomIds])'
    BY <2>2 DEF RegistryInv, RegistryTypeOK, RoomIds, Taken
  <2>4. Live' \subseteq 1..roomsMade
    BY <1>4 DEF RegistryInv, RegistryTypeOK, Live
  <2>5. rooms' = [r \in DOMAIN rooms' |-> rooms'[r]]
    BY <1>1
  <2>6. roomsMade' \in 0..MaxRooms /\ seatsMade' \in 0..MaxSeats
    BY <1>1 DEF RegistryInv, RegistryTypeOK
  <2>. QED  BY <2>1, <2>3, <2>4, <2>5, <2>6, <1>1 DEF RegistryTypeOK, Live, Seats, Room, SeatIds
<1>8. NoEmptyRooms'
  BY <1>4, <1>5 DEF NoEmptyRooms, Emptied, Live, Seats
<1>9. CodesMatchRooms'
  <2>1. byCode' = [c \in {c \in Taken : byCode[c] \notin gone} |-> byCode[c]]
    BY <1>1 DEF CodesWithout, Restrict
  <2>2. \A r \in DOMAIN rooms' : rooms'[r].code = rooms[r].code
    BY <1>3
  <2>3. gone \subseteq Live
    BY DEF Emptied
  <2>4. CodesMatchRooms
    BY DEF RegistryInv
  <2>. HIDE DEF gone
  <2>. QED  BY <2>1, <2>2, <2>3, <2>4, <1>4 DEF CodesMatchRooms, Live, Taken
<1>10. HostIsLongestSeated'
  BY <1>3, <1>5 DEF HostIsLongestSeated, Live, Seats
<1>11. GensStartAtOne'
  BY <1>4, <1>5, <1>6 DEF GensStartAtOne, RegistryInv, Live, Seats
<1>12. \A r \in DOMAIN rooms' : rooms'[r].started = rooms[r].started
  BY <1>3
<1>. QED
  BY <1>1, <1>4, <1>5, <1>6, <1>7, <1>8, <1>9, <1>10, <1>11, <1>12 DEF RegistryInv

\* What a join makes of the registry: one fresh seat in room r, and every
\* other seat is an old one, as it was.
FreshSeatIn(r) ==
  /\ seatsMade' = seatsMade + 1 /\ seatsMade' <= MaxSeats
  /\ Live \subseteq DOMAIN rooms' /\ r \in DOMAIN rooms'
  /\ seatsMade' \in DOMAIN rooms'[r].seats
  /\ rooms'[r].seats[seatsMade'].gen = 1
  /\ \A q \in DOMAIN rooms' : \A s \in DOMAIN rooms'[q].seats :
       \/ q = r /\ s = seatsMade'
       \/ q \in Live /\ s \in Seats(q) /\ rooms'[q].seats[s] = rooms[q].seats[s]
  /\ \A q \in Live : rooms[q].started => rooms'[q] = rooms[q]

\* join into a live room keeps the registry in order.
LEMMA JoinRoomEffect ==
  ASSUME RegistryInv, NEW r, JoinRoom(r)
  PROVE  RegistryInv' /\ FreshSeatIn(r)
<1>. DEFINE n == seatsMade + 1
            ss == [t \in Seats(r) \cup {n} |-> IF t = n THEN NewSeat ELSE rooms[r].seats[t]]
<1>1. /\ r \in Live /\ ~rooms[r].started /\ seatsMade < MaxSeats
      /\ seatsMade' = n /\ byCode' = byCode /\ roomsMade' = roomsMade
  BY DEF JoinRoom, Joinable
<1>2. /\ seatsMade \in Nat /\ MaxSeats \in Nat /\ n \in SeatIds
      /\ \A q \in Live : Seats(q) \subseteq 1..seatsMade
  BY <1>1, RegistryAssumption DEF RegistryInv, RegistryTypeOK, SeatIds
<1>3. /\ rooms[r] \in Room(Seats(r)) /\ Seats(r) # {}
      /\ rooms[r].host \in Seats(r) /\ \A s \in Seats(r) : rooms[r].host <= s
  BY <1>1 DEF RegistryInv, RegistryTypeOK, NoEmptyRooms, HostIsLongestSeated
<1>4. rooms' = [rooms EXCEPT ![r] = [rooms[r] EXCEPT !.host = rooms[r].host, !.seats = ss]]
  BY <1>1, <1>3 DEF JoinRoom, Seated, Seats
<1>5. ss \in [Seats(r) \cup {n} -> Seat]
  BY <1>3 DEF Room, Seat, NewSeat
<1>6. /\ rooms'[r].code = rooms[r].code /\ rooms'[r].host = rooms[r].host
      /\ rooms'[r].started = rooms[r].started /\ rooms'[r].seats = ss
      /\ rooms'[r] \in Room(Seats(r) \cup {n})
  <2>. HIDE DEF ss
  <2>. QED  BY <1>1, <1>2, <1>3, <1>4, <1>5 DEF Room, Live
<1>7. /\ DOMAIN rooms' = Live /\ \A q \in Live : q # r => rooms'[q] = rooms[q]
      /\ rooms' = [q \in Live |-> rooms'[q]]
  <2>. HIDE DEF ss
  <2>. QED  BY <1>1, <1>4 DEF RegistryInv, RegistryTypeOK, Live
<1>8. /\ n \in DOMAIN ss /\ DOMAIN ss = Seats(r) \cup {n} /\ ss[n].gen = 1
      /\ \A s \in Seats(r) : ss[s] = rooms[r].seats[s]
  BY <1>1, <1>2 DEF NewSeat
<1>. HIDE DEF ss
<1>9. FreshSeatIn(r)
  BY <1>1, <1>2, <1>6, <1>7, <1>8 DEF FreshSeatIn, Live, Seats
<1>10. RegistryTypeOK'
  <2>1. \A q \in Live : /\ DOMAIN rooms'[q].seats \subseteq 1..n
                        /\ rooms'[q] \in Room(DOMAIN rooms'[q].seats)
    <3>1. \A q \in Live : q # r => DOMAIN rooms'[q].seats \subseteq 1..n
                                   /\ rooms'[q] \in Room(DOMAIN rooms'[q].seats)
      BY <1>2, <1>7 DEF RegistryInv, RegistryTypeOK, Seats
    <3>2. DOMAIN rooms'[r].seats \subseteq 1..n
      BY <1>1, <1>2, <1>6, <1>8
    <3>. QED  BY <3>1, <3>2, <1>6, <1>8
  <2>2. n \in 0..MaxSeats
    BY <1>1, <1>2
  <2>. QED
    BY <1>1, <1>7, <2>1, <2>2
    DEF RegistryInv, RegistryTypeOK, Live, Seats, Room, Taken, RoomIds, SeatIds
<1>11. NoEmptyRooms' /\ CodesMatchRooms'
  BY SMTT(30), <1>1, <1>6, <1>7, <1>8 DEF RegistryInv, NoEmptyRooms, CodesMatchRooms, Live, Seats, Taken
<1>12. HostIsLongestSeated'
  <2>1. rooms'[r].host \in DOMAIN rooms'[r].seats
        /\ \A s \in DOMAIN rooms'[r].seats : rooms'[r].host <= s
    BY <1>1, <1>2, <1>3, <1>6, <1>8
  <2>. QED
    BY <2>1, <1>7 DEF RegistryInv, HostIsLongestSeated, Live, Seats
<1>13. GensStartAtOne'
  BY <1>1, <1>6, <1>7, <1>8 DEF RegistryInv, GensStartAtOne, Live, Seats
<1>. QED  BY <1>9, <1>10, <1>11, <1>12, <1>13 DEF RegistryInv

\* A room made for a code that is not in use keeps the registry in order.
LEMMA JoinFreshEffect ==
  ASSUME RegistryInv, NEW code \in Codes \ Taken, NEW seed \in Seeds, JoinFresh(code, seed)
  PROVE  RegistryInv' /\ FreshSeatIn(roomsMade + 1)
<1>. DEFINE n == seatsMade + 1
            m == roomsMade + 1
            empty == [code |-> code, seed |-> seed, host |-> 0, started |-> FALSE,
                      seats |-> [s \in {} |-> NewSeat]]
            one == [s \in {n} |-> NewSeat]
            room == [empty EXCEPT !.host = n, !.seats = one]
<1>1. /\ roomsMade < MaxRooms /\ seatsMade < MaxSeats /\ roomsMade' = m /\ seatsMade' = n
      /\ byCode' = [c \in Taken \cup {code} |-> IF c = code THEN m ELSE byCode[c]]
  BY DEF JoinFresh
<1>2. /\ roomsMade \in Nat /\ MaxRooms \in Nat /\ seatsMade \in Nat /\ MaxSeats \in Nat
      /\ m \notin Live /\ m \in RoomIds /\ n \in SeatIds
      /\ \A q \in Live : Seats(q) \subseteq 1..seatsMade
  BY <1>1, RegistryAssumption DEF RegistryInv, RegistryTypeOK, RoomIds, SeatIds
<1>3. rooms' = [r \in Live \cup {m} |-> IF r = m THEN room ELSE rooms[r]]
  <2>. DEFINE made == [r \in Live \cup {m} |-> IF r = m THEN empty ELSE rooms[r]]
  <2>1. rooms' = Seated(made, m, n)
    BY <1>1 DEF JoinFresh
  <2>2. made[m] = empty /\ DOMAIN empty.seats = {}
    OBVIOUS
  <2>3. Seated(made, m, n) = [made EXCEPT ![m] = [empty EXCEPT
            !.host = n, !.seats = [t \in {} \cup {n} |->
                                     IF t = n THEN NewSeat ELSE empty.seats[t]]]]
    BY <2>2 DEF Seated
  <2>4. [t \in {} \cup {n} |-> IF t = n THEN NewSeat ELSE empty.seats[t]] = one
    OBVIOUS
  <2>. HIDE DEF empty, one
  <2>. QED  BY <2>1, <2>3, <2>4
<1>4. /\ DOMAIN rooms' = Live \cup {m} /\ \A q \in Live : rooms'[q] = rooms[q]
      /\ rooms' = [q \in DOMAIN rooms' |-> rooms'[q]] /\ rooms'[m] = room
  BY <1>2, <1>3
<1>5. /\ room.code = code /\ room.host = n /\ DOMAIN room.seats = {n}
      /\ room.seats[n].gen = 1 /\ room \in Room({n})
  <2>1. empty \in Room({}) /\ empty.code = code
    BY DEF Room
  <2>2. one \in [{n} -> Seat] /\ one[n].gen = 1 /\ DOMAIN one = {n}
    BY DEF Seat, NewSeat
  <2>. HIDE DEF empty, one
  <2>. QED  BY <1>2, <2>1, <2>2 DEF Room
<1>. HIDE DEF room
<1>6. FreshSeatIn(m)
  BY <1>1, <1>2, <1>4, <1>5 DEF FreshSeatIn, Live, Seats
<1>7. RegistryTypeOK'
  <2>1. \A q \in DOMAIN rooms' : /\ DOMAIN rooms'[q].seats \subseteq 1..n
                                 /\ rooms'[q] \in Room(DOMAIN rooms'[q].seats)
    <3>1. \A q \in Live : /\ DOMAIN rooms'[q].seats \subseteq 1..n
                          /\ rooms'[q] \in Room(DOMAIN rooms'[q].seats)
      BY <1>2, <1>4 DEF RegistryInv, RegistryTypeOK, Seats
    <3>2. DOMAIN rooms'[m].seats \subseteq 1..n /\ rooms'[m] \in Room(DOMAIN rooms'[m].seats)
      BY <1>2, <1>4, <1>5
    <3>. QED  BY <3>1, <3>2, <1>4
  <2>2. n \in 0..MaxSeats /\ m \in 0..MaxRooms
    BY <1>1, <1>2
  <2>3. DOMAIN rooms' \subseteq 1..m
    BY <1>2, <1>4 DEF RegistryInv, RegistryTypeOK
  <2>4. DOMAIN byCode' \subseteq Codes /\ byCode' \in [DOMAIN byCode' -> RoomIds]
    BY <1>1, <1>2 DEF RegistryInv, RegistryTypeOK, Taken
  <2>. QED
    BY <1>1, <1>4, <2>1, <2>2, <2>3, <2>4
    DEF RegistryTypeOK, Live, Seats, Room, Taken, RoomIds, SeatIds
<1>8. NoEmptyRooms' /\ HostIsLongestSeated'
  BY <1>2, <1>4, <1>5
  DEF RegistryInv, NoEmptyRooms, HostIsLongestSeated, Live, Seats
<1>9. CodesMatchRooms'
  <2>1. \A c \in DOMAIN byCode' : byCode'[c] \in DOMAIN rooms' /\ rooms'[byCode'[c]].code = c
    BY <1>1, <1>4, <1>5 DEF RegistryInv, CodesMatchRooms, Live, Taken
  <2>2. \A r \in DOMAIN rooms' : rooms'[r].code \in DOMAIN byCode'
                                 /\ byCode'[rooms'[r].code] = r
    BY <1>1, <1>4, <1>5 DEF RegistryInv, CodesMatchRooms, Live, Taken
  <2>. QED  BY <2>1, <2>2 DEF CodesMatchRooms, Live, Taken
<1>10. GensStartAtOne'
  BY <1>4, <1>5 DEF RegistryInv, GensStartAtOne, Live, Seats
<1>. QED  BY <1>6, <1>7, <1>8, <1>9, <1>10 DEF RegistryInv

\* join, with a code or without one: one fresh seat in one room.
LEMMA JoinEffect ==
  ASSUME RegistryInv, NEW code \in Codes, NEW seed \in Seeds, Join(code, seed)
  PROVE  RegistryInv' /\ \E r : FreshSeatIn(r)
<1>1. CASE JoinByCode(code, seed)
  <2>1. CASE code \in Taken
    BY <1>1, <2>1, JoinRoomEffect DEF JoinByCode
  <2>2. CASE code \notin Taken
    BY <1>1, <2>2, JoinFreshEffect DEF JoinByCode
  <2>. QED  BY <2>1, <2>2
<1>2. CASE Matchmake(seed)
  <2>1. CASE OpenRooms(seed) # {}
    BY <1>2, <2>1, JoinRoomEffect DEF Matchmake
  <2>2. CASE OpenRooms(seed) = {}
    BY <1>2, <2>2, JoinFreshEffect DEF Matchmake
  <2>. QED  BY <2>1, <2>2
<1>. QED  BY <1>1, <1>2 DEF Join

\* What ready, heartbeat, reconnect and the silence of a pilot make of the
\* registry: the seats of room r are edited, none is added or lost.
SeatsEdited(r) ==
  /\ r \in Live /\ rooms' = [q \in Live |-> IF q = r THEN rooms'[r] ELSE rooms[q]]
  /\ rooms'[r] \in Room(Seats(r))
  /\ rooms'[r].code = rooms[r].code /\ rooms'[r].host = rooms[r].host
  /\ rooms[r].started => rooms'[r].started
  /\ \A s \in Seats(r) : rooms'[r].seats[s].gen >= rooms[r].seats[s].gen
  /\ UNCHANGED <<byCode, roomsMade, seatsMade>>

\* Updates of one seat.
LEMMA SeatUpdates ==
  ASSUME NEW seat \in Seat, NEW silent \in BOOLEAN, NEW gen \in Nat
  PROVE  /\ [seat EXCEPT !.silent = silent] \in Seat
         /\ [seat EXCEPT !.silent = silent].gen = seat.gen
         /\ [seat EXCEPT !.gen = gen, !.silent = silent] \in Seat
         /\ [seat EXCEPT !.gen = gen, !.silent = silent].gen = gen
BY DEF Seat

\* The edits of the registry's operations are of that kind.
LEMMA OperationsEdit ==
  ASSUME RegistryInv, NEW r, NEW s,
         \/ \E ready \in BOOLEAN : SetReady(r, s, ready)
         \/ Heartbeat(r, s) \/ Reconnect(r, s) \/ FallSilent(r, s)
  PROVE  SeatsEdited(r)
<1>. r \in Live /\ s \in Seats(r)
  BY DEF SetReady, Heartbeat, Reconnect, FallSilent
<1>1. /\ rooms[r] \in Room(Seats(r)) /\ rooms[r].seats \in [Seats(r) -> Seat]
      /\ \A t \in Seats(r) : rooms[r].seats[t] \in Seat
      /\ rooms = [q \in Live |-> rooms[q]]
  BY DEF RegistryInv, RegistryTypeOK, Room
<1>2. \A t \in Seats(r) : rooms[r].seats[t].gen \in Nat
  BY <1>1 DEF Seat
<1>3. ASSUME NEW ready \in BOOLEAN, SetReady(r, s, ready)
      PROVE  SeatsEdited(r)
  <2>. DEFINE ss == [rooms[r].seats EXCEPT ![s].ready = ready, ![s].silent = FALSE]
              go == rooms[r].started \/ AllReady(ss)
  <2>1. ss \in [Seats(r) -> Seat] /\ \A t \in Seats(r) : ss[t].gen = rooms[r].seats[t].gen
    BY <1>1 DEF Seat
  <2>2. rooms' = [rooms EXCEPT ![r].seats = ss, ![r].started = go]
        /\ UNCHANGED <<byCode, roomsMade, seatsMade>>
    BY <1>3 DEF SetReady
  <2>3. go \in BOOLEAN /\ (rooms[r].started => go)
    BY <1>1 DEF Room, AllReady
  <2>. HIDE DEF ss, go
  <2>4. rooms' = [q \in Live |-> IF q = r THEN rooms'[r] ELSE rooms[q]]
    BY <1>1, <2>2
  <2>5. /\ rooms'[r].seats = ss /\ rooms'[r].started = go
        /\ rooms'[r].code = rooms[r].code /\ rooms'[r].host = rooms[r].host
        /\ rooms'[r] \in Room(Seats(r))
    BY <1>1, <2>1, <2>2, <2>3 DEF Room, Live
  <2>6. \A t \in Seats(r) : rooms'[r].seats[t].gen >= rooms[r].seats[t].gen
    BY <1>2, <2>1, <2>5
  <2>. QED  BY <2>2, <2>3, <2>4, <2>5, <2>6 DEF SeatsEdited
<1>4. ASSUME NEW seat \in Seat, seat.gen >= rooms[r].seats[s].gen,
             rooms' = [rooms EXCEPT ![r].seats = [rooms[r].seats EXCEPT ![s] = seat]],
             UNCHANGED <<byCode, roomsMade, seatsMade>>
      PROVE  SeatsEdited(r)
  <2>. DEFINE ss == [rooms[r].seats EXCEPT ![s] = seat]
  <2>1. ss \in [Seats(r) -> Seat] /\ \A t \in Seats(r) : ss[t].gen >= rooms[r].seats[t].gen
    BY <1>1, <1>2, <1>4
  <2>. HIDE DEF ss
  <2>2. rooms' = [q \in Live |-> IF q = r THEN rooms'[r] ELSE rooms[q]]
    BY <1>1, <1>4
  <2>3. /\ rooms'[r].seats = ss /\ rooms'[r].started = rooms[r].started
        /\ rooms'[r].code = rooms[r].code /\ rooms'[r].host = rooms[r].host
        /\ rooms'[r] \in Room(Seats(r))
    BY <1>1, <1>4, <2>1 DEF Room, Live, ss
  <2>. QED  BY <1>4, <2>1, <2>2, <2>3 DEF SeatsEdited
<1>5. CASE Heartbeat(r, s)
  <2>1. /\ rooms' = [rooms EXCEPT ![r].seats =
                       [rooms[r].seats EXCEPT ![s] = [rooms[r].seats[s] EXCEPT !.silent = FALSE]]]
        /\ UNCHANGED <<byCode, roomsMade, seatsMade>>
    BY <1>5 DEF Heartbeat
  <2>2. [rooms[r].seats[s] EXCEPT !.silent = FALSE] \in Seat
        /\ [rooms[r].seats[s] EXCEPT !.silent = FALSE].gen >= rooms[r].seats[s].gen
    <3>1. rooms[r].seats[s] \in Seat /\ rooms[r].seats[s].gen \in Nat
      BY <1>1, <1>2
    <3>2. [rooms[r].seats[s] EXCEPT !.silent = FALSE].gen = rooms[r].seats[s].gen
      BY <3>1, SeatUpdates
    <3>3. [rooms[r].seats[s] EXCEPT !.silent = FALSE] \in Seat
      BY <3>1, SeatUpdates
    <3>. QED  BY <3>1, <3>2, <3>3
  <2>. QED  BY <2>1, <2>2, <1>4
<1>6. CASE FallSilent(r, s)
  <2>1. /\ rooms' = [rooms EXCEPT ![r].seats =
                       [rooms[r].seats EXCEPT ![s] = [rooms[r].seats[s] EXCEPT !.silent = TRUE]]]
        /\ UNCHANGED <<byCode, roomsMade, seatsMade>>
    BY <1>6 DEF FallSilent
  <2>2. [rooms[r].seats[s] EXCEPT !.silent = TRUE] \in Seat
        /\ [rooms[r].seats[s] EXCEPT !.silent = TRUE].gen >= rooms[r].seats[s].gen
    <3>1. rooms[r].seats[s] \in Seat /\ rooms[r].seats[s].gen \in Nat
      BY <1>1, <1>2
    <3>2. [rooms[r].seats[s] EXCEPT !.silent = TRUE].gen = rooms[r].seats[s].gen
      BY <3>1, SeatUpdates
    <3>3. [rooms[r].seats[s] EXCEPT !.silent = TRUE] \in Seat
      BY <3>1, SeatUpdates
    <3>. QED  BY <3>1, <3>2, <3>3
  <2>. QED  BY <2>1, <2>2, <1>4
<1>7. CASE Reconnect(r, s)
  <2>. DEFINE seat == [rooms[r].seats[s] EXCEPT !.gen = NextGen(rooms[r].seats[s]),
                                                !.silent = FALSE]
  <2>1. /\ rooms' = [rooms EXCEPT ![r].seats = [rooms[r].seats EXCEPT ![s] = seat]]
        /\ UNCHANGED <<byCode, roomsMade, seatsMade>>
    BY <1>7, <1>1 DEF Reconnect, Room
  <2>2. seat \in Seat /\ seat.gen >= rooms[r].seats[s].gen
    <3>1. rooms[r].seats[s] \in Seat /\ rooms[r].seats[s].gen \in Nat
      BY <1>1, <1>2
    <3>2. NextGen(rooms[r].seats[s]) \in Nat
          /\ NextGen(rooms[r].seats[s]) >= rooms[r].seats[s].gen
      BY <3>1 DEF NextGen
    <3>. QED  BY <3>1, <3>2, SeatUpdates
  <2>. QED  BY <2>1, <2>2, <1>4
<1>. QED  BY <1>3, <1>5, <1>6, <1>7

\* An edit of its seats keeps the registry in order.
LEMMA EditEffect ==
  ASSUME RegistryInv, NEW r, SeatsEdited(r)
  PROVE  /\ RegistryInv' /\ UNCHANGED seatsMade /\ DOMAIN rooms' = Live
         /\ \A q \in Live : DOMAIN rooms'[q].seats = Seats(q)
         /\ \A q \in Live : rooms[q].started => rooms'[q].started
<1>1. /\ r \in Live /\ rooms' = [q \in Live |-> IF q = r THEN rooms'[r] ELSE rooms[q]]
      /\ rooms'[r] \in Room(Seats(r))
      /\ rooms'[r].code = rooms[r].code /\ rooms'[r].host = rooms[r].host
      /\ rooms[r].started => rooms'[r].started
      /\ \A s \in Seats(r) : rooms'[r].seats[s].gen >= rooms[r].seats[s].gen
      /\ byCode' = byCode /\ roomsMade' = roomsMade /\ seatsMade' = seatsMade
  BY DEF SeatsEdited
<1>2. DOMAIN rooms' = Live /\ \A q \in Live : q # r => rooms'[q] = rooms[q]
  BY <1>1
<1>3. \A q \in Live : DOMAIN rooms'[q].seats = Seats(q) /\ rooms'[q] \in Room(Seats(q))
                      /\ rooms'[q].code = rooms[q].code /\ rooms'[q].host = rooms[q].host
  BY <1>1, <1>2 DEF RegistryInv, RegistryTypeOK, Room, Seats
<1>4. RegistryTypeOK'
  <2>1. rooms' = [q \in DOMAIN rooms' |-> rooms'[q]]
    BY <1>1, <1>2
  <2>. QED
    BY <1>1, <1>2, <1>3, <2>1
    DEF RegistryInv, RegistryTypeOK, Live, Seats, Room, Taken, RoomIds, SeatIds
<1>5. NoEmptyRooms' /\ HostIsLongestSeated' /\ CodesMatchRooms'
  BY <1>1, <1>2, <1>3
  DEF RegistryInv, NoEmptyRooms, HostIsLongestSeated, CodesMatchRooms, Live, Seats, Taken
<1>6. GensStartAtOne'
  <2>1. \A s \in Seats(r) : rooms'[r].seats[s].gen \in Nat /\ rooms[r].seats[s].gen \in Nat
    BY <1>1 DEF RegistryInv, RegistryTypeOK, Room, Seat
  <2>. QED  BY <1>1, <1>2, <1>3, <2>1 DEF RegistryInv, GensStartAtOne, Live, Seats
<1>. QED  BY <1>1, <1>2, <1>3, <1>4, <1>5, <1>6 DEF RegistryInv

(***************************************************************************)
(* What no step of the registry does: a seat that is gone never comes      *)
(* back, and no generation goes down.                                      *)
(***************************************************************************)

NoneRevives ==
  /\ seatsMade <= seatsMade'
  /\ \A r \in RoomIds, s \in SeatIds : (s <= seatsMade /\ Generation(r, s)' # 0) =>
       Generation(r, s) # 0 /\ Generation(r, s) <= Generation(r, s)'

\* A live seat is one with a generation.
LEMMA LiveSeats ==
  ASSUME RegistryInv
  PROVE  /\ seatsMade \in Nat
         /\ \A r \in Live : \A s \in Seats(r) :
              /\ r \in RoomIds /\ s \in SeatIds /\ s <= seatsMade
              /\ rooms[r].seats[s].gen \in Nat /\ rooms[r].seats[s].gen # 0
         /\ \A r, s : Generation(r, s) \in Nat
         /\ \A r, s : Generation(r, s) # 0 <=> (r \in Live /\ s \in Seats(r))
<1>1. seatsMade \in Nat /\ roomsMade \in Nat /\ MaxSeats \in Nat /\ MaxRooms \in Nat
      /\ seatsMade <= MaxSeats /\ roomsMade <= MaxRooms
  BY RegistryAssumption DEF RegistryInv, RegistryTypeOK
<1>2. \A r \in Live : r \in RoomIds
  BY <1>1 DEF RegistryInv, RegistryTypeOK, RoomIds
<1>3. \A r \in Live : \A s \in Seats(r) : s \in SeatIds /\ s <= seatsMade
  BY <1>1 DEF RegistryInv, RegistryTypeOK, SeatIds
<1>4. \A r \in Live : \A s \in Seats(r) : rooms[r].seats[s].gen \in Nat
  BY DEF RegistryInv, RegistryTypeOK, Room, Seat
<1>5. \A r \in Live : \A s \in Seats(r) : rooms[r].seats[s].gen # 0
  BY <1>4 DEF RegistryInv, GensStartAtOne
<1>. QED  BY <1>1, <1>2, <1>3, <1>4, <1>5 DEF Generation

\* A registry that is left alone.
LEMMA SameRegistry ==
  ASSUME RegistryInv, UNCHANGED registry
  PROVE  RegistryInv' /\ NoneRevives
<1>1. /\ rooms' = rooms /\ byCode' = byCode
      /\ roomsMade' = roomsMade /\ seatsMade' = seatsMade
  BY DEF registry
<1>2. RegistryInv'
  BY <1>1 DEF RegistryInv, RegistryTypeOK, NoEmptyRooms, CodesMatchRooms, HostIsLongestSeated,
              GensStartAtOne, Live, Seats, Room, Taken
<1>3. \A r, s : Generation(r, s)' = Generation(r, s)
  BY <1>1 DEF Generation, Live, Seats
<1>. QED  BY <1>1, <1>2, <1>3, LiveSeats DEF NoneRevives

\* Seats are lost, none is added and those kept are as they were.
OnlyLoses(lost) ==
  /\ UNCHANGED seatsMade /\ DOMAIN rooms' \subseteq Live
  /\ \A q \in DOMAIN rooms' : \A t \in DOMAIN rooms'[q].seats :
       t \in Seats(q) /\ <<q, t>> \notin lost /\ rooms'[q].seats[t] = rooms[q].seats[t]

\* leave takes the one seat.
LEMMA LeaveEffect ==
  ASSUME RegistryInv, NEW r, NEW s, Leave(r, s)
  PROVE  RegistryInv' /\ OnlyLoses({<<r, s>>})
<1>. DEFINE left == [q \in Live |-> IF q = r THEN Seats(r) \ {s} ELSE Seats(q)]
<1>1. Keep(left) /\ \A q \in Live : left[q] \subseteq Seats(q)
  BY DEF Leave
<1>2. \A q \in Live : \A t \in left[q] : <<q, t>> # <<r, s>>
  OBVIOUS
<1>. HIDE DEF left
<1>. QED  BY <1>1, <1>2, KeepEffect DEF OnlyLoses

\* The sweep takes silent seats.
LEMMA SweepEffect ==
  ASSUME RegistryInv, Sweep
  PROVE  RegistryInv' /\ OnlyLoses({})
<1>. DEFINE left == [r \in Live |-> {s \in Seats(r) : ~rooms[r].seats[s].silent}]
<1>1. Keep(left) /\ \A q \in Live : left[q] \subseteq Seats(q)
  BY DEF Sweep
<1>. HIDE DEF left
<1>. QED  BY <1>1, KeepEffect DEF OnlyLoses

\* Losing seats revives none.
LEMMA LossRevivesNone ==
  ASSUME RegistryInv, NEW lost, OnlyLoses(lost)
  PROVE  NoneRevives
<1>1. ASSUME NEW r \in RoomIds, NEW s \in SeatIds, Generation(r, s)' # 0
      PROVE  Generation(r, s) # 0 /\ Generation(r, s) = Generation(r, s)'
  <2>1. r \in DOMAIN rooms' /\ s \in DOMAIN rooms'[r].seats
    BY <1>1 DEF Generation, Live, Seats
  <2>2. r \in Live /\ s \in Seats(r) /\ rooms'[r].seats[s] = rooms[r].seats[s]
    BY <2>1 DEF OnlyLoses
  <2>. QED  BY <2>1, <2>2, LiveSeats DEF Generation, Live, Seats
<1>. QED  BY <1>1, LiveSeats DEF NoneRevives, OnlyLoses

\* A fresh seat is no old one.
LEMMA JoinRevivesNone ==
  ASSUME RegistryInv, NEW q, FreshSeatIn(q)
  PROVE  NoneRevives
<1>1. ASSUME NEW r \in RoomIds, NEW s \in SeatIds, s <= seatsMade, Generation(r, s)' # 0
      PROVE  Generation(r, s) # 0 /\ Generation(r, s) = Generation(r, s)'
  <2>1. r \in DOMAIN rooms' /\ s \in DOMAIN rooms'[r].seats
    BY <1>1 DEF Generation, Live, Seats
  <2>2. s # seatsMade'
    BY <1>1, LiveSeats DEF FreshSeatIn
  <2>3. r \in Live /\ s \in Seats(r) /\ rooms'[r].seats[s] = rooms[r].seats[s]
    BY <2>1, <2>2 DEF FreshSeatIn
  <2>. QED  BY <2>1, <2>3, LiveSeats DEF Generation, Live, Seats
<1>. QED  BY <1>1, LiveSeats DEF NoneRevives, FreshSeatIn

\* Edits revive none.
LEMMA EditRevivesNone ==
  ASSUME RegistryInv, NEW q, SeatsEdited(q)
  PROVE  NoneRevives
<1>1. ASSUME NEW r \in RoomIds, NEW s \in SeatIds, Generation(r, s)' # 0
      PROVE  Generation(r, s) # 0 /\ Generation(r, s) <= Generation(r, s)'
  <2>1. r \in DOMAIN rooms' /\ s \in DOMAIN rooms'[r].seats
    BY <1>1 DEF Generation, Live, Seats
  <2>2. r \in Live /\ s \in Seats(r)
    BY <2>1, EditEffect
  <2>3. rooms'[r].seats[s].gen >= rooms[r].seats[s].gen
        /\ rooms'[r].seats[s].gen \in Nat /\ rooms[r].seats[s].gen \in Nat
    <3>1. rooms'[r].seats[s].gen >= rooms[r].seats[s].gen
      <4>1. CASE r = q
        BY <4>1, <2>2 DEF SeatsEdited
      <4>2. CASE r # q
        BY <4>2, <2>2, LiveSeats DEF SeatsEdited
      <4>. QED  BY <4>1, <4>2
    <3>2. rooms'[r].seats[s].gen \in Nat
      BY <2>1, EditEffect DEF RegistryInv, RegistryTypeOK, Room, Seat, Live, Seats
    <3>. QED  BY <3>1, <3>2, <2>2, LiveSeats
  <2>. QED  BY <2>1, <2>2, <2>3, LiveSeats DEF Generation, Live, Seats
<1>. QED  BY <1>1, LiveSeats, EditEffect DEF NoneRevives

(***************************************************************************)
(* The socket tasks.                                                       *)
(***************************************************************************)

\* What was known of a token stays true of it, whatever the registry does.
LEMMA TokensAge ==
  ASSUME SocketsInv, NoneRevives, RegistryInv'
  PROVE  /\ \A t : OfThePast(t) => OfThePast(t)'
         /\ \A e \in redeemed :
              /\ e[2][2] <= seatsMade'
              /\ Generation(e[2][1], e[2][2])' # 0 =>
                   e[2][3] < Generation(e[2][1], e[2][2])'
<1>1. seatsMade \in Nat /\ seatsMade' \in Nat /\ seatsMade <= seatsMade'
      /\ \A r, s : Generation(r, s) \in Nat /\ Generation(r, s)' \in Nat
  <2>1. seatsMade \in Nat /\ \A r, s : Generation(r, s) \in Nat
    BY LiveSeats DEF SocketsInv
  <2>2. seatsMade' \in Nat /\ \A r, s : Generation(r, s)' \in Nat
    <3>1. seatsMade' \in Nat
      BY RegistryAssumption DEF RegistryInv, RegistryTypeOK
    <3>2. \A r \in DOMAIN rooms' : \A s \in DOMAIN rooms'[r].seats :
            rooms'[r].seats[s].gen \in Nat
      BY DEF RegistryInv, RegistryTypeOK, Room, Seat, Live, Seats
    <3>. QED  BY <3>1, <3>2 DEF Generation, Live, Seats
  <2>. QED  BY <2>1, <2>2 DEF NoneRevives
<1>2. ASSUME NEW t, OfThePast(t)
      PROVE  OfThePast(t)'
  <2>1. t \in RoomIds \X SeatIds \X (1..MaxGen) /\ t[2] <= seatsMade
        /\ (Generation(t[1], t[2]) # 0 => t[3] <= Generation(t[1], t[2]))
    BY <1>2 DEF OfThePast
  <2>2. t[1] \in RoomIds /\ t[2] \in SeatIds /\ t[3] \in Nat /\ t[2] \in Nat
    BY <2>1 DEF SeatIds
  <2>3. Generation(t[1], t[2])' # 0 => t[3] <= Generation(t[1], t[2])'
    <3>1. Generation(t[1], t[2]) \in Nat /\ Generation(t[1], t[2])' \in Nat
      BY <1>1
    <3>2. Generation(t[1], t[2])' # 0 =>
            Generation(t[1], t[2]) # 0 /\ Generation(t[1], t[2]) <= Generation(t[1], t[2])'
      BY <2>1, <2>2 DEF NoneRevives
    <3>. QED  BY <3>1, <3>2, <2>1, <2>2
  <2>4. t[2] <= seatsMade'
    BY <2>1, <2>2, <1>1
  <2>. QED  BY <2>1, <2>3, <2>4 DEF OfThePast, RoomIds, SeatIds
<1>3. ASSUME NEW e \in redeemed
      PROVE  /\ e[2][2] <= seatsMade'
             /\ Generation(e[2][1], e[2][2])' # 0 =>
                  e[2][3] < Generation(e[2][1], e[2][2])'
  <2>1. e[2] \in RoomIds \X SeatIds \X (1..MaxGen)
    BY DEF SocketsInv, TypeOK
  <2>2. e[2][1] \in RoomIds /\ e[2][2] \in SeatIds /\ e[2][3] \in Nat /\ e[2][2] \in Nat
    BY <2>1 DEF SeatIds
  <2>3. e[2][2] <= seatsMade
        /\ (Generation(e[2][1], e[2][2]) # 0 => e[2][3] < Generation(e[2][1], e[2][2]))
    BY DEF SocketsInv, RedeemedWereSeats, UsedTokensAreStale
  <2>4. Generation(e[2][1], e[2][2]) \in Nat /\ Generation(e[2][1], e[2][2])' \in Nat
    BY <1>1
  <2>5. Generation(e[2][1], e[2][2])' # 0 =>
          Generation(e[2][1], e[2][2]) # 0
          /\ Generation(e[2][1], e[2][2]) <= Generation(e[2][1], e[2][2])'
    BY <2>2, <2>3 DEF NoneRevives
  <2>. QED  BY <1>1, <2>2, <2>3, <2>4, <2>5
<1>. QED  BY <1>2, <1>3

\* The parts of the invariant that are about tokens hold after any step that
\* redeems none and changes no checked token but into none.
LEMMA TokensStay ==
  ASSUME SocketsInv, NoneRevives, RegistryInv', redeemed' = redeemed,
         \A k \in Sockets : sockets'[k].checked # NoToken => sockets'[k] = sockets[k]
  PROVE  ChecksAreFree' /\ RedeemedWereSeats' /\ UsedTokensAreStale'
<1>1. ChecksAreFree'
  <2>1. \A k \in Sockets : sockets'[k].checked # NoToken =>
          /\ sockets'[k].up = "open" /\ sockets'[k].seat = NoSeat
          /\ OfThePast(sockets[k].checked)' /\ sockets'[k].checked = sockets[k].checked
    BY TokensAge DEF SocketsInv, ChecksAreFree
  <2>. QED  BY <2>1 DEF ChecksAreFree, OfThePast, Generation, Live, Seats
<1>2. RedeemedWereSeats' /\ UsedTokensAreStale'
  BY TokensAge DEF RedeemedWereSeats, UsedTokensAreStale
<1>. QED  BY <1>1, <1>2

\* A seat that was not lost keeps the socket it had, if that task stays.
LEMMA SeatsKeepSockets ==
  ASSUME SocketsInv, NEW lost, OnlyLoses(lost),
         \A k \in Sockets : \/ ~Holds(k)
                            \/ sockets[k].seat \in lost
                            \/ Generation(RoomOf(k), SeatOf(k)) = 0
                            \/ sockets'[k].up = "open" /\ sockets'[k].seat = sockets[k].seat
  PROVE  SeatsHaveSockets'
<1>1. ASSUME NEW r \in DOMAIN rooms', NEW s \in DOMAIN rooms'[r].seats
      PROVE  \E k \in Sockets : Holds(k)' /\ sockets'[k].seat = <<r, s>>
  <2>1. r \in Live /\ s \in Seats(r) /\ <<r, s>> \notin lost
    BY DEF OnlyLoses
  <2>2. PICK k \in Sockets : Holds(k) /\ sockets[k].seat = <<r, s>>
    BY <2>1 DEF SocketsInv, SeatsHaveSockets
  <2>3. Generation(RoomOf(k), SeatOf(k)) # 0
    BY <2>1, <2>2, LiveSeats DEF SocketsInv, RoomOf, SeatOf
  <2>4. sockets'[k].up = "open" /\ sockets'[k].seat = <<r, s>>
    BY <2>1, <2>2, <2>3
  <2>5. <<r, s>> # NoSeat
    BY <2>2 DEF Holds
  <2>. QED  BY <2>4, <2>5 DEF Holds, NoSeat
<1>. QED  BY <1>1 DEF SeatsHaveSockets, Live, Seats

\* As above, when no seat comes or goes.
LEMMA SameSeatsKeepSockets ==
  ASSUME SocketsInv, DOMAIN rooms' = Live, \A q \in Live : DOMAIN rooms'[q].seats = Seats(q),
         \A k \in Sockets : Holds(k) =>
            sockets'[k].up = "open" /\ sockets'[k].seat = sockets[k].seat
  PROVE  SeatsHaveSockets'
<1>1. ASSUME NEW r \in DOMAIN rooms', NEW s \in DOMAIN rooms'[r].seats
      PROVE  \E k \in Sockets : Holds(k)' /\ sockets'[k].seat = <<r, s>>
  <2>1. PICK k \in Sockets : Holds(k) /\ sockets[k].seat = <<r, s>>
    BY DEF SocketsInv, SeatsHaveSockets
  <2>. QED  BY <2>1 DEF Holds, NoSeat
<1>. QED  BY <1>1 DEF SeatsHaveSockets, Live, Seats

\* The welcome seats socket k and touches no other.
LEMMA WelcomeEffect ==
  ASSUME sockets \in [Sockets -> Socket], NEW k \in Sockets,
         NEW r \in RoomIds, NEW s \in SeatIds, NEW gen, Welcome(k, r, s, gen)
  PROVE  /\ sockets' \in [Sockets -> Socket]
         /\ \A l \in Sockets : l # k => sockets'[l] = sockets[l]
         /\ sockets'[k].up = sockets[k].up /\ sockets'[k].seat = <<r, s>>
         /\ sockets'[k].checked = NoToken
<1>. DEFINE a == [sockets[k] EXCEPT !.seat = <<r, s>>]
            b == [a EXCEPT !.feed = r]
            c == [b EXCEPT !.checked = NoToken]
<1>1. sockets' = [sockets EXCEPT ![k] = c]
  BY DEF Welcome
<1>2. sockets[k] \in Socket
  OBVIOUS
<1>3. a \in Socket /\ a.up = sockets[k].up /\ a.seat = <<r, s>>
  BY <1>2 DEF Socket
<1>. HIDE DEF a
<1>4. b \in Socket /\ b.up = sockets[k].up /\ b.seat = <<r, s>>
  BY <1>3 DEF Socket
<1>. HIDE DEF b
<1>5. c \in Socket /\ c.up = sockets[k].up /\ c.seat = <<r, s>> /\ c.checked = NoToken
  BY <1>4 DEF Socket
<1>. HIDE DEF c
<1>. QED  BY <1>1, <1>5

\* A join seats the socket that asked, in the one fresh seat.
LEMMA JoinKeeps ==
  ASSUME SocketsInv, NEW k \in Sockets, JoinFrame(k)
  PROVE  SocketsInv'
<1>1. PICK code \in Codes, seed \in Seeds : Join(code, seed)
  BY DEF JoinFrame
<1>2. PICK q : RegistryInv' /\ FreshSeatIn(q)
  BY <1>1, JoinEffect DEF SocketsInv
<1>3. PICK r \in DOMAIN rooms' :
        seatsMade' \in DOMAIN rooms'[r].seats /\ Welcome(k, r, seatsMade', 1)
  BY DEF JoinFrame
<1>4. /\ seatsMade \in Nat /\ seatsMade' = seatsMade + 1
      /\ \A p \in Live : \A s \in Seats(p) : s <= seatsMade
  BY <1>2, LiveSeats DEF SocketsInv, FreshSeatIn
<1>5. r = q
  BY <1>2, <1>3, <1>4 DEF FreshSeatIn
<1>6. r \in RoomIds /\ seatsMade' \in SeatIds /\ <<r, seatsMade'>> # NoSeat
  <2>1. r \in RoomIds
    BY <1>2, <1>3, RegistryAssumption DEF RegistryInv, RegistryTypeOK, Live, RoomIds
  <2>2. seatsMade' \in SeatIds
    BY <1>2, <1>4, RegistryAssumption DEF FreshSeatIn, SeatIds
  <2>. QED  BY <2>1, <2>2, <1>4 DEF NoSeat, SeatIds
<1>7. /\ sockets[k].up = "open" /\ sockets[k].checked = NoToken /\ sockets[k].seat = NoSeat
      /\ sockets \in [Sockets -> Socket] /\ redeemed' = redeemed
      /\ tokens' = tokens \cup {<<r, seatsMade', 1>>}
  BY <1>3 DEF JoinFrame, MayJoin, Free, Reading, Welcome, SocketsInv, TypeOK
<1>8. /\ sockets' \in [Sockets -> Socket]
      /\ \A l \in Sockets : l # k => sockets'[l] = sockets[l]
      /\ sockets'[k].up = "open" /\ sockets'[k].seat = <<r, seatsMade'>>
      /\ sockets'[k].checked = NoToken
  BY <1>3, <1>6, <1>7, WelcomeEffect
<1>9. NoneRevives
  BY <1>2, JoinRevivesNone DEF SocketsInv
<1>10. ChecksAreFree' /\ RedeemedWereSeats' /\ UsedTokensAreStale'
  BY <1>2, <1>7, <1>8, <1>9, TokensStay
<1>11. TypeOK'
  <2>1. tokens' \subseteq RoomIds \X SeatIds \X (1..MaxGen)
    BY <1>6, <1>7, SocketAssumption DEF SocketsInv, TypeOK
  <2>. QED  BY <2>1, <1>2, <1>7, <1>8
            DEF SocketsInv, TypeOK, RegistryInv, RoomIds, SeatIds, Socket
<1>12. SeatsHaveSockets'
  <2>1. ASSUME NEW p \in DOMAIN rooms', NEW s \in DOMAIN rooms'[p].seats
        PROVE  \E l \in Sockets : Holds(l)' /\ sockets'[l].seat = <<p, s>>
    <3>1. CASE p = q /\ s = seatsMade'
      BY <3>1, <1>5, <1>6, <1>8 DEF Holds, NoSeat
    <3>2. CASE p \in Live /\ s \in Seats(p)
      <4>1. PICK l \in Sockets : Holds(l) /\ sockets[l].seat = <<p, s>>
        BY <3>2 DEF SocketsInv, SeatsHaveSockets
      <4>2. l # k
        BY <4>1, <1>7 DEF Holds
      <4>. QED  BY <4>1, <4>2, <1>8 DEF Holds, NoSeat
    <3>. QED  BY <3>1, <3>2, <1>2 DEF FreshSeatIn
  <2>. QED  BY <2>1 DEF SeatsHaveSockets, Live, Seats
<1>. QED  BY <1>2, <1>10, <1>11, <1>12 DEF SocketsInv

\* leave, and the end of a task that frees its seat.
LEMMA LeaveKeeps ==
  ASSUME SocketsInv, NEW k \in Sockets, Leave(RoomOf(k), SeatOf(k)),
         sockets[k].up = "open", NEW sock \in Socket, sock.checked = NoToken,
         sockets' = [sockets EXCEPT ![k] = sock], UNCHANGED <<tokens, redeemed>>
  PROVE  SocketsInv'
<1>. DEFINE lost == {<<RoomOf(k), SeatOf(k)>>}
<1>1. RegistryInv' /\ OnlyLoses(lost)
  BY LeaveEffect DEF SocketsInv
<1>2. NoneRevives
  BY <1>1, LossRevivesNone DEF SocketsInv
<1>3. /\ sockets \in [Sockets -> Socket] /\ sockets' \in [Sockets -> Socket]
      /\ \A l \in Sockets : l # k => sockets'[l] = sockets[l]
      /\ sockets'[k] = sock
  BY DEF SocketsInv, TypeOK
<1>4. ChecksAreFree' /\ RedeemedWereSeats' /\ UsedTokensAreStale'
  BY <1>1, <1>2, <1>3, TokensStay
<1>5. TypeOK'
  BY <1>1, <1>3 DEF SocketsInv, TypeOK, RegistryInv, RoomIds, SeatIds, Socket
<1>6. Holds(k) => sockets[k].seat \in lost
  BY <1>3 DEF Holds, RoomOf, SeatOf, Socket
<1>7. SeatsHaveSockets'
  <2>1. \A l \in Sockets : \/ ~Holds(l)
                           \/ sockets[l].seat \in lost
                           \/ sockets'[l].up = "open" /\ sockets'[l].seat = sockets[l].seat
    BY <1>3, <1>6 DEF Holds
  <2>. HIDE DEF lost
  <2>. QED  BY <1>1, <2>1, SeatsKeepSockets
<1>. QED  BY <1>1, <1>4, <1>5, <1>7 DEF SocketsInv

\* ready, heartbeat, and a pilot who falls silent.
LEMMA EditKeeps ==
  ASSUME SocketsInv, NEW r, SeatsEdited(r), UNCHANGED <<sockets, tokens, redeemed>>
  PROVE  SocketsInv'
<1>1. /\ RegistryInv' /\ DOMAIN rooms' = Live
      /\ \A q \in Live : DOMAIN rooms'[q].seats = Seats(q)
  BY EditEffect DEF SocketsInv
<1>2. NoneRevives
  BY EditRevivesNone DEF SocketsInv
<1>3. ChecksAreFree' /\ RedeemedWereSeats' /\ UsedTokensAreStale'
  BY <1>1, <1>2, TokensStay
<1>4. TypeOK'
  BY <1>1 DEF SocketsInv, TypeOK, RegistryInv, RoomIds, SeatIds, Socket
<1>5. SeatsHaveSockets'
  BY <1>1, SameSeatsKeepSockets DEF Holds
<1>. QED  BY <1>1, <1>3, <1>4, <1>5 DEF SocketsInv

\* The second call of a reconnect: the seat was live, the token is behind it.
LEMMA ReattachKeeps ==
  ASSUME SocketsInv, NEW k \in Sockets, Reattach(k)
  PROVE  SocketsInv'
<1>0. PICK t : t = sockets[k].checked
  OBVIOUS
<1>. DEFINE r == t[1]
            s == t[2]
<1>0a. PICK gen : gen = GrantGen(t)
  OBVIOUS
<1>1. /\ t # NoToken /\ sockets[k].up = "open" /\ Reconnect(r, s) /\ gen <= MaxGen
      /\ Welcome(k, r, s, gen) /\ redeemed' = redeemed \cup {<<k, t>>}
  BY <1>0, <1>0a DEF Reattach
<1>2. sockets[k].seat = NoSeat /\ OfThePast(t)
  BY <1>0, <1>1 DEF SocketsInv, ChecksAreFree
<1>3. /\ t \in RoomIds \X SeatIds \X (1..MaxGen) /\ s <= seatsMade
      /\ Generation(r, s) # 0 => t[3] <= Generation(r, s)
      /\ r \in RoomIds /\ s \in SeatIds /\ t[3] \in Nat
  BY <1>2 DEF OfThePast
<1>4. r \in Live /\ s \in Seats(r)
  BY <1>1 DEF Reconnect
<1>5. /\ RegistryInv' /\ DOMAIN rooms' = Live /\ seatsMade' = seatsMade
      /\ \A q \in Live : DOMAIN rooms'[q].seats = Seats(q)
  <2>1. SeatsEdited(r)
    BY <1>1, OperationsEdit DEF SocketsInv
  <2>. QED  BY <2>1, EditEffect DEF SocketsInv
<1>6. NoneRevives
  BY <1>1, OperationsEdit, EditRevivesNone DEF SocketsInv
<1>7. /\ Generation(r, s) = rooms[r].seats[s].gen /\ Generation(r, s) \in Nat \ {0}
      /\ gen = Generation(r, s) + 1 /\ Generation(r, s)' = gen
  <2>1. Generation(r, s) = rooms[r].seats[s].gen /\ Generation(r, s) \in Nat \ {0}
    BY <1>4, LiveSeats DEF SocketsInv, Generation
  <2>2. gen = Generation(r, s) + 1
    BY <2>1, <1>0a DEF GrantGen, NextGen
  <2>3. /\ rooms[r] \in Room(Seats(r)) /\ rooms[r].seats[s] \in Seat
        /\ rooms' = [rooms EXCEPT ![r].seats[s].gen = NextGen(rooms[r].seats[s]),
                                  ![r].seats[s].silent = FALSE]
    BY <1>1, <1>4 DEF Reconnect, SocketsInv, RegistryInv, RegistryTypeOK, Room
  <2>4. rooms'[r].seats[s].gen = NextGen(rooms[r].seats[s])
    BY <2>3, <1>4 DEF Room, Seat, Live, Seats
  <2>5. Generation(r, s)' = rooms'[r].seats[s].gen
    BY <1>4, <1>5 DEF Generation, Live, Seats
  <2>6. gen = NextGen(rooms[r].seats[s])
    BY <1>0a DEF GrantGen
  <2>. QED  BY <2>1, <2>2, <2>4, <2>5, <2>6 DEF NextGen
<1>8. /\ sockets \in [Sockets -> Socket]
      /\ tokens' = tokens \cup {<<r, s, gen>>}
  BY <1>1 DEF Welcome, SocketsInv, TypeOK
<1>9. /\ sockets' \in [Sockets -> Socket]
      /\ \A l \in Sockets : l # k => sockets'[l] = sockets[l]
      /\ sockets'[k].checked = NoToken
  BY <1>1, <1>3, <1>8, WelcomeEffect
<1>10. ChecksAreFree'
  <2>1. \A u : OfThePast(u) => OfThePast(u)'
    BY <1>5, <1>6, TokensAge
  <2>2. \A l \in Sockets : sockets'[l].checked # NoToken =>
          /\ sockets'[l] = sockets[l] /\ sockets[l].up = "open" /\ sockets[l].seat = NoSeat
          /\ OfThePast(sockets[l].checked)
    BY <1>9 DEF SocketsInv, ChecksAreFree
  <2>. QED  BY ZenonT(40), <2>1, <2>2 DEF ChecksAreFree, OfThePast, Generation, Live, Seats
<1>11. RedeemedWereSeats' /\ UsedTokensAreStale'
  <2>1. \A e \in redeemed : /\ e[2][2] <= seatsMade'
                            /\ Generation(e[2][1], e[2][2])' # 0 =>
                                 e[2][3] < Generation(e[2][1], e[2][2])'
    BY <1>5, <1>6, TokensAge
  <2>2. s <= seatsMade' /\ t[3] < Generation(r, s)'
    BY <1>3, <1>5, <1>7
  <2>3. \A e \in redeemed' : e \in redeemed \/ e = <<k, t>>
    BY <1>1
  <2>. QED  BY <2>1, <2>2, <2>3 DEF RedeemedWereSeats, UsedTokensAreStale
<1>12. TypeOK'
  <2>1. gen \in 1..MaxGen
    <3>. DEFINE g == Generation(r, s)
    <3>1. g \in Nat \ {0} /\ gen = g + 1 /\ gen <= MaxGen /\ MaxGen \in Nat
      BY <1>1, <1>7, SocketAssumption
    <3>. HIDE DEF g, r, s
    <3>. QED  BY <3>1
  <2>2. tokens' \subseteq RoomIds \X SeatIds \X (1..MaxGen)
    BY <2>1, <1>3, <1>8 DEF SocketsInv, TypeOK
  <2>3. redeemed' \subseteq Sockets \X (RoomIds \X SeatIds \X (1..MaxGen))
    BY <1>1, <1>3 DEF SocketsInv, TypeOK
  <2>. QED  BY <2>2, <2>3, <1>5, <1>9 DEF TypeOK, RegistryInv, RoomIds, SeatIds, Socket
<1>13. SeatsHaveSockets'
  <2>1. \A l \in Sockets : Holds(l) =>
            sockets'[l].up = "open" /\ sockets'[l].seat = sockets[l].seat
    BY <1>2, <1>9 DEF Holds
  <2>. QED  BY <2>1, <1>5, SameSeatsKeepSockets
<1>. QED  BY <1>5, <1>10, <1>11, <1>12, <1>13 DEF SocketsInv

\* Steps of the sockets that leave the registry alone.
LEMMA AsideKeeps ==
  ASSUME SocketsInv, UNCHANGED <<registry, redeemed>>,
         \/ \E k \in Sockets : Open(k) /\ UNCHANGED tokens
         \/ \E k \in Sockets : \E t \in tokens : CheckToken(k, t)
         \/ IssueToken
         \/ \E t \in tokens : ExpireToken(t)
         \/ \E k \in Sockets : sockets[k].up = "open" /\ ~Frees(k) /\ sockets' = Released(k)
                               /\ UNCHANGED tokens
         \/ UNCHANGED <<sockets, tokens>>
  PROVE  SocketsInv'
<1>1. RegistryInv' /\ NoneRevives
  BY SameRegistry DEF SocketsInv
<1>2. DOMAIN rooms' = Live /\ (\A q \in Live : DOMAIN rooms'[q].seats = Seats(q)) /\ OnlyLoses({})
  BY DEF registry, Live, Seats, OnlyLoses
<1>3. sockets \in [Sockets -> Socket] /\ redeemed' = redeemed
  BY DEF SocketsInv, TypeOK
<1>4. RedeemedWereSeats' /\ UsedTokensAreStale'
  BY <1>1, <1>3, TokensAge DEF RedeemedWereSeats, UsedTokensAreStale
<1>5. ASSUME sockets' \in [Sockets -> Socket],
             tokens' \subseteq RoomIds \X SeatIds \X (1..MaxGen)
      PROVE  TypeOK'
  BY <1>1, <1>3, <1>5 DEF SocketsInv, TypeOK, RegistryInv, RoomIds, SeatIds, Socket
<1>6. CASE sockets' = sockets
  <2>1. tokens' \subseteq RoomIds \X SeatIds \X (1..MaxGen)
    <3>1. CASE IssueToken
      <4>1. PICK r \in RoomIds, s \in SeatIds, gen \in 0..MaxGen :
              Issuable(r, s, gen) /\ tokens' = tokens \cup {<<r, s, gen>>}
        BY <3>1 DEF IssueToken
      <4>2. gen \in 1..MaxGen
        BY <4>1, SocketAssumption DEF Issuable
      <4>. QED  BY <4>1, <4>2 DEF SocketsInv, TypeOK
    <3>2. CASE tokens' \subseteq tokens
      BY <3>2 DEF SocketsInv, TypeOK
    <3>3. IssueToken \/ tokens' \subseteq tokens
      BY DEF ExpireToken, CheckToken
    <3>. QED  BY <3>1, <3>2, <3>3
  <2>2. ChecksAreFree'
    BY <1>1, <1>3, <1>6, TokensStay
  <2>3. SeatsHaveSockets'
    BY <1>2, <1>6, SameSeatsKeepSockets DEF Holds
  <2>. QED  BY <1>1, <1>4, <1>5, <1>3, <1>6, <2>1, <2>2, <2>3 DEF SocketsInv
<1>7. ASSUME NEW k \in Sockets, Open(k), tokens' = tokens
      PROVE  SocketsInv'
  <2>1. sockets[k].up = "new" /\ sockets' = [sockets EXCEPT ![k].up = "open"]
    BY <1>7 DEF Open
  <2>2. /\ sockets' \in [Sockets -> Socket]
        /\ \A l \in Sockets : l # k => sockets'[l] = sockets[l]
        /\ sockets'[k].checked = sockets[k].checked
    BY <1>3, <2>1 DEF Socket
  <2>3. sockets[k].checked = NoToken
    BY <2>1 DEF SocketsInv, ChecksAreFree
  <2>4. ChecksAreFree'
    BY <1>1, <1>3, <2>2, <2>3, TokensStay
  <2>5. SeatsHaveSockets'
    BY <1>2, <2>1, <2>2, SameSeatsKeepSockets DEF Holds
  <2>6. TypeOK'
    BY <1>5, <1>7, <2>2 DEF SocketsInv, TypeOK
  <2>. QED  BY <1>1, <1>4, <2>4, <2>5, <2>6 DEF SocketsInv
<1>8. ASSUME NEW k \in Sockets, NEW t \in tokens, CheckToken(k, t)
      PROVE  SocketsInv'
  <2>1. /\ sockets[k].up = "open" /\ sockets[k].seat = NoSeat /\ Generation(t[1], t[2]) = t[3]
        /\ sockets' = [sockets EXCEPT ![k].checked = t] /\ tokens' = tokens
    BY <1>8 DEF CheckToken, Free, Reading
  <2>2. t \in RoomIds \X SeatIds \X (1..MaxGen) /\ t[3] \in Nat \ {0}
    BY DEF SocketsInv, TypeOK
  <2>3. OfThePast(t)
    <3>1. t[1] \in Live /\ t[2] \in Seats(t[1])
      BY <2>1, <2>2, LiveSeats DEF SocketsInv
    <3>. QED  BY <2>1, <2>2, <3>1, LiveSeats DEF SocketsInv, OfThePast
  <2>4. /\ sockets' \in [Sockets -> Socket]
        /\ \A l \in Sockets : l # k => sockets'[l] = sockets[l]
        /\ sockets'[k].checked = t /\ sockets'[k].up = "open" /\ sockets'[k].seat = NoSeat
    BY <1>3, <2>1, <2>2 DEF Socket
  <2>5. ChecksAreFree'
    <3>1. OfThePast(t)' /\ \A u : OfThePast(u) => OfThePast(u)'
      BY <1>1, <2>3, TokensAge
    <3>2. \A l \in Sockets : sockets'[l].checked # NoToken =>
            /\ sockets'[l].up = "open" /\ sockets'[l].seat = NoSeat
            /\ OfThePast(sockets'[l].checked)
      BY <2>3, <2>4 DEF SocketsInv, ChecksAreFree
    <3>. QED  BY <3>1, <3>2 DEF ChecksAreFree, OfThePast, Generation, Live, Seats
  <2>6. SeatsHaveSockets'
    BY <1>2, <2>1, <2>4, SameSeatsKeepSockets DEF Holds
  <2>7. TypeOK'
    BY <1>5, <2>1, <2>4 DEF SocketsInv, TypeOK
  <2>. QED  BY <1>1, <1>4, <2>5, <2>6, <2>7 DEF SocketsInv
<1>9. ASSUME NEW k \in Sockets, ~Frees(k), sockets' = Released(k), tokens' = tokens
      PROVE  SocketsInv'
  <2>1. /\ sockets' \in [Sockets -> Socket]
        /\ \A l \in Sockets : l # k => sockets'[l] = sockets[l]
        /\ sockets'[k].checked = NoToken
    <3>1. [NewSocket EXCEPT !.up = "gone"] \in Socket
          /\ [NewSocket EXCEPT !.up = "gone"].checked = NoToken
      BY DEF NewSocket, Socket
    <3>. QED  BY <1>3, <1>9, <3>1 DEF Released
  <2>2. ChecksAreFree'
    BY <1>1, <1>3, <2>1, TokensStay
  <2>3. SeatsHaveSockets'
    <3>1. \A l \in Sockets : \/ ~Holds(l)
                             \/ Generation(RoomOf(l), SeatOf(l)) = 0
                             \/ sockets'[l].up = "open" /\ sockets'[l].seat = sockets[l].seat
      BY <1>9, <2>1 DEF Frees, Holds
    <3>. QED  BY <1>2, <3>1, SeatsKeepSockets
  <2>4. TypeOK'
    BY <1>5, <1>9, <2>1 DEF SocketsInv, TypeOK
  <2>. QED  BY <1>1, <1>4, <2>2, <2>3, <2>4 DEF SocketsInv
<1>. QED  BY <1>6, <1>7, <1>8, <1>9 DEF IssueToken, ExpireToken

(***************************************************************************)
(* The invariant, and what follows from it.                                *)
(***************************************************************************)

\* The empty registry is in order.
LEMMA StartsInOrder == Init => SocketsInv
<1>. SUFFICES ASSUME Init
              PROVE  SocketsInv
  OBVIOUS
<1>1. /\ rooms = [r \in {} |-> 0] /\ byCode = [c \in {} |-> 0]
      /\ roomsMade = 0 /\ seatsMade = 0
      /\ sockets = [k \in Sockets |-> NewSocket] /\ tokens = {} /\ redeemed = {}
  BY DEF Init, RegistryInit
<1>2. DOMAIN rooms = {} /\ DOMAIN byCode = {} /\ byCode \in [{} -> RoomIds]
      /\ rooms = [r \in DOMAIN rooms |-> rooms[r]]
  BY <1>1
<1>3. RegistryInv
  BY <1>1, <1>2, RegistryAssumption
  DEF RegistryInv, RegistryTypeOK, NoEmptyRooms, CodesMatchRooms, HostIsLongestSeated,
      GensStartAtOne, Live, Taken
<1>4. sockets \in [Sockets -> Socket] /\ \A k \in Sockets : sockets[k].checked = NoToken
  <2>1. NewSocket \in Socket /\ NewSocket.checked = NoToken
    BY DEF NewSocket, Socket
  <2>. QED  BY <1>1, <2>1
<1>. QED
  BY <1>1, <1>2, <1>3, <1>4
  DEF SocketsInv, RegistryInv, TypeOK, ChecksAreFree, RedeemedWereSeats, SeatsHaveSockets,
      UsedTokensAreStale, Live

\* Every step of a socket keeps the invariant.
LEMMA SocketStepKeeps ==
  ASSUME SocketsInv, NEW k \in Sockets, SocketStep(k)
  PROVE  SocketsInv'
<1>1. CASE Open(k)
  BY <1>1, AsideKeeps DEF Open
<1>2. CASE JoinFrame(k)
  BY <1>2, JoinKeeps
<1>3. CASE LeaveFrame(k)
  <2>. DEFINE sock == [sockets[k] EXCEPT !.seat = NoSeat]
  <2>1. sock \in Socket /\ sock.checked = NoToken
    BY <1>3 DEF LeaveFrame, Reading, SocketsInv, TypeOK, Socket
  <2>2. sockets' = [sockets EXCEPT ![k] = sock]
    BY <1>3 DEF LeaveFrame
  <2>. HIDE DEF sock
  <2>. QED  BY <1>3, <2>1, <2>2, LeaveKeeps DEF LeaveFrame, Reading
<1>4. CASE ReadyFrame(k)
  BY <1>4, OperationsEdit, EditKeeps DEF ReadyFrame, SocketsInv
<1>5. CASE HeartbeatFrame(k)
  BY <1>5, OperationsEdit, EditKeeps DEF HeartbeatFrame, SocketsInv
<1>6. CASE \E t \in tokens : CheckToken(k, t)
  BY <1>6, AsideKeeps DEF CheckToken
<1>7. CASE Reattach(k)
  BY <1>7, ReattachKeeps
<1>8. CASE SocketGone(k)
  <2>1. CASE Frees(k)
    <3>. DEFINE sock == [NewSocket EXCEPT !.up = "gone"]
    <3>1. sock \in Socket /\ sock.checked = NoToken
      BY DEF NewSocket, Socket
    <3>2. sockets' = [sockets EXCEPT ![k] = sock]
      BY <1>8 DEF SocketGone, Released
    <3>. HIDE DEF sock
    <3>. QED  BY <1>8, <2>1, <3>1, <3>2, LeaveKeeps DEF SocketGone
  <2>2. CASE ~Frees(k)
    BY <1>8, <2>2, AsideKeeps DEF SocketGone
  <2>. QED  BY <2>1, <2>2
<1>. QED  BY <1>1, <1>2, <1>3, <1>4, <1>5, <1>6, <1>7, <1>8 DEF SocketStep

\* Every step keeps the invariant.
LEMMA StepKeeps == SocketsInv /\ [Next]_vars => SocketsInv'
<1>. SUFFICES ASSUME SocketsInv, [Next]_vars
              PROVE  SocketsInv'
  OBVIOUS
<1>1. CASE \E k \in Sockets : SocketStep(k)
  BY <1>1, SocketStepKeeps
<1>2. CASE IssueToken \/ \E t \in tokens : ExpireToken(t)
  BY <1>2, AsideKeeps DEF IssueToken, ExpireToken
<1>3. CASE TimerStep
  <2>1. CASE Sweep
    <3>1. RegistryInv' /\ OnlyLoses({})
      BY <2>1, SweepEffect DEF SocketsInv
    <3>2. sockets' = sockets /\ tokens' = tokens /\ redeemed' = redeemed
      BY <1>3 DEF TimerStep
    <3>3. NoneRevives
      BY <3>1, LossRevivesNone DEF SocketsInv
    <3>4. ChecksAreFree' /\ RedeemedWereSeats' /\ UsedTokensAreStale'
      BY <3>1, <3>2, <3>3, TokensStay
    <3>5. SeatsHaveSockets'
      BY <3>1, <3>2, SeatsKeepSockets DEF Holds
    <3>6. TypeOK'
      BY <3>1, <3>2 DEF SocketsInv, TypeOK, RegistryInv, RoomIds, SeatIds, Socket
    <3>. QED  BY <3>1, <3>4, <3>5, <3>6 DEF SocketsInv
  <2>2. CASE \E r \in Live : \E s \in Seats(r) : FallSilent(r, s)
    BY <1>3, <2>2, OperationsEdit, EditKeeps DEF TimerStep, SocketsInv
  <2>. QED  BY <1>3, <2>1, <2>2 DEF TimerStep
<1>4. CASE UNCHANGED vars
  BY <1>4, AsideKeeps DEF vars, registry
<1>. QED  BY <1>1, <1>2, <1>3, <1>4 DEF Next

\* Every reachable state satisfies the invariant.
THEOREM Inductive == Spec => []SocketsInv
BY StartsInOrder, StepKeeps, PTL DEF Spec

\* The registry, the tasks' variables and the tokens keep to their types.
THEOREM TypeCorrect == Spec => []TypeOK
<1>1. SocketsInv => TypeOK
  BY DEF SocketsInv
<1>. QED  BY <1>1, Inductive, PTL

\* The two maps of the registry name the same rooms, and no room is empty.
THEOREM CodesCorrect == Spec => []CodesMatchRooms /\ []NoEmptyRooms
<1>1. SocketsInv => CodesMatchRooms /\ NoEmptyRooms
  BY DEF SocketsInv, RegistryInv
<1>. QED  BY <1>1, Inductive, PTL

\* The host of a room is its longest-seated pilot.
THEOREM HostCorrect == Spec => []HostIsLongestSeated
<1>1. SocketsInv => HostIsLongestSeated
  BY DEF SocketsInv, RegistryInv
<1>. QED  BY <1>1, Inductive, PTL

\* Whatever the tasks do between each other's calls, no seat is left without
\* a task that will free it.
THEOREM SeatsCorrect == Spec => []SeatsHaveSockets
<1>1. SocketsInv => SeatsHaveSockets
  BY DEF SocketsInv
<1>. QED  BY <1>1, Inductive, PTL

\* A token that reattached a seat is behind that seat for good.
THEOREM TokensCorrect == Spec => []UsedTokensAreStale
<1>1. SocketsInv => UsedTokensAreStale
  BY DEF SocketsInv
<1>. QED  BY <1>1, Inductive, PTL

\* A used token is behind its seat, so that no check passes with it.
THEOREM TokensStayShut == Spec => UsedTokensStayShut
<1>. DEFINE Shut == \A k \in Sockets, e \in redeemed :
                      sockets'[k].checked = e[2] => sockets[k].checked = e[2]
<1>1. ASSUME SocketsInv, Next
      PROVE  Shut
  <2>. SUFFICES ASSUME NEW k \in Sockets, NEW e \in redeemed,
                       sockets'[k].checked = e[2], sockets[k].checked # e[2]
                PROVE  FALSE
    OBVIOUS
  <2>1. sockets \in [Sockets -> Socket] /\ e[2] # NoToken /\ e[2][3] \in Nat \ {0}
    <3>1. redeemed \subseteq Sockets \X (RoomIds \X SeatIds \X (1..MaxGen))
      BY <1>1 DEF SocketsInv, TypeOK
    <3>2. e[2] \in RoomIds \X SeatIds \X (1..MaxGen)
      BY <3>1
    <3>. QED  BY <1>1, <3>2, SocketAssumption DEF SocketsInv, TypeOK, NoToken, RoomIds
  <2>2. ASSUME NEW l \in Sockets, NEW t, CheckToken(l, t)
        PROVE  FALSE
    <3>1. t = e[2]
      BY <2>1, <2>2 DEF CheckToken
    <3>2. Generation(e[2][1], e[2][2]) = e[2][3]
      BY <2>2, <3>1 DEF CheckToken
    <3>3. e[2][3] < Generation(e[2][1], e[2][2])
      BY <1>1, <2>1, <3>2 DEF SocketsInv, UsedTokensAreStale
    <3>. QED  BY <2>1, <3>2, <3>3
  <2>3. ASSUME NEW l \in Sockets, SocketStep(l), \A t \in tokens : ~CheckToken(l, t)
        PROVE  sockets'[k].checked \in {sockets[k].checked, NoToken}
    <3>1. ASSUME NEW r, NEW s, NEW gen, Welcome(l, r, s, gen)
          PROVE  sockets'[k].checked \in {sockets[k].checked, NoToken}
      BY <2>1, <3>1 DEF Welcome, Socket
    <3>2. CASE JoinFrame(l) \/ Reattach(l)
      BY <3>1, <3>2 DEF JoinFrame, Reattach
    <3>3. CASE Open(l) \/ LeaveFrame(l)
      BY <2>1, <3>3 DEF Open, LeaveFrame, Socket
    <3>4. CASE ReadyFrame(l) \/ HeartbeatFrame(l)
      BY <3>4 DEF ReadyFrame, HeartbeatFrame
    <3>5. CASE SocketGone(l)
      BY <2>1, <3>5 DEF SocketGone, Released, NewSocket
    <3>. QED  BY <2>3, <3>2, <3>3, <3>4, <3>5 DEF SocketStep
  <2>4. ASSUME IssueToken \/ TimerStep \/ \E t \in tokens : ExpireToken(t)
        PROVE  sockets' = sockets
    BY <2>4 DEF IssueToken, TimerStep, ExpireToken
  <2>. QED  BY <1>1, <2>1, <2>2, <2>3, <2>4 DEF Next
<1>2. UNCHANGED vars => Shut
  BY DEF vars
<1>. HIDE DEF Shut
<1>3. SocketsInv /\ [Next]_vars => [Shut]_vars
  BY <1>1, <1>2
<1>. QED  BY <1>3, Inductive, PTL DEF Spec, UsedTokensStayShut, Shut

\* A race that started takes nobody in and never becomes a lobby again.
THEOREM FieldsCorrect == Spec => StartedFieldsOnlyShrink
<1>. DEFINE Shrinks == \A r \in Live : (rooms[r].started /\ r \in DOMAIN rooms') =>
                         rooms'[r].started /\ DOMAIN rooms'[r].seats \subseteq Seats(r)
<1>1. ASSUME SocketsInv, Next
      PROVE  Shrinks \/ UNCHANGED registry
  <2>. USE <1>1 DEF SocketsInv
  <2>1. ASSUME NEW left, Keep(left), \A r \in Live : left[r] \subseteq Seats(r)
        PROVE  Shrinks
    BY <2>1, KeepEffect
  <2>2. ASSUME NEW r, NEW s, Leave(r, s)
        PROVE  Shrinks
    <3>. DEFINE left == [q \in Live |-> IF q = r THEN Seats(r) \ {s} ELSE Seats(q)]
    <3>1. Keep(left) /\ \A q \in Live : left[q] \subseteq Seats(q)
      BY <2>2 DEF Leave
    <3>. HIDE DEF left
    <3>. QED  BY <2>1, <3>1
  <2>3. ASSUME Sweep
        PROVE  Shrinks
    <3>. DEFINE left == [r \in Live |-> {s \in Seats(r) : ~rooms[r].seats[s].silent}]
    <3>1. Keep(left) /\ \A q \in Live : left[q] \subseteq Seats(q)
      BY <2>3 DEF Sweep
    <3>. HIDE DEF left
    <3>. QED  BY <2>1, <3>1
  <2>4. ASSUME NEW r, SeatsEdited(r)
        PROVE  Shrinks
    BY <2>4, EditEffect
  <2>5. ASSUME NEW code \in Codes, NEW seed \in Seeds, Join(code, seed)
        PROVE  Shrinks
    BY <2>5, JoinEffect DEF FreshSeatIn, Seats
  <2>. HIDE DEF Shrinks
  <2>6. ASSUME NEW k \in Sockets, SocketStep(k)
        PROVE  Shrinks \/ UNCHANGED registry
    <3>1. CASE JoinFrame(k)
      BY <3>1, <2>5 DEF JoinFrame
    <3>2. CASE LeaveFrame(k) \/ SocketGone(k)
      BY <3>2, <2>2 DEF LeaveFrame, SocketGone
    <3>3. CASE ReadyFrame(k) \/ HeartbeatFrame(k) \/ Reattach(k)
      BY <3>3, <2>4, OperationsEdit DEF ReadyFrame, HeartbeatFrame, Reattach
    <3>4. CASE Open(k) \/ \E t \in tokens : CheckToken(k, t)
      BY <3>4 DEF Open, CheckToken
    <3>. QED  BY <2>6, <3>1, <3>2, <3>3, <3>4 DEF SocketStep
  <2>7. ASSUME TimerStep
        PROVE  Shrinks
    BY <2>7, <2>3, <2>4, OperationsEdit DEF TimerStep
  <2>. QED  BY <2>6, <2>7 DEF Next, IssueToken, ExpireToken
<1>2. UNCHANGED vars => UNCHANGED registry
  BY DEF vars, registry
<1>3. SocketsInv /\ [Next]_vars => [Shrinks]_registry
  BY <1>1, <1>2
<1>. QED  BY <1>3, Inductive, PTL DEF Spec, StartedFieldsOnlyShrink
=============================================================================
