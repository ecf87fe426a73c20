------------------------- MODULE RoomServiceProofs -------------------------
(***************************************************************************)
(* Proofs about RoomService for every value of its constants: types,       *)
(* suspensions, capacity, and matchmaking.                                 *)
(***************************************************************************)
EXTENDS RoomService, FiniteSetTheorems, WellFoundedInduction, TLAPS

(***************************************************************************)
(* The inductive invariant.  There are finitely many rooms at any time, so *)
(* the Map has a first one, although codes need not be finitely many.      *)
(***************************************************************************)

ServiceInv ==
  /\ RoomsOK /\ OrderOK /\ IsFiniteSet(Live)
  /\ SuspendedHoldNoSeat /\ NeverOverfull /\ ClosedRoomsAreEmpty

\* What becomes of a room when nobody is let in.
Keeps(w, r) ==
  /\ w \in Room /\ Seated(w) \subseteq Seated(r)
  /\ Terminal(w) => Seated(w) = {}

(***************************************************************************)
(* What the operators of a session make of a room.                         *)
(***************************************************************************)

\* The clock of a room has a last value.
LEMMA TtlIsNat == MaxTtl \in Nat
BY ServiceAssumption DEF MaxTtl

\* A seat map is a function from some of the players.
LEMMA SeatMapsAre ==
  ASSUME NEW m
  PROVE  m \in SeatMaps <=> (DOMAIN m \subseteq Players /\ m \in [DOMAIN m -> Seat])
BY DEF SeatMaps

\* The empty seat map.
LEMMA NoSeatsIsMap == NoSeats \in SeatMaps /\ DOMAIN NoSeats = {}
BY SeatMapsAre DEF NoSeats

\* Other seats, same room.
LEMMA NewSeats ==
  ASSUME NEW r \in Room, NEW m \in SeatMaps
  PROVE  /\ [r EXCEPT !.seats = m] \in Room
         /\ [r EXCEPT !.seats = m].seats = m
         /\ [r EXCEPT !.seats = m].status = r.status
BY DEF Room

\* A player's seat is edited.
LEMMA EditedSeat ==
  ASSUME NEW r \in Room, NEW p \in Seated(r), NEW seat \in Seat,
         Terminal(r) => Seated(r) = {}
  PROVE  /\ Keeps([r EXCEPT !.seats = [r.seats EXCEPT ![p] = seat]], r)
         /\ Seated([r EXCEPT !.seats = [r.seats EXCEPT ![p] = seat]]) = Seated(r)
<1>. DEFINE m == [r.seats EXCEPT ![p] = seat]
<1>1. r.seats \in SeatMaps /\ DOMAIN r.seats = Seated(r)
  BY DEF Room, Seated
<1>2. m \in SeatMaps /\ DOMAIN m = Seated(r)
  BY <1>1, SeatMapsAre
<1>. HIDE DEF m
<1>3. Keeps([r EXCEPT !.seats = m], r) /\ Seated([r EXCEPT !.seats = m]) = Seated(r)
  BY <1>2, NewSeats DEF Keeps, Seated, Terminal
<1>. QED  BY <1>3 DEF m

\* poke, and what reconnect and markDisconnected write.
LEMMA PokedKeeps ==
  ASSUME NEW r \in Room, NEW p \in Seated(r), Terminal(r) => Seated(r) = {},
         NEW phase \in {"connected", "reconnecting"}
  PROVE  /\ Keeps([r EXCEPT !.seats[p].stale = FALSE], r)
         /\ Keeps([r EXCEPT !.seats[p].phase = phase, !.seats[p].stale = FALSE], r)
<1>. DEFINE v == [r EXCEPT !.seats[p].phase = phase]
<1>1. \A q \in Room : p \in Seated(q) => q.seats[p] \in Seat
  BY SeatMapsAre DEF Room, Seated
<1>2. ASSUME NEW q \in Room, p \in Seated(q), Terminal(q) => Seated(q) = {}
      PROVE  Keeps([q EXCEPT !.seats[p].stale = FALSE], q)
  <2>1. [q.seats[p] EXCEPT !.stale = FALSE] \in Seat
    BY <1>1, <1>2 DEF Seat
  <2>. QED  BY <1>2, <2>1, EditedSeat
<1>3. Keeps(v, r) /\ Seated(v) = Seated(r)
  <2>1. [r.seats[p] EXCEPT !.phase = phase] \in Seat
    BY <1>1 DEF Seat
  <2>. QED  BY <2>1, EditedSeat
<1>. HIDE DEF v
<1>4. Keeps([v EXCEPT !.seats[p].stale = FALSE], v)
  BY <1>2, <1>3 DEF Keeps
<1>5. Keeps([v EXCEPT !.seats[p].stale = FALSE], r)
  BY <1>3, <1>4 DEF Keeps
<1>. QED  BY <1>2, <1>5 DEF v

\* removeSeat
LEMMA RemovedKeeps ==
  ASSUME NEW r \in Room, NEW ps, Terminal(r) => Seated(r) = {}
  PROVE  Keeps(Removed(r, ps), r) /\ Seated(Removed(r, ps)) = Seated(r) \ ps
         /\ Removed(r, ps).status = r.status
<1>. DEFINE m == Restrict(r.seats, Seated(r) \ ps)
<1>1. r.seats \in SeatMaps /\ DOMAIN r.seats = Seated(r)
  BY DEF Room, Seated
<1>2. m \in SeatMaps /\ DOMAIN m = Seated(r) \ ps
  BY <1>1, SeatMapsAre DEF Restrict
<1>. HIDE DEF m
<1>3. Removed(r, ps) = [r EXCEPT !.seats = m]
  BY DEF Removed, m
<1>. QED  BY <1>2, <1>3, NewSeats DEF Keeps, Seated, Terminal

\* completeRace and cancel
LEMMA ClosedKeeps ==
  ASSUME NEW r \in Room, NEW status \in {"finished", "canceled"}
  PROVE  Keeps(Closed(r, status), r) /\ Seated(Closed(r, status)) = {}
<1>. DEFINE a == [r EXCEPT !.status = status]
            b == [a EXCEPT !.seats = NoSeats]
            c == [b EXCEPT !.age = 0]
            d == [c EXCEPT !.stamped = TRUE]
<1>1. a \in Room
  BY DEF Room
<1>. HIDE DEF a
<1>2. b \in Room /\ b.seats = NoSeats
  BY <1>1, NoSeatsIsMap, NewSeats
<1>. HIDE DEF b
<1>3. c \in Room /\ c.seats = NoSeats
  BY <1>2, TtlIsNat DEF Room
<1>. HIDE DEF c
<1>4. d \in Room /\ d.seats = NoSeats
  BY <1>3 DEF Room
<1>. HIDE DEF d
<1>5. Closed(r, status) = d
  BY DEF Closed, a, b, c, d
<1>. QED  BY <1>4, <1>5, NoSeatsIsMap DEF Keeps, Seated

\* maybeComplete
LEMMA SettledKeeps ==
  ASSUME NEW r \in Room, Terminal(r) => Seated(r) = {}
  PROVE  Keeps(Settled(r), r)
BY ClosedKeeps DEF Settled, Keeps

\* What keeps a kept room keeps the room.
LEMMA KeepsTwice ==
  ASSUME NEW r, NEW v, NEW w, Keeps(v, r), Keeps(w, v)
  PROVE  Keeps(w, r)
BY DEF Keeps

\* finish
LEMMA PlacedKeeps ==
  ASSUME NEW r \in Room, NEW p \in Seated(r), Terminal(r) => Seated(r) = {}
  PROVE  Keeps(Placed(r, p), r)
<1>. DEFINE seat == [r.seats[p] EXCEPT !.done = TRUE]
            v == [r EXCEPT !.seats = [r.seats EXCEPT ![p] = seat]]
<1>1. r.seats[p] \in Seat
  BY SeatMapsAre DEF Room, Seated
<1>2. seat \in Seat
  BY <1>1 DEF Seat
<1>3. Keeps(v, r)
  BY <1>2, EditedSeat
<1>4. Placed(r, p) = Settled(v)
  BY DEF Placed
<1>. HIDE DEF v
<1>5. Keeps(Settled(v), v)
  BY <1>3, SettledKeeps DEF Keeps
<1>. QED  BY <1>3, <1>4, <1>5, KeepsTwice

\* leave: the player is out, whether or not the race ends with it.
LEMMA LeftKeeps ==
  ASSUME NEW r \in Room, NEW p \in Seated(r), Terminal(r) => Seated(r) = {}
  PROVE  Keeps(Left(r, p), r) /\ p \notin Seated(Left(r, p))
<1>1. CASE r.status = "racing" /\ ~r.seats[p].done
  <2>1. Keeps(Placed(r, p), r)
    BY PlacedKeeps
  <2>2. Keeps(Removed(Placed(r, p), {p}), Placed(r, p))
        /\ p \notin Seated(Removed(Placed(r, p), {p}))
    BY <2>1, RemovedKeeps DEF Keeps
  <2>. QED  BY <1>1, <2>1, <2>2, KeepsTwice DEF Left
<1>2. CASE ~(r.status = "racing" /\ ~r.seats[p].done)
  BY <1>2, RemovedKeeps DEF Left
<1>. QED  BY <1>1, <1>2

\* tickStep of a lobby
LEMMA TickedLobbyKeeps ==
  ASSUME NEW r \in Room, Terminal(r) => Seated(r) = {}
  PROVE  Keeps(TickedLobby(r), r)
<1>. DEFINE w == Removed(r, Overdue(r))
<1>1. Keeps(w, r)
  BY RemovedKeeps
<1>. HIDE DEF w
<1>2. ASSUME Seated(w) = {}
      PROVE  Keeps([w EXCEPT !.status = "canceled"], r)
  BY <1>1, <1>2 DEF Keeps, Room, Seated
<1>. QED  BY <1>1, <1>2 DEF TickedLobby, w

\* tickStep of a race
LEMMA TickedRaceKeeps ==
  ASSUME NEW r \in Room, Terminal(r) => Seated(r) = {}
  PROVE  Keeps(TickedRace(r), r)
<1>. DEFINE gone == {p \in Overdue(r) : ~r.seats[p].done}
            w == Removed(r, gone)
<1>1. Keeps(w, r)
  BY RemovedKeeps
<1>. HIDE DEF w
<1>2. Keeps(Settled(w), w)
  BY <1>1, SettledKeeps DEF Keeps
<1>3. Keeps(Settled(w), r)
  BY <1>1, <1>2, KeepsTwice
<1>4. Keeps(r, r)
  BY DEF Keeps
<1>. QED  BY <1>3, <1>4 DEF TickedRace, w

\* A grace window passes.
LEMMA AgedKeeps ==
  ASSUME NEW r \in Room, Terminal(r) => Seated(r) = {}
  PROVE  Keeps(Aged(r), r)
<1>. DEFINE age == IF r.age > MaxTtl THEN r.age ELSE r.age + 1
            v == [r EXCEPT !.age = age]
            m == [p \in Seated(r) |-> [r.seats[p] EXCEPT !.stale = TRUE]]
<1>1. age \in 0..(MaxTtl + 1)
  BY TtlIsNat DEF Room
<1>. HIDE DEF age
<1>2. v \in Room /\ v.status = r.status
  BY <1>1 DEF Room
<1>3. Seated(r) \subseteq Players /\ \A p \in Seated(r) : r.seats[p] \in Seat
  BY SeatMapsAre DEF Room, Seated
<1>4. \A p \in Seated(r) : [r.seats[p] EXCEPT !.stale = TRUE] \in Seat
  BY <1>3 DEF Seat
<1>5. m \in SeatMaps /\ DOMAIN m = Seated(r)
  BY <1>3, <1>4, SeatMapsAre
<1>. HIDE DEF m, v
<1>6. Aged(r) = [v EXCEPT !.seats = m]
  BY DEF Aged, v, m, age
<1>. QED  BY ZenonT(40), <1>2, <1>5, <1>6, NewSeats DEF Keeps, Seated, Terminal

\* join: the pilot is in, nobody else is.
LEMMA JoinedSeats ==
  ASSUME NEW r \in Room, NEW p \in Players
  PROVE  /\ Joined(r, p) \in Room /\ Seated(Joined(r, p)) = Seated(r) \cup {p}
         /\ Joined(r, p).status = r.status
<1>. DEFINE seat == IF p \in Seated(r) /\ ~r.seats[p].stale
                    THEN [r.seats[p] EXCEPT !.phase = "connected"] ELSE FreshSeat
            m == [q \in Seated(r) \cup {p} |-> IF q # p THEN r.seats[q] ELSE seat]
<1>1. Seated(r) \subseteq Players /\ \A q \in Seated(r) : r.seats[q] \in Seat
  BY SeatMapsAre DEF Room, Seated
<1>2. seat \in Seat
  BY <1>1 DEF Seat, FreshSeat
<1>3. Joined(r, p) = [r EXCEPT !.seats = m]
  BY DEF Joined
<1>. HIDE DEF seat
<1>4. m \in SeatMaps /\ DOMAIN m = Seated(r) \cup {p}
  BY <1>1, <1>2, SeatMapsAre
<1>. HIDE DEF m
<1>. QED  BY <1>3, <1>4, NewSeats DEF Seated

\* A new session.
LEMMA NewRoomIsRoom ==
  ASSUME NEW seed \in Seeds
  PROVE  NewRoom(seed) \in Room /\ Seated(NewRoom(seed)) = {}
         /\ NewRoom(seed).status = "lobby"
BY NoSeatsIsMap, TtlIsNat DEF NewRoom, Room, Seated

(***************************************************************************)
(* The Map.                                                                *)
(***************************************************************************)

\* Among finitely many rooms there is a first in Map order: the sets of
\* rooms before a room have a minimal one.
LEMMA FirstOfIsMember ==
  ASSUME OrderOK, IsFiniteSet(Live), NEW cs \in SUBSET Live, cs # {}
  PROVE  FirstOf(cs) \in cs
<1>. DEFINE Before(c) == {d \in cs : <<d, c>> \in order}
            T == {Before(c) : c \in cs}
<1>1. IsFiniteSet(cs)
  BY FS_Subset
<1>2. T \subseteq FiniteSubsetsOf(cs) /\ T # {}
  <2>1. \A c \in cs : Before(c) \in SUBSET cs /\ IsFiniteSet(Before(c))
    BY <1>1, FS_Subset
  <2>. HIDE DEF Before
  <2>. QED  BY <2>1 DEF FiniteSubsetsOf
<1>3. PICK m \in T : \A y \in T : ~(<<y, m>> \in StrictSubsetOrdering(cs))
  <2>. HIDE DEF T
  <2>. QED  BY <1>2, <1>1, FS_StrictSubsetOrderingWellFounded, WFMin
<1>4. PICK c \in cs : m = Before(c)
  BY <1>3
<1>5. ASSUME NEW d \in cs, <<d, c>> \in order
      PROVE  FALSE
  <2>1. d \in Before(c) /\ d \notin Before(d)
    BY <1>5 DEF OrderOK
  <2>2. Before(d) \subseteq Before(c)
    BY <1>5 DEF OrderOK
  <2>3. <<Before(d), m>> \in StrictSubsetOrdering(cs) /\ Before(d) \in T
    BY <2>1, <2>2, <1>4 DEF StrictSubsetOrdering
  <2>. QED  BY <2>3, <1>3
<1>6. \A d \in cs \ {c} : <<c, d>> \in order
  BY <1>5 DEF OrderOK
<1>. QED  BY <1>6 DEF FirstOf

\* A live room is one the lemmas above are about.
LEMMA LiveRooms ==
  ASSUME ServiceInv, NEW c \in Live
  PROVE  /\ sessions[c] \in Room /\ c \in Codes
         /\ Terminal(sessions[c]) => Seated(sessions[c]) = {}
         /\ Seated(sessions[c]) \cap suspended = {}
         /\ IsFiniteSet(Seated(sessions[c]))
         /\ Cardinality(Seated(sessions[c])) \in Nat
         /\ Cardinality(Seated(sessions[c])) <= Capacity
<1>1. sessions[c] \in Room /\ c \in Codes
  BY DEF ServiceInv, RoomsOK
<1>2. Seated(sessions[c]) \subseteq Players
  BY <1>1, SeatMapsAre DEF Room, Seated
<1>3. IsFiniteSet(Seated(sessions[c])) /\ Cardinality(Seated(sessions[c])) \in Nat
  BY <1>2, ServiceAssumption, FS_Subset, FS_CardinalityType
<1>. QED
  BY <1>1, <1>3 DEF ServiceInv, SuspendedHoldNoSeat, NeverOverfull, ClosedRoomsAreEmpty

\* Rooms that let nobody in stay in order, whatever else becomes of them.
LEMMA AllKeep ==
  ASSUME ServiceInv, DOMAIN sessions' \subseteq Live,
         sessions' = [c \in DOMAIN sessions' |-> sessions'[c]],
         \A c \in DOMAIN sessions' : Keeps(sessions'[c], sessions[c]),
         suspended' \subseteq Players,
         \A c \in DOMAIN sessions' : Seated(sessions'[c]) \cap suspended' = {}
  PROVE  RoomsOK' /\ IsFiniteSet(DOMAIN sessions')
         /\ SuspendedHoldNoSeat' /\ NeverOverfull' /\ ClosedRoomsAreEmpty'
<1>1. \A c \in DOMAIN sessions' :
        /\ sessions'[c] \in Room /\ Seated(sessions'[c]) \subseteq Seated(sessions[c])
        /\ Terminal(sessions'[c]) => Seated(sessions'[c]) = {}
  BY DEF Keeps
<1>2. RoomsOK'
  BY <1>1 DEF ServiceInv, RoomsOK, Live
<1>3. IsFiniteSet(DOMAIN sessions')
  BY FS_Subset DEF ServiceInv
<1>4. \A c \in DOMAIN sessions' : Cardinality(Seated(sessions'[c])) <= Capacity
  <2>. TAKE c \in DOMAIN sessions'
  <2>1. /\ IsFiniteSet(Seated(sessions[c])) /\ Cardinality(Seated(sessions[c])) \in Nat
        /\ Cardinality(Seated(sessions[c])) <= Capacity
    BY LiveRooms
  <2>2. /\ Cardinality(Seated(sessions'[c])) <= Cardinality(Seated(sessions[c]))
        /\ IsFiniteSet(Seated(sessions'[c]))
    BY <1>1, <2>1, FS_Subset
  <2>3. Cardinality(Seated(sessions'[c])) \in Nat
    BY <2>2, FS_CardinalityType
  <2>. QED  BY <2>1, <2>2, <2>3, ServiceAssumption
<1>. QED
  BY <1>1, <1>2, <1>3, <1>4 DEF NeverOverfull, SuspendedHoldNoSeat, ClosedRoomsAreEmpty,
                                Live, Seated, Terminal

\* The Map's order depends on which rooms there are, and nothing else.
LEMMA OrderStays ==
  ASSUME OrderOK, DOMAIN sessions' = Live, order' = order
  PROVE  OrderOK'
BY DEF OrderOK, Live

\* One room changes, and nobody is let in.
LEMMA PutKeeps ==
  ASSUME ServiceInv, NEW c \in Live, NEW w, Keeps(w, sessions[c]), Put(c, w),
         UNCHANGED <<order, suspended>>
  PROVE  ServiceInv'
<1>1. /\ DOMAIN sessions' = Live /\ sessions' = [d \in Live |-> sessions'[d]]
      /\ sessions'[c] = w /\ \A d \in Live : d # c => sessions'[d] = sessions[d]
  BY DEF Put, ServiceInv, RoomsOK, Live
<1>2. \A d \in Live : Keeps(sessions'[d], sessions[d])
  BY <1>1, LiveRooms DEF Keeps
<1>3. \A d \in Live : Seated(sessions'[d]) \cap suspended' = {}
  BY <1>2, LiveRooms DEF Keeps
<1>4. suspended' \subseteq Players /\ OrderOK'
  BY <1>1, OrderStays DEF ServiceInv, RoomsOK
<1>5. /\ DOMAIN sessions' \subseteq Live
      /\ sessions' = [d \in DOMAIN sessions' |-> sessions'[d]]
  BY <1>1
<1>6. RoomsOK' /\ IsFiniteSet(DOMAIN sessions')
      /\ SuspendedHoldNoSeat' /\ NeverOverfull' /\ ClosedRoomsAreEmpty'
  BY <1>1, <1>2, <1>3, <1>4, <1>5, AllKeep
<1>. QED  BY <1>4, <1>6 DEF ServiceInv, Live

\* A pilot who is not suspended is let into a room that accepts them.
LEMMA PutJoined ==
  ASSUME ServiceInv, NEW p \in Players, p \notin suspended, NEW c \in Live,
         Accepts(sessions[c], p), Put(c, Joined(sessions[c], p)),
         UNCHANGED <<order, suspended>>
  PROVE  ServiceInv'
<1>. DEFINE w == Joined(sessions[c], p)
<1>1. /\ DOMAIN sessions' = Live /\ sessions' = [d \in Live |-> sessions'[d]]
      /\ sessions'[c] = w /\ \A d \in Live : d # c => sessions'[d] = sessions[d]
  BY DEF Put, ServiceInv, RoomsOK, Live
<1>2. /\ w \in Room /\ Seated(w) = Seated(sessions[c]) \cup {p}
      /\ w.status = sessions[c].status
  BY LiveRooms, JoinedSeats
<1>3. ~Terminal(w)
  BY <1>2 DEF Accepts, Open, Terminal
<1>4. Cardinality(Seated(w)) <= Capacity
  <2>1. CASE p \in Seated(sessions[c])
    <3>1. Seated(w) = Seated(sessions[c])
      BY <1>2, <2>1
    <3>. QED  BY <3>1, LiveRooms
  <2>2. CASE p \notin Seated(sessions[c])
    <3>1. /\ Cardinality(Seated(sessions[c])) < Capacity
          /\ Cardinality(Seated(sessions[c])) \in Nat /\ IsFiniteSet(Seated(sessions[c]))
      BY <2>2, LiveRooms, ServiceAssumption DEF Accepts, Full
    <3>2. Cardinality(Seated(w)) = Cardinality(Seated(sessions[c])) + 1
      BY <1>2, <2>2, <3>1, FS_AddElement
    <3>. QED  BY <3>1, <3>2, ServiceAssumption
  <2>. QED  BY <2>1, <2>2
<1>. HIDE DEF w
<1>5. RoomsOK'
  BY <1>1, <1>2 DEF ServiceInv, RoomsOK, Live
<1>6. OrderOK'
  BY <1>1, OrderStays DEF ServiceInv
<1>7. SuspendedHoldNoSeat'
  <2>1. Seated(w) \cap suspended = {}
    BY <1>2, LiveRooms
  <2>. QED  BY <1>1, <2>1 DEF ServiceInv, SuspendedHoldNoSeat, Live, Seated
<1>8. NeverOverfull'
  BY <1>1, <1>4 DEF ServiceInv, NeverOverfull, Live, Seated
<1>9. ClosedRoomsAreEmpty'
  BY <1>1, <1>3 DEF ServiceInv, ClosedRoomsAreEmpty, Live, Seated, Terminal
<1>. QED  BY <1>1, <1>5, <1>6, <1>7, <1>8, <1>9 DEF ServiceInv, Live

\* A room is made for a pilot who is not suspended, and the Map puts it last.
LEMMA AddRoomKeeps ==
  ASSUME ServiceInv, NEW p \in Players, p \notin suspended, NEW seed \in Seeds,
         NEW c \in Codes \ Live, AddRoom(c, Joined(NewRoom(seed), p)), UNCHANGED suspended
  PROVE  ServiceInv'
<1>. DEFINE w == Joined(NewRoom(seed), p)
<1>1. w \in Room /\ Seated(w) = {p} /\ w.status = "lobby"
  <2>1. /\ NewRoom(seed) \in Room /\ Seated(NewRoom(seed)) = {}
        /\ NewRoom(seed).status = "lobby"
    BY NewRoomIsRoom
  <2>2. Seated(NewRoom(seed)) \cup {p} = {p}
    BY <2>1
  <2>. QED  BY <2>1, <2>2, JoinedSeats
<1>2. /\ sessions' = [d \in Live \cup {c} |-> IF d = c THEN w ELSE sessions[d]]
      /\ order' = order \cup (Live \X {c})
  BY DEF AddRoom
<1>. HIDE DEF w
<1>3. /\ DOMAIN sessions' = Live \cup {c} /\ sessions'[c] = w
      /\ \A d \in Live : sessions'[d] = sessions[d]
  BY <1>2
<1>4. RoomsOK'
  BY <1>1, <1>2, <1>3 DEF ServiceInv, RoomsOK, Live
<1>5. IsFiniteSet(Live)'
  BY <1>3, FS_AddElement DEF ServiceInv, Live
<1>6. OrderOK'
  <2>1. order' \subseteq (Live \cup {c}) \X (Live \cup {c})
    BY <1>2 DEF ServiceInv, OrderOK
  <2>2. /\ \A d \in Live : <<d, c>> \in order' /\ <<c, d>> \notin order'
        /\ <<c, c>> \notin order'
        /\ \A d, e \in Live : <<d, e>> \in order' <=> <<d, e>> \in order
    BY <1>2 DEF ServiceInv, OrderOK
  <2>3. \A d, e \in Live \cup {c} : (<<d, e>> \in order') <=> (d # e /\ <<e, d>> \notin order')
    BY <2>2 DEF ServiceInv, OrderOK
  <2>4. \A d, e, f \in Live \cup {c} :
          <<d, e>> \in order' /\ <<e, f>> \in order' => <<d, f>> \in order'
    BY <2>2 DEF ServiceInv, OrderOK
  <2>. QED  BY <1>3, <2>1, <2>3, <2>4 DEF OrderOK, Live
<1>7. SuspendedHoldNoSeat'
  BY <1>1, <1>3 DEF ServiceInv, SuspendedHoldNoSeat, Live, Seated
<1>8. NeverOverfull'
  <2>1. Cardinality(Seated(w)) = 1
    BY <1>1, FS_Singleton
  <2>. QED
    BY <1>3, <2>1, ServiceAssumption DEF ServiceInv, NeverOverfull, Live, Seated
<1>9. ClosedRoomsAreEmpty'
  BY <1>1, <1>3 DEF ServiceInv, ClosedRoomsAreEmpty, Live, Seated, Terminal
<1>. QED  BY <1>4, <1>5, <1>6, <1>7, <1>8, <1>9 DEF ServiceInv

(***************************************************************************)
(* The handlers and timers.                                                *)
(***************************************************************************)

\* create
LEMMA CreateKeeps ==
  ASSUME ServiceInv, NEW p \in Players, NEW seed \in Seeds, Create(p, seed)
  PROVE  ServiceInv'
BY AddRoomKeeps DEF Create

\* matchmake finds a room that is there.
LEMMA CandidatesAreLive ==
  ASSUME ServiceInv, NEW p \in Players, NEW seed \in Seeds, Candidates(p, seed) # {}
  PROVE  /\ FirstOf(Candidates(p, seed)) \in Live
         /\ FirstOf(Candidates(p, seed)) \in Candidates(p, seed)
<1>1. Candidates(p, seed) \subseteq Live
  BY DEF Candidates, OpenLobbies, RacesWithSeat
<1>. QED  BY <1>1, FirstOfIsMember DEF ServiceInv

\* matchmake
LEMMA MatchmakeKeeps ==
  ASSUME ServiceInv, NEW p \in Players, NEW seed \in Seeds, Matchmake(p, seed)
  PROVE  ServiceInv'
<1>1. CASE Candidates(p, seed) = {}
  BY <1>1, CreateKeeps DEF Matchmake
<1>2. CASE Candidates(p, seed) # {}
  <2>. DEFINE c == FirstOf(Candidates(p, seed))
  <2>1. c \in Live
    BY <1>2, CandidatesAreLive
  <2>2. /\ p \notin suspended /\ Accepts(sessions[c], p)
        /\ Put(c, Joined(sessions[c], p)) /\ UNCHANGED <<order, suspended>>
    BY <1>2 DEF Matchmake
  <2>. HIDE DEF c
  <2>. QED  BY <2>1, <2>2, PutJoined
<1>. QED  BY <1>1, <1>2

\* Whatever a pilot or a moderator does keeps the invariant.
LEMMA VisitKeeps ==
  ASSUME ServiceInv, NEW p \in Players, Visit(p)
  PROVE  ServiceInv'
<1>1. ASSUME NEW seed \in Seeds, Create(p, seed) \/ Matchmake(p, seed)
      PROVE  ServiceInv'
  BY <1>1, CreateKeeps, MatchmakeKeeps
<1>2. ASSUME NEW seed \in Seeds, NEW c \in Codes, Connect(p, c, seed)
      PROVE  ServiceInv'
  <2>1. CASE c \in Live
    BY <1>2, <2>1, PutJoined DEF Connect
  <2>2. CASE c \notin Live
    BY <1>2, <2>2, AddRoomKeeps DEF Connect
  <2>. QED  BY <2>1, <2>2
<1>3. ASSUME NEW c \in Codes, Join(p, c)
      PROVE  ServiceInv'
  BY <1>3, PutJoined DEF Join
<1>5. ASSUME NEW c \in Codes, Reconnect(p, c)
      PROVE  ServiceInv'
  BY <1>5, LiveRooms, PokedKeeps, PutKeeps DEF Reconnect, Reattached
<1>6. ASSUME NEW c \in Codes, Leave(p, c)
      PROVE  ServiceInv'
  BY <1>6, LiveRooms, LeftKeeps, PutKeeps DEF Leave
<1>7. ASSUME NEW c \in Codes, Drop(p, c)
      PROVE  ServiceInv'
  BY <1>7, LiveRooms, PokedKeeps, PutKeeps DEF Drop, Connected
<1>8. ASSUME NEW c \in Codes, Frame(p, c)
      PROVE  ServiceInv'
  BY <1>8, LiveRooms, PokedKeeps, PutKeeps DEF Frame
<1>9. ASSUME NEW c \in Codes, Finish(p, c)
      PROVE  ServiceInv'
  BY <1>9, LiveRooms, PlacedKeeps, PutKeeps DEF Finish
<1>10. ASSUME Suspend(p)
       PROVE  ServiceInv'
  <2>1. /\ suspended' = suspended \cup {p} /\ order' = order
        /\ sessions' = [c \in Live |-> IF c \in SeatsHeld(p) THEN Left(sessions[c], p)
                                       ELSE sessions[c]]
    BY <1>10 DEF Suspend
  <2>2. /\ DOMAIN sessions' = Live /\ DOMAIN sessions' \subseteq Live
        /\ sessions' = [c \in DOMAIN sessions' |-> sessions'[c]]
    BY <2>1
  <2>3. ASSUME NEW c \in Live
        PROVE  Keeps(sessions'[c], sessions[c]) /\ Seated(sessions'[c]) \cap suspended' = {}
    <3>1. CASE p \in Seated(sessions[c])
      <4>1. sessions'[c] = Left(sessions[c], p)
        BY <2>1, <3>1 DEF SeatsHeld
      <4>2. Keeps(Left(sessions[c], p), sessions[c]) /\ p \notin Seated(Left(sessions[c], p))
        BY <3>1, LiveRooms, LeftKeeps
      <4>. QED  BY <2>1, <4>1, <4>2, LiveRooms DEF Keeps
    <3>2. CASE p \notin Seated(sessions[c])
      <4>1. sessions'[c] = sessions[c]
        BY <2>1, <3>2 DEF SeatsHeld
      <4>. QED  BY <2>1, <3>2, <4>1, LiveRooms DEF Keeps
    <3>. QED  BY <3>1, <3>2
  <2>4. suspended' \subseteq Players
    BY <2>1 DEF ServiceInv, RoomsOK
  <2>5. OrderOK'
    BY <2>1, <2>2, OrderStays DEF ServiceInv
  <2>. QED  BY <2>2, <2>3, <2>4, <2>5, AllKeep DEF ServiceInv, Live
<1>11. ASSUME Restore(p)
       PROVE  ServiceInv'
  <2>1. suspended' \subseteq suspended /\ sessions' = sessions /\ order' = order
    BY <1>11 DEF Restore
  <2>. QED
    BY <2>1 DEF ServiceInv, RoomsOK, OrderOK, SuspendedHoldNoSeat, NeverOverfull,
                ClosedRoomsAreEmpty, Live
<1>. QED
  BY <1>1, <1>2, <1>3, <1>5, <1>6, <1>7, <1>8, <1>9, <1>10, <1>11 DEF Visit

\* A room's own steps keep the invariant.
LEMMA RoomStepKeeps ==
  ASSUME ServiceInv, NEW c \in Codes, RoomStep(c)
  PROVE  ServiceInv'
<1>1. CASE Start(c)
  <2>. DEFINE w == [sessions[c] EXCEPT !.status = "racing"]
  <2>1. c \in Live /\ Put(c, w) /\ UNCHANGED <<order, suspended>>
    BY <1>1 DEF Start
  <2>2. Keeps(w, sessions[c])
    BY <2>1, LiveRooms DEF Keeps, Room, Seated, Terminal
  <2>. HIDE DEF w
  <2>. QED  BY <2>1, <2>2, PutKeeps
<1>2. CASE Cancel(c)
  BY <1>2, LiveRooms, ClosedKeeps, PutKeeps DEF Cancel
<1>3. CASE Tick(c)
  BY <1>3, LiveRooms, TickedLobbyKeeps, TickedRaceKeeps, PutKeeps DEF Tick
<1>4. CASE RaceCap(c)
  BY <1>4, LiveRooms, ClosedKeeps, PutKeeps DEF RaceCap
<1>. QED  BY <1>1, <1>2, <1>3, <1>4 DEF RoomStep

\* The prune timer keeps the invariant, and takes only empty rooms.
LEMMA PruneKeeps ==
  ASSUME ServiceInv, Prune
  PROVE  /\ ServiceInv'
         /\ \A c \in Live : Seated(sessions[c]) # {} => c \in DOMAIN sessions'
<1>. DEFINE gone == {c \in Live : Prunable(c)}
<1>1. /\ sessions' = Restrict(sessions, Live \ gone) /\ order' = OrderWithout(gone)
      /\ suspended' = suspended
  BY DEF Prune
<1>2. /\ DOMAIN sessions' = Live \ gone
      /\ sessions' = [c \in DOMAIN sessions' |-> sessions'[c]]
      /\ \A c \in DOMAIN sessions' : sessions'[c] = sessions[c]
  BY <1>1 DEF Restrict
<1>3. \A c \in Live : Seated(sessions[c]) # {} => c \notin gone
  BY DEF Prunable
<1>. HIDE DEF gone
<1>4. \A c \in DOMAIN sessions' : /\ Keeps(sessions'[c], sessions[c])
                                  /\ Seated(sessions'[c]) \cap suspended' = {}
  BY <1>1, <1>2, LiveRooms DEF Keeps
<1>5. suspended' \subseteq Players
  BY <1>1 DEF ServiceInv, RoomsOK
<1>6. OrderOK'
  <2>1. order' = {e \in order : e[1] \notin gone /\ e[2] \notin gone}
    BY <1>1 DEF OrderWithout
  <2>2. order' \subseteq (Live \ gone) \X (Live \ gone)
    BY <2>1 DEF ServiceInv, OrderOK
  <2>3. \A c, d \in Live \ gone : <<c, d>> \in order' <=> <<c, d>> \in order
    BY <2>1
  <2>. QED  BY <1>2, <2>2, <2>3 DEF ServiceInv, OrderOK, Live
<1>7. ServiceInv'
  BY <1>2, <1>4, <1>5, <1>6, AllKeep DEF ServiceInv, Live
<1>. QED  BY <1>2, <1>3, <1>7

\* A grace window passes in every room.
LEMMA ElapseKeeps ==
  ASSUME ServiceInv, Elapse
  PROVE  ServiceInv'
<1>1. sessions' = [c \in Live |-> Aged(sessions[c])] /\ order' = order /\ suspended' = suspended
  BY DEF Elapse
<1>2. /\ DOMAIN sessions' = Live /\ DOMAIN sessions' \subseteq Live
      /\ sessions' = [c \in DOMAIN sessions' |-> sessions'[c]]
  BY <1>1
<1>3. \A c \in Live : Keeps(sessions'[c], sessions[c])
  BY <1>1, LiveRooms, AgedKeeps
<1>4. \A c \in Live : Seated(sessions'[c]) \cap suspended' = {}
  BY <1>1, <1>3, LiveRooms DEF Keeps
<1>5. suspended' \subseteq Players /\ OrderOK'
  BY <1>1, <1>2, OrderStays DEF ServiceInv, RoomsOK
<1>. QED  BY <1>2, <1>3, <1>4, <1>5, AllKeep DEF ServiceInv, Live

(***************************************************************************)
(* The theorems.                                                           *)
(***************************************************************************)

\* The service starts in order.
LEMMA StartsInOrder == Init => ServiceInv
<1>. SUFFICES ASSUME Init
              PROVE  ServiceInv
  OBVIOUS
<1>1. sessions = [c \in {} |-> 0] /\ order = {} /\ suspended = {} /\ Live = {}
  BY DEF Init, Live
<1>2. IsFiniteSet(Live)
  BY <1>1, FS_EmptySet
<1>. QED
  BY <1>1, <1>2 DEF ServiceInv, RoomsOK, OrderOK, SuspendedHoldNoSeat, NeverOverfull,
                    ClosedRoomsAreEmpty

\* Every step keeps the invariant.
LEMMA StepKeeps == ServiceInv /\ [Next]_vars => ServiceInv'
<1>. SUFFICES ASSUME ServiceInv, [Next]_vars
              PROVE  ServiceInv'
  OBVIOUS
<1>1. CASE UNCHANGED vars
  BY <1>1 DEF vars, ServiceInv, RoomsOK, OrderOK, SuspendedHoldNoSeat, NeverOverfull,
              ClosedRoomsAreEmpty, Live
<1>. QED  BY <1>1, VisitKeeps, RoomStepKeeps, PruneKeeps, ElapseKeeps DEF Next

\* Every reachable state satisfies the invariant.
THEOREM Inductive == Spec => []ServiceInv
BY StartsInOrder, StepKeeps, PTL DEF Spec

\* Rooms keep to their type and the Map to its order.
THEOREM TypeCorrect == Spec => []TypeOK
<1>1. ServiceInv => TypeOK
  BY DEF ServiceInv, TypeOK
<1>. QED  BY <1>1, Inductive, PTL

\* A suspended player holds no seat in any room.
THEOREM SuspensionsHold == Spec => []SuspendedHoldNoSeat
<1>1. ServiceInv => SuspendedHoldNoSeat
  BY DEF ServiceInv
<1>. QED  BY <1>1, Inductive, PTL

\* No room holds more pilots than its capacity.
THEOREM CapacityHolds == Spec => []NeverOverfull
<1>1. ServiceInv => NeverOverfull
  BY DEF ServiceInv
<1>. QED  BY <1>1, Inductive, PTL

\* A room that is over has nobody in it.
THEOREM ClosedStayEmpty == Spec => []ClosedRoomsAreEmpty
<1>1. ServiceInv => ClosedRoomsAreEmpty
  BY DEF ServiceInv
<1>. QED  BY <1>1, Inductive, PTL

\* The room that matchmaking finds takes the pilot in: the two scans and the
\* checks of join agree, and the Map order always has a first candidate.
THEOREM MatchmakingAgrees == Spec => []MatchmakeNeverRefuses
<1>1. ASSUME ServiceInv
      PROVE  MatchmakeNeverRefuses
  <2>1. ASSUME NEW p \in Players, NEW seed \in Seeds, Candidates(p, seed) # {}
        PROVE  Accepts(sessions[FirstOf(Candidates(p, seed))], p)
    <3>1. FirstOf(Candidates(p, seed)) \in Candidates(p, seed)
      BY <1>1, <2>1, CandidatesAreLive
    <3>2. \A c \in Candidates(p, seed) : Accepts(sessions[c], p)
      BY DEF Candidates, OpenLobbies, RacesWithSeat, Accepts, Open
    <3>. QED  BY <3>1, <3>2
  <2>. QED  BY <2>1 DEF MatchmakeNeverRefuses
<1>. QED  BY <1>1, Inductive, PTL

\* Where no other room takes the pilot in, matchmaking has one candidate, the
\* race his seat is in, and join hands the seat back.
THEOREM SlotsAreHandedBack == Spec => OwnSlotIsHandedBack
<1>. DEFINE Back(p, seed, c) ==
       (/\ Matchmake(p, seed) /\ sessions[c].seed = seed
        /\ sessions[c].status = "racing"
        /\ p \in Seated(sessions[c]) /\ ~sessions[c].seats[p].stale
        /\ \A d \in Live \ {c} : sessions[d].seed = seed => ~Accepts(sessions[d], p))
       => sessions'[c].seats[p] = [sessions[c].seats[p] EXCEPT !.phase = "connected"]
<1>1. ASSUME NEW p \in Players, NEW seed \in Seeds, NEW c \in Live,
             Matchmake(p, seed), sessions[c].seed = seed, sessions[c].status = "racing",
             p \in Seated(sessions[c]), ~sessions[c].seats[p].stale,
             \A d \in Live \ {c} : sessions[d].seed = seed => ~Accepts(sessions[d], p),
             ServiceInv
      PROVE  sessions'[c].seats[p] = [sessions[c].seats[p] EXCEPT !.phase = "connected"]
  <2>1. OpenLobbies(seed) = {}
    BY <1>1 DEF OpenLobbies, Accepts, Open
  <2>2. RacesWithSeat(p, seed) = {c}
    BY <1>1 DEF RacesWithSeat, Accepts, Open
  <2>3. Candidates(p, seed) = {c} /\ FirstOf({c}) = c
    BY <2>1, <2>2 DEF Candidates, FirstOf
  <2>4. Put(c, Joined(sessions[c], p))
    BY <1>1, <2>3 DEF Matchmake
  <2>5. sessions[c] \in Room
    BY <1>1, LiveRooms
  <2>6. sessions'[c] = Joined(sessions[c], p)
    BY <2>4 DEF Put, Live
  <2>. QED  BY <1>1, <2>5, <2>6 DEF Joined, Seated, Room
<1>. HIDE DEF Back
<1>2. ServiceInv => \A p \in Players, seed \in Seeds, c \in Live : Back(p, seed, c)
  BY <1>1 DEF Back
<1>3. ServiceInv /\ [Next]_vars => [\A p \in Players, seed \in Seeds, c \in Live : Back(p, seed, c)]_vars
  BY <1>2
<1>. QED  BY <1>3, Inductive, PTL DEF Spec, OwnSlotIsHandedBack, Back
=============================================================================
