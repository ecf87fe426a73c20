------------------------- MODULE RaceSessionProofs -------------------------
(***************************************************************************)
(* Proofs about RaceSession for every value of its constants: types, the   *)
(* host, the uniqueness of finish places, one seat per player, final       *)
(* records, the grace window, the order of the standings, the refinement.  *)
(***************************************************************************)
EXTENDS RaceSession, FiniteSetTheorems, WellFoundedInduction, TLAPS

(***************************************************************************)
(* Helpers: minima, ranks and the two sort orders.                         *)
(***************************************************************************)

\* A nonempty finite set of naturals has a first element: among the finite
\* sets of predecessors there is a minimal one.
LEMMA FirstIsMember ==
  ASSUME NEW S \in SUBSET Nat, S # {}, IsFiniteSet(S)
  PROVE  /\ First(S) \in S
         /\ \A t \in S : First(S) <= t
<1>. DEFINE Before(s) == {t \in S : t < s}
            T == {Before(s) : s \in S}
<1>1. T \subseteq FiniteSubsetsOf(S) /\ T # {}
  <2>1. \A s \in S : Before(s) \in SUBSET S
    OBVIOUS
  <2>2. \A s \in S : IsFiniteSet(Before(s))
    BY <2>1, FS_Subset
  <2>. HIDE DEF Before
  <2>. QED  BY <2>1, <2>2 DEF FiniteSubsetsOf
<1>2. PICK m \in T : \A y \in T : ~(<<y, m>> \in StrictSubsetOrdering(S))
  <2>. HIDE DEF T
  <2>. QED  BY <1>1, FS_StrictSubsetOrderingWellFounded, WFMin
<1>3. PICK x \in S : m = Before(x)
  BY <1>2
<1>4. ASSUME NEW y \in S, y < x
      PROVE  FALSE
  <2>1. y \in Before(x) /\ y \notin Before(y) /\ Before(y) \subseteq Before(x)
    <3>1. x \in Nat /\ y \in Nat /\ S \subseteq Nat
      BY <1>4
    <3>2. \A t \in S : t < y => t < x
      BY <1>4, <3>1
    <3>3. y \in Before(x)
      BY <1>4
    <3>4. y \notin Before(y)
      BY <3>1
    <3>5. Before(y) \subseteq Before(x)
      BY <3>2
    <3>. QED  BY <3>3, <3>4, <3>5
  <2>2. <<Before(y), m>> \in StrictSubsetOrdering(S)
    BY <2>1, <1>3 DEF StrictSubsetOrdering
  <2>3. Before(y) \in T
    OBVIOUS
  <2>. QED  BY <2>2, <2>3, <1>2
<1>5. \A y \in S : x <= y
  BY <1>4
<1>. QED  BY <1>5 DEF First

\* A finite set is strictly larger than a subset that misses an element.
LEMMA StrictSubset ==
  ASSUME NEW U, IsFiniteSet(U), NEW T \in SUBSET U, NEW x \in U, x \notin T
  PROVE  /\ Cardinality(T) \in Nat
         /\ Cardinality(U) \in Nat
         /\ Cardinality(T) < Cardinality(U)
<1>1. IsFiniteSet(T) /\ Cardinality(T) <= Cardinality(U) /\ Cardinality(T) # Cardinality(U)
  BY FS_Subset
<1>. QED  BY <1>1, FS_CardinalityType

\* Live seats were drawn, so there are finitely many of them.
LEMMA SeatsAreFinite ==
  ASSUME NEW n \in Nat, NEW D \in SUBSET (1..n)
  PROVE  IsFiniteSet(D) /\ D \in SUBSET Nat
<1>1. IsFiniteSet(1..n)
  BY FS_Interval
<1>2. \A i \in D : i \in Nat
  OBVIOUS
<1>. QED  BY <1>1, <1>2, FS_Subset

\* The host elected from a seat map is no seat or one of the map.
LEMMA HostOfType ==
  ASSUME NEW n \in Nat, NEW ss, DOMAIN ss \subseteq 1..n
  PROVE  HostOf(ss) \in 0..n
<1>1. CASE Connected(ss) = {}
  BY <1>1 DEF HostOf
<1>2. CASE Connected(ss) # {}
  <2>1. Connected(ss) \in SUBSET (1..n)
    BY DEF Connected
  <2>2. First(Connected(ss)) \in Connected(ss)
    BY <1>2, <2>1, SeatsAreFinite, FirstIsMember
  <2>. QED  BY <1>2, <2>1, <2>2 DEF HostOf
<1>. QED  BY <1>1, <1>2

\* Standings have one well-formed row per seat, and a row shows the awarded
\* place of a seat that has one.
LEMMA StandingsType ==
  ASSUME NEW n \in Nat, NEW ss, SeatMap(ss, n)
  PROVE  /\ DOMAIN Standings(ss) = DOMAIN ss
         /\ Standings(ss) \in [DOMAIN ss -> Row]
         /\ \A s \in Placed(ss) : Standings(ss)[s].place = ss[s].finish.place
<1>. DEFINE Fin  == {s \in Placed(ss) : ~ss[s].dnf}
            Rest == DOMAIN ss \ Fin
            InFin(s)  == {t \in Fin : AheadByTime(ss, t, s)}
            InRest(s) == {t \in Rest : AheadByDistance(ss, t, s)}
            Pos(s) == IF s \in Fin THEN 1 + Cardinality(InFin(s))
                      ELSE 1 + Cardinality(Fin) + Cardinality(InRest(s))
            RowOf(s) == [player |-> ss[s].player, pos |-> Pos(s),
                         place |-> IF s \in Placed(ss) THEN ss[s].finish.place
                                                       ELSE Pos(s),
                         time |-> ss[s].finish.time, dnf |-> s \in Rest]
<1>1. Standings(ss) = [s \in DOMAIN ss |-> RowOf(s)]
  BY DEF Standings
<1>2. IsFiniteSet(DOMAIN ss)
  BY SeatsAreFinite DEF SeatMap
<1>3. Fin \subseteq DOMAIN ss /\ Rest \subseteq DOMAIN ss
  BY DEF Placed
<1>4. IsFiniteSet(Fin) /\ IsFiniteSet(Rest)
  BY <1>2, <1>3, FS_Subset
<1>5. \A s : InFin(s) \subseteq Fin /\ InRest(s) \subseteq Rest
  OBVIOUS
<1>6. ASSUME NEW s \in DOMAIN ss
      PROVE  Pos(s) \in Nat \ {0}
  <2>1. Cardinality(InFin(s)) \in Nat /\ Cardinality(InRest(s)) \in Nat
    BY <1>4, <1>5, FS_Subset, FS_CardinalityType
  <2>2. Cardinality(Fin) \in Nat
    BY <1>4, FS_CardinalityType
  <2>. HIDE DEF Fin, Rest, InFin, InRest
  <2>. QED  BY <2>1, <2>2
<1>7. ASSUME NEW s \in DOMAIN ss
      PROVE  RowOf(s) \in Row
  <2>1. ss[s] \in Seat
    BY DEF SeatMap
  <2>2. s \in Placed(ss) => ss[s].finish.place \in Nat \ {0}
    BY <2>1 DEF Placed, Seat, Finishes
  <2>3. (s \in Rest) \in BOOLEAN
    OBVIOUS
  <2>4. ss[s].player \in Players /\ ss[s].finish.time \in (-Countdown)..(MaxRace + 1)
    BY <2>1 DEF Seat, Finishes
  <2>. HIDE DEF Pos, Rest
  <2>. QED  BY <1>6, <2>2, <2>3, <2>4 DEF Row
<1>. HIDE DEF RowOf
<1>8. \A s \in Placed(ss) : s \in DOMAIN ss /\ Standings(ss)[s] = RowOf(s)
  BY <1>1 DEF Placed
<1>9. \A s \in Placed(ss) : RowOf(s).place = ss[s].finish.place
  BY DEF RowOf
<1>. QED  BY <1>1, <1>7, <1>8, <1>9

\* Completing a race, or going on with it, from a well-formed seat map.
LEMMA CompleteRaceType ==
  ASSUME TypeOK, NEW ss, SeatMap(ss, issued), CompleteRace(ss)
  PROVE  /\ SeatMap(seats', issued)
         /\ status' = "finished" /\ host' \in 0..MaxSeats /\ finishedAt' \in BOOLEAN
         /\ DOMAIN results' \subseteq 1..issued
         /\ results' \in [DOMAIN results' -> Row]
<1>1. issued \in Nat
  BY SessionAssumption DEF TypeOK
<1>2. /\ DOMAIN results' \subseteq 1..issued
      /\ results' \in [DOMAIN results' -> Row]
  BY <1>1, StandingsType DEF CompleteRace, SeatMap
<1>3. SeatMap(seats', issued)
  BY DEF CompleteRace, SeatMap, NoSeats
<1>. QED  BY <1>2, <1>3, SessionAssumption DEF CompleteRace

\* The host a call elects in the room is no seat or one that was drawn.
LEMMA HostType ==
  ASSUME NEW n \in 0..MaxSeats, NEW ss, SeatMap(ss, n)
  PROVE  HostOf(ss) \in 0..MaxSeats
<1>1. n \in Nat /\ n <= MaxSeats
  BY SessionAssumption
<1>2. HostOf(ss) \in 0..n
  BY <1>1, HostOfType DEF SeatMap
<1>. QED  BY <1>1, <1>2, SessionAssumption

\* Replacing the record of one seat by another well-formed one.
LEMMA UpdateType ==
  ASSUME NEW n, NEW ss, SeatMap(ss, n), NEW s \in DOMAIN ss, NEW x \in Seat,
         NEW new, new = [ss EXCEPT ![s] = x]
  PROVE  /\ SeatMap(new, n)
         /\ DOMAIN new = DOMAIN ss
         /\ \A t \in DOMAIN ss : new[t] = IF t = s THEN x ELSE ss[t]
BY DEF SeatMap

\* Dropping seats leaves the others as they were.
LEMMA WithoutType ==
  ASSUME NEW n, NEW ss, SeatMap(ss, n), NEW gone
  PROVE  /\ SeatMap(Without(ss, gone), n)
         /\ DOMAIN Without(ss, gone) = DOMAIN ss \ gone
         /\ \A s \in DOMAIN ss \ gone : Without(ss, gone)[s] = ss[s]
BY DEF SeatMap, Without, Restrict

\* Granting the next seat leaves the others as they were; the new one has
\* no finish record.
LEMMA WithSeatType ==
  ASSUME NEW n \in Nat, NEW ss, SeatMap(ss, n), NEW p \in Players
  PROVE  /\ SeatMap(WithSeat(ss, n + 1, p), n + 1)
         /\ DOMAIN WithSeat(ss, n + 1, p) = DOMAIN ss \cup {n + 1}
         /\ \A s \in DOMAIN ss : WithSeat(ss, n + 1, p)[s] = ss[s]
         /\ WithSeat(ss, n + 1, p)[n + 1].finish = NoFinish
<1>. DEFINE new == [player |-> p, gen |-> 1, ready |-> FALSE,
                    phase |-> "connected", lastSeq |-> 0, dist |-> NoState,
                    silent |-> 0, finish |-> NoFinish, dnf |-> FALSE,
                    token |-> FALSE]
            D == DOMAIN ss \cup {n + 1}
<1>1. new \in Seat
  BY SessionAssumption DEF Seat, NoFinish, Finishes, NoState
<1>2. n + 1 \notin DOMAIN ss
  BY DEF SeatMap
<1>3. D \subseteq 1..(n + 1)
  BY DEF SeatMap
<1>. HIDE DEF new
<1>4. WithSeat(ss, n + 1, p) = [s \in D |-> IF s = n + 1 THEN new ELSE ss[s]]
  BY DEF WithSeat, new
<1>5. new.finish = NoFinish
  BY DEF new
<1>. QED  BY <1>1, <1>2, <1>3, <1>4, <1>5 DEF SeatMap

(***************************************************************************)
(* Types.                                                                  *)
(***************************************************************************)

\* A new room is well typed.
LEMMA InitType == Init => TypeOK
<1>. SUFFICES ASSUME Init PROVE TypeOK
  OBVIOUS
<1>1. SeatMap(seats, issued)
  BY DEF Init, NoSeats, SeatMap
<1>2. DOMAIN results \subseteq 1..issued /\ results \in [DOMAIN results -> Row]
  BY DEF Init, NoSeats
<1>3. /\ issued \in 0..MaxSeats /\ host \in 0..MaxSeats /\ nextPlace \in Nat \ {0}
      /\ clock \in (-Countdown)..(MaxRace + 1)
  BY SessionAssumption DEF Init
<1>4. /\ status \in {"lobby", "racing", "finished", "canceled"}
      /\ finishOrder \subseteq 1..issued
      /\ awarded \subseteq (1..issued) \X (Nat \ {0})
  BY DEF Init
<1>5. finishedAt \in BOOLEAN
  BY Zenon DEF Init
<1>. QED  BY <1>1, <1>2, <1>3, <1>4, <1>5 DEF TypeOK

\* Joining, coming back and being dropped keep the types.
LEMMA ArriveType ==
  ASSUME TypeOK, NEW p \in Players, Arrive(p)
  PROVE  TypeOK'
<1>. USE DEF TypeOK
<1>0. issued \in Nat
  BY SessionAssumption
<1>1. CASE JoinNew(p)
  <2>1. SeatMap(seats', issued')
    BY <1>0, <1>1, WithSeatType DEF JoinNew
  <2>2. issued' \in 0..MaxSeats /\ issued' = issued + 1
    BY <1>0, <1>1, SessionAssumption DEF JoinNew
  <2>3. host' \in 0..MaxSeats
    BY <1>1, <2>1, <2>2, HostType DEF JoinNew
  <2>. QED  BY <1>0, <1>1, <2>1, <2>2, <2>3 DEF JoinNew
<1>2. ASSUME NEW s \in DOMAIN seats, Reattach(s)
      PROVE  TypeOK'
  <2>. DEFINE g == seats[s].gen + 1
              x == [seats[s] EXCEPT !.phase = "connected", !.silent = 0, !.gen = g]
  <2>a. seats' = [seats EXCEPT ![s] = x]
    BY <1>2 DEF Reattach
  <2>b. g \in 1..MaxGen
    BY <1>2, SessionAssumption DEF Reattach, SeatMap, Seat
  <2>c. 0 \in 0..(Grace + 1) /\ seats[s] \in Seat
    BY SessionAssumption DEF SeatMap
  <2>. HIDE DEF g
  <2>d. x \in Seat
    BY <2>b, <2>c DEF Seat
  <2>. HIDE DEF x
  <2>1. SeatMap(seats', issued)
    BY <2>a, <2>d, UpdateType
  <2>2. host' \in 0..MaxSeats
    BY <1>2, <2>1, HostType DEF Reattach
  <2>. QED  BY <1>2, <2>1, <2>2 DEF Reattach
<1>3. CASE JoinExisting(p)
  BY <1>2, <1>3 DEF JoinExisting, SeatsOf
<1>4. CASE JoinExpired(p)
  <2>1. PICK s \in SeatsOf(seats, p) :
           /\ seats' = WithSeat(Without(seats, {s}), issued + 1, p)
           /\ finishOrder' = finishOrder \ {s}
    BY <1>4 DEF JoinExpired
  <2>2. SeatMap(Without(seats, {s}), issued)
    BY WithoutType
  <2>3. issued' \in 0..MaxSeats /\ issued' = issued + 1
    BY <1>0, <1>4, SessionAssumption DEF JoinExpired
  <2>4. SeatMap(seats', issued')
    BY <1>0, <2>1, <2>2, <2>3, WithSeatType
  <2>5. host' \in 0..MaxSeats
    BY <1>4, <2>3, <2>4, HostType DEF JoinExpired
  <2>. QED  BY <1>0, <1>4, <2>1, <2>3, <2>4, <2>5 DEF JoinExpired
<1>5. ASSUME NEW s \in SeatIds, NEW gen \in 1..MaxGen, JoinWithToken(p, s, gen)
      PROVE  TypeOK'
  BY <1>2, <1>5 DEF JoinWithToken
<1>. QED  BY <1>1, <1>3, <1>4, <1>5 DEF Arrive

\* Frames and socket events keep the types.
LEMMA FrameType ==
  ASSUME TypeOK, NEW s \in SeatIds,
         \/ MarkDisconnected(s)
         \/ Poke(s)
         \/ \E seq \in 1..MaxSeq, dist \in NoState..MaxDistance : Input(s, seq, dist)
         \/ \E seq \in 1..MaxSeq : Heartbeat(s, seq)
  PROVE  TypeOK'
<1>. USE DEF TypeOK
<1>1. CASE MarkDisconnected(s)
  <2>. DEFINE x == [seats[s] EXCEPT !.phase = "reconnecting", !.silent = 0,
                                         !.ready = FALSE]
  <2>a. s \in DOMAIN seats /\ seats[s] \in Seat /\ seats' = [seats EXCEPT ![s] = x]
    BY <1>1 DEF MarkDisconnected, SeatMap, Connected
  <2>b. 0 \in 0..(Grace + 1)
    BY <1>1, SessionAssumption DEF NoState
  <2>c. x \in Seat
    BY <2>a, <2>b DEF Seat
  <2>. HIDE DEF x
  <2>1. SeatMap(seats', issued)
    BY <2>a, <2>c, UpdateType
  <2>2. host' \in 0..MaxSeats
    BY <1>1, <2>1, HostType DEF MarkDisconnected
  <2>. QED  BY <1>1, <2>1, <2>2 DEF MarkDisconnected
<1>2. CASE Poke(s)
  <2>. DEFINE x == [seats[s] EXCEPT !.silent = 0]
  <2>a. s \in DOMAIN seats /\ seats[s] \in Seat /\ seats' = [seats EXCEPT ![s] = x]
    BY <1>2 DEF Poke, SeatMap
  <2>b. 0 \in 0..(Grace + 1)
    BY <1>2, SessionAssumption DEF NoState
  <2>c. x \in Seat
    BY <2>a, <2>b DEF Seat
  <2>. HIDE DEF x
  <2>1. SeatMap(seats', issued)
    BY <2>a, <2>c, UpdateType
  <2>. QED  BY <1>2, <2>1 DEF Poke
<1>3. ASSUME NEW seq \in 1..MaxSeq, NEW dist \in NoState..MaxDistance,
             Input(s, seq, dist)
      PROVE  TypeOK'
  <2>. DEFINE x == [seats[s] EXCEPT !.silent = 0, !.lastSeq = seq,
                       !.dist = IF dist = NoState THEN @ ELSE dist]
  <2>a. s \in DOMAIN seats /\ seats[s] \in Seat /\ seats' = [seats EXCEPT ![s] = x]
    BY <1>3 DEF Input, SeatMap
  <2>b. 0 \in 0..(Grace + 1) /\ seq \in 0..MaxSeq
    BY <1>3, SessionAssumption DEF NoState
  <2>c. x \in Seat
    BY <2>a, <2>b DEF Seat
  <2>. HIDE DEF x
  <2>1. SeatMap(seats', issued)
    BY <2>a, <2>c, UpdateType
  <2>. QED  BY <1>3, <2>1 DEF Input
<1>4. ASSUME NEW seq \in 1..MaxSeq, Heartbeat(s, seq)
      PROVE  TypeOK'
  <2>. DEFINE x == [seats[s] EXCEPT !.silent = 0, !.lastSeq = seq]
  <2>a. s \in DOMAIN seats /\ seats[s] \in Seat /\ seats' = [seats EXCEPT ![s] = x]
    BY <1>4 DEF Heartbeat, SeatMap
  <2>b. 0 \in 0..(Grace + 1) /\ seq \in 0..MaxSeq
    BY <1>4, SessionAssumption DEF NoState
  <2>c. x \in Seat
    BY <2>a, <2>b DEF Seat
  <2>. HIDE DEF x
  <2>1. SeatMap(seats', issued)
    BY <2>a, <2>c, UpdateType
  <2>. QED  BY <1>4, <2>1 DEF Heartbeat
<1>. QED  BY <1>1, <1>2, <1>3, <1>4


\* The rest of a race keeps the types, too.
LEMMA MaybeCompleteType ==
  ASSUME TypeOK, NEW ss, SeatMap(ss, issued), NEW left, MaybeComplete(ss, left)
  PROVE  /\ SeatMap(seats', issued)
         /\ status' \in {"lobby", "racing", "finished", "canceled"}
         /\ host' \in 0..MaxSeats /\ finishedAt' \in BOOLEAN
         /\ DOMAIN results' \subseteq 1..issued
         /\ results' \in [DOMAIN results' -> Row]
<1>1. CASE CompleteRace(ss)
  BY <1>1, CompleteRaceType
<1>2. CASE /\ seats' = Without(ss, left)
           /\ host' = IF left = {} THEN host ELSE HostOf(Without(ss, left))
           /\ UNCHANGED <<status, finishedAt, results>>
  <2>1. SeatMap(seats', issued)
    BY <1>2, WithoutType
  <2>2. host' \in 0..MaxSeats
    BY <1>2, <2>1, HostType DEF TypeOK
  <2>. QED  BY <1>2, <2>1, <2>2 DEF TypeOK
<1>. QED  BY <1>1, <1>2 DEF MaybeComplete

\* The start of the countdown keeps the types.
LEMMA BeginCountdownType ==
  ASSUME TypeOK, NEW ss, SeatMap(ss, issued), BeginCountdown(ss)
  PROVE  /\ SeatMap(seats', issued) /\ status' = "racing"
         /\ nextPlace' \in Nat \ {0} /\ finishOrder' \subseteq 1..issued
         /\ clock' \in (-Countdown)..(MaxRace + 1)
<1>1. \A s \in DOMAIN ss : [ss[s] EXCEPT !.token = TRUE] \in Seat
  BY DEF SeatMap, Seat
<1>2. SeatMap(seats', issued)
  BY <1>1 DEF BeginCountdown, SeatMap
<1>. QED  BY <1>2, SessionAssumption DEF BeginCountdown

\* A finish record made from the race clock and the seat's distance.
LEMMA FinishType ==
  ASSUME NEW x \in Seat, NEW d \in BOOLEAN, NEW place \in Nat,
         NEW time \in (-Countdown)..(MaxRace + 1), NEW dist \in 0..MaxDistance
  PROVE  [x EXCEPT !.dnf = d,
            !.finish = [place |-> place, time |-> time, dist |-> dist]] \in Seat
<1>1. [place |-> place, time |-> time, dist |-> dist] \in Finishes
  BY DEF Finishes
<1>. QED  BY <1>1 DEF Seat

\* A seat without a movement state has travelled no distance.
LEMMA TravelledType ==
  ASSUME NEW x \in Seat
  PROVE  Travelled(x) \in 0..MaxDistance
BY SessionAssumption DEF Travelled, Seat, NoState

\* Readying, starting, canceling, leaving and finishing keep the types.
LEMMA ControlType ==
  ASSUME TypeOK, NEW s \in SeatIds,
         \/ \E value \in BOOLEAN : Ready(s, value)
         \/ Start(s)
         \/ Cancel(s)
         \/ LeaveFlying(s)
         \/ LeaveIdle(s)
         \/ \E claimed \in 0..MaxDistance : Finish(s, claimed)
  PROVE  TypeOK'
<1>. USE DEF TypeOK
<1>1. ASSUME NEW value \in BOOLEAN, Ready(s, value)
      PROVE  TypeOK'
  <2>. DEFINE x  == [seats[s] EXCEPT !.ready = value]
              ss == [seats EXCEPT ![s] = x]
  <2>1. s \in DOMAIN seats /\ x \in Seat
    BY <1>1 DEF Ready, SeatMap, Seat
  <2>2. \/ BeginCountdown(ss)
        \/ seats' = ss /\ UNCHANGED <<status, nextPlace, finishOrder, clock>>
    BY <1>1 DEF Ready
  <2>. HIDE DEF x
  <2>3. SeatMap(ss, issued)
    BY <2>1, UpdateType
  <2>. HIDE DEF ss
  <2>. QED  BY <1>1, <2>2, <2>3, BeginCountdownType DEF Ready
<1>2. CASE Start(s)
  BY <1>2, BeginCountdownType DEF Start
<1>3. CASE Cancel(s)
  <2>1. DOMAIN results' \subseteq 1..issued /\ results' \in [DOMAIN results' -> Row]
    BY <1>3, SessionAssumption, StandingsType DEF Cancel, SeatMap
  <2>2. SeatMap(seats', issued)
    BY <1>3 DEF Cancel, SeatMap, NoSeats
  <2>. QED  BY <1>3, <2>1, <2>2, SessionAssumption DEF Cancel
<1>4. CASE LeaveFlying(s)
  <2>. DEFINE x  == [seats[s] EXCEPT !.dnf = TRUE,
                       !.finish = [place |-> nextPlace, time |-> clock,
                                   dist |-> Travelled(seats[s])]]
              ss == [seats EXCEPT ![s] = x]
  <2>1. s \in DOMAIN seats /\ seats[s] \in Seat
    BY <1>4 DEF LeaveFlying, StillFlying, Unplaced, SeatMap
  <2>2. x \in Seat
    BY <2>1, FinishType, TravelledType
  <2>3. MaybeComplete(ss, {s})
    BY <1>4 DEF LeaveFlying
  <2>. HIDE DEF x
  <2>4. SeatMap(ss, issued)
    BY <2>1, <2>2, UpdateType
  <2>. HIDE DEF ss
  <2>5. s \in 1..issued
    BY <2>1 DEF SeatMap
  <2>6. finishOrder' \subseteq 1..issued /\ nextPlace' \in Nat \ {0}
    BY <1>4, <2>5 DEF LeaveFlying
  <2>7. awarded' \subseteq (1..issued) \X (Nat \ {0})
    BY <1>4, <2>5 DEF LeaveFlying, Award
  <2>. QED  BY <1>4, <2>3, <2>4, <2>6, <2>7, MaybeCompleteType DEF LeaveFlying
<1>5. CASE LeaveIdle(s)
  <2>1. SeatMap(seats', issued)
    BY <1>5, WithoutType DEF LeaveIdle
  <2>2. host' \in 0..MaxSeats
    BY <1>5, <2>1, HostType DEF LeaveIdle
  <2>. QED  BY <1>5, <2>1, <2>2 DEF LeaveIdle
<1>6. ASSUME NEW claimed \in 0..MaxDistance, Finish(s, claimed)
      PROVE  TypeOK'
  <2>. DEFINE time == IF clock < 0 THEN 0 ELSE clock
              dist == Official(seats[s], claimed)
              x  == [seats[s] EXCEPT !.finish = [place |-> nextPlace,
                                                 time |-> time, dist |-> dist]]
              ss == [seats EXCEPT ![s] = x]
  <2>1. s \in DOMAIN seats /\ seats[s] \in Seat
    BY <1>6 DEF Finish, StillFlying, Unplaced, SeatMap
  <2>2. MaybeComplete(ss, {})
    BY <1>6 DEF Finish
  <2>3. time \in (-Countdown)..(MaxRace + 1) /\ dist \in 0..MaxDistance
    BY <2>1, SessionAssumption DEF Seat, NoState, Official
  <2>. HIDE DEF time, dist
  <2>4. [place |-> nextPlace, time |-> time, dist |-> dist] \in Finishes
    BY <2>3 DEF Finishes
  <2>5. x \in Seat
    BY <2>1, <2>4 DEF Seat
  <2>. HIDE DEF x
  <2>6. SeatMap(ss, issued)
    BY <2>1, <2>5, UpdateType
  <2>. HIDE DEF ss
  <2>7. s \in 1..issued
    BY <2>1 DEF SeatMap
  <2>8. awarded' \subseteq (1..issued) \X (Nat \ {0})
    BY <1>6, <2>7 DEF Finish, Award
  <2>. QED  BY <1>6, <2>2, <2>6, <2>7, <2>8, MaybeCompleteType DEF Finish
<1>. QED  BY <1>1, <1>2, <1>3, <1>4, <1>5, <1>6


\* The sets a tick counts are finite, so the places it hands out are numbers.
LEMMA TickSets ==
  ASSUME TypeOK
  PROVE  /\ IsFiniteSet(DOMAIN seats) /\ DOMAIN seats \in SUBSET Nat
         /\ Abandoned \subseteq DOMAIN seats /\ IsFiniteSet(Abandoned)
         /\ Cardinality(Abandoned) \in Nat
         /\ \A s \in DOMAIN seats : AbandonedPlace(s) \in Nat \ {0}
<1>1. IsFiniteSet(DOMAIN seats) /\ DOMAIN seats \in SUBSET Nat
  BY SeatsAreFinite, SessionAssumption DEF TypeOK, SeatMap
<1>2. Abandoned \subseteq DOMAIN seats
  BY DEF Abandoned, Unplaced
<1>3. IsFiniteSet(Abandoned)
  BY <1>1, <1>2, FS_Subset
<1>4. ASSUME NEW s \in DOMAIN seats
      PROVE  AbandonedPlace(s) \in Nat \ {0}
  <2>1. {t \in Abandoned : t < s} \subseteq Abandoned
    OBVIOUS
  <2>2. Cardinality({t \in Abandoned : t < s}) \in Nat
    BY <1>3, <2>1, FS_Subset, FS_CardinalityType
  <2>. QED  BY <2>2 DEF AbandonedPlace, TypeOK
<1>. QED  BY <1>1, <1>2, <1>3, <1>4, FS_CardinalityType

\* Every tick of the room timer keeps the types.
LEMMA TickType ==
  ASSUME TypeOK, TickStep
  PROVE  TypeOK'
<1>. USE DEF TypeOK
<1>1. CASE TickLobby
  <2>. DEFINE gone == {s \in DOMAIN seats : Expired(seats[s])}
  <2>1. /\ seats' = Without(seats, gone)
        /\ finishOrder' = finishOrder \ gone
        /\ host' = IF gone = {} THEN host ELSE HostOf(seats')
    BY <1>1 DEF TickLobby
  <2>. HIDE DEF gone
  <2>2. SeatMap(seats', issued)
    BY <2>1, WithoutType
  <2>3. host' \in 0..MaxSeats
    BY <2>1, <2>2, HostType
  <2>. QED  BY <1>1, <2>1, <2>2, <2>3 DEF TickLobby, LobbyStatus
<1>2. ASSUME NEW A \in SUBSET Abandoned
      PROVE  {<<s, AbandonedPlace(s)>> : s \in A} \subseteq (1..issued) \X (Nat \ {0})
  <2>1. \A s \in A : s \in 1..issued /\ AbandonedPlace(s) \in Nat \ {0}
    BY TickSets DEF SeatMap
  <2>. QED  BY <2>1
<1>3. CASE TickRace
  <2>. DEFINE ss == Without(seats, Abandoned)
  <2>1. SeatMap(ss, issued)
    BY WithoutType
  <2>2. HostOf(ss) \in 0..MaxSeats
    BY <2>1, HostType
  <2>3. \/ CompleteRace(ss)
        \/ /\ seats' = ss
           /\ host' = IF Abandoned = {} THEN host ELSE HostOf(ss)
           /\ UNCHANGED <<status, finishedAt, results>>
    BY <1>3 DEF TickRace
  <2>. HIDE DEF ss
  <2>4. /\ SeatMap(seats', issued)
        /\ status' \in {"lobby", "racing", "finished", "canceled"}
        /\ host' \in 0..MaxSeats /\ finishedAt' \in BOOLEAN
        /\ DOMAIN results' \subseteq 1..issued
        /\ results' \in [DOMAIN results' -> Row]
    <3>1. CASE CompleteRace(ss)
      BY <2>1, <3>1, CompleteRaceType
    <3>2. CASE /\ seats' = ss
               /\ host' = IF Abandoned = {} THEN host ELSE HostOf(ss)
               /\ UNCHANGED <<status, finishedAt, results>>
      BY <2>1, <2>2, <3>2
    <3>. QED  BY <2>3, <3>1, <3>2
  <2>5. nextPlace' \in Nat \ {0}
    BY <1>3, TickSets DEF TickRace
  <2>6. awarded' \subseteq (1..issued) \X (Nat \ {0})
    BY <1>2, <1>3 DEF TickRace
  <2>. QED  BY <1>3, <2>4, <2>5, <2>6 DEF TickRace
<1>4. CASE TickCap
  <2>. DEFINE left   == Without(seats, Abandoned)
              flying == Unplaced(left)
              place(s) == nextPlace + Cardinality(Abandoned)
                  + Cardinality({t \in flying : AheadByDistance(seats, t, s)})
              x(s) == [left[s] EXCEPT !.dnf = TRUE,
                         !.finish = [place |-> place(s), time |-> clock,
                                     dist |-> Travelled(left[s])]]
              ss == [s \in DOMAIN left |-> IF s \in flying THEN x(s) ELSE left[s]]
  <2>1. SeatMap(left, issued) /\ DOMAIN left \subseteq DOMAIN seats
    BY ZenonT(40), WithoutType
  <2>2. flying \subseteq DOMAIN left
    BY DEF Unplaced
  <2>3. IsFiniteSet(flying)
    BY <2>1, <2>2, TickSets, FS_Subset
  <2>4. ASSUME NEW s
        PROVE  place(s) \in Nat \ {0}
    <3>. DEFINE ahead == {t \in flying : AheadByDistance(seats, t, s)}
    <3>1. Cardinality(ahead) \in Nat
      BY <2>3, FS_Subset, FS_CardinalityType
    <3>2. place(s) = nextPlace + Cardinality(Abandoned) + Cardinality(ahead)
      OBVIOUS
    <3>. HIDE DEF place, ahead
    <3>. QED  BY <3>1, <3>2, TickSets
  <2>5. /\ CompleteRace(ss)
        /\ nextPlace' = nextPlace + Cardinality(Abandoned) + Cardinality(flying)
        /\ finishOrder' = finishOrder \cup flying
        /\ awarded' = awarded
             \cup {<<s, AbandonedPlace(s)>> : s \in Abandoned}
             \cup {<<s, place(s)>> : s \in flying}
        /\ UNCHANGED <<issued, clock>>
    BY <1>4 DEF TickCap
  <2>6. Cardinality(flying) \in Nat
    BY <2>3, FS_CardinalityType
  <2>. HIDE DEF left, flying, place
  <2>7. \A s \in DOMAIN left : x(s) \in Seat
    <3>1. \A s \in DOMAIN left : left[s] \in Seat
      BY <2>1 DEF SeatMap
    <3>2. \A s \in DOMAIN left : Travelled(left[s]) \in 0..MaxDistance
      BY <3>1, TravelledType
    <3>. QED  BY <2>4, <3>1, <3>2, FinishType
  <2>. HIDE DEF x
  <2>8. SeatMap(ss, issued)
    BY <2>1, <2>7 DEF SeatMap
  <2>9. /\ SeatMap(seats', issued)
        /\ status' = "finished" /\ host' \in 0..MaxSeats /\ finishedAt' \in BOOLEAN
        /\ DOMAIN results' \subseteq 1..issued
        /\ results' \in [DOMAIN results' -> Row]
    <3>. HIDE DEF ss
    <3>. QED  BY <2>5, <2>8, CompleteRaceType
  <2>10. flying \subseteq 1..issued
    BY <2>1, <2>2 DEF SeatMap
  <2>11. {<<s, place(s)>> : s \in flying} \subseteq (1..issued) \X (Nat \ {0})
    BY <2>4, <2>10
  <2>12. awarded' \subseteq (1..issued) \X (Nat \ {0})
    BY <1>2, <2>5, <2>11
  <2>13. nextPlace' \in Nat \ {0}
    BY <2>5, <2>6, TickSets
  <2>. QED  BY <2>5, <2>9, <2>10, <2>12, <2>13
<1>. QED  BY <1>1, <1>3, <1>4 DEF TickStep

\* The passing of time keeps the types.
LEMMA ElapseType ==
  ASSUME TypeOK, Elapse
  PROVE  TypeOK'
<1>. DEFINE x(s) == [seats[s] EXCEPT !.silent = IF @ > Grace THEN @ ELSE @ + 1]
<1>1. ASSUME NEW s \in DOMAIN seats
      PROVE  x(s) \in Seat
  <2>1. seats[s] \in Seat /\ seats[s].silent \in 0..(Grace + 1)
    BY DEF TypeOK, SeatMap, Seat
  <2>2. (IF seats[s].silent > Grace THEN seats[s].silent ELSE seats[s].silent + 1)
          \in 0..(Grace + 1)
    BY <2>1, SessionAssumption
  <2>. QED  BY <2>1, <2>2 DEF Seat
<1>2. seats' = [s \in DOMAIN seats |-> x(s)]
  BY DEF Elapse
<1>. HIDE DEF x
<1>3. SeatMap(seats', issued)
  BY <1>1, <1>2 DEF TypeOK, SeatMap
<1>4. clock' \in (-Countdown)..(MaxRace + 1)
  BY SessionAssumption DEF Elapse, TypeOK
<1>. QED  BY <1>3, <1>4 DEF Elapse, TypeOK

\* The type invariant of every reachable state.
THEOREM TypeCorrect == Spec => []TypeOK
<1>1. Init => TypeOK
  BY InitType
<1>2. TypeOK /\ [Next]_vars => TypeOK'
  <2>. SUFFICES ASSUME TypeOK, [Next]_vars
                PROVE  TypeOK'
    OBVIOUS
  <2>1. ASSUME NEW p \in Players, Arrive(p)
        PROVE  TypeOK'
    BY <2>1, ArriveType
  <2>2. ASSUME NEW s \in SeatIds, Pilot(s)
        PROVE  TypeOK'
    BY <2>2, ControlType, FrameType DEF Pilot
  <2>3. CASE TickStep
    BY <2>3, TickType
  <2>4. CASE Elapse
    BY <2>4, ElapseType
  <2>5. CASE UNCHANGED vars
    BY <2>5 DEF TypeOK, vars
  <2>. QED  BY <2>1, <2>2, <2>3, <2>4, <2>5 DEF Next
<1>. QED  BY <1>1, <1>2, PTL DEF Spec

(***************************************************************************)
(* The host.                                                               *)
(***************************************************************************)

\* The host depends on who is seated and connected, and on nothing else.
LEMMA SamePhases ==
  ASSUME NEW ss, NEW tt, DOMAIN tt = DOMAIN ss,
         \A s \in DOMAIN ss : tt[s].phase = ss[s].phase
  PROVE  HostOf(tt) = HostOf(ss)
<1>1. Connected(tt) = Connected(ss)
  BY DEF Connected
<1>. QED  BY <1>1 DEF HostOf

\* An empty room has no host.
LEMMA NoSeatsNoHost == HostOf(NoSeats) = 0
BY DEF HostOf, Connected, NoSeats

\* Every reachable state's host is the first connected seat in join order.
THEOREM HostCorrect == Spec => []HostIsFirstConnected
<1>. DEFINE HostInv == host = HostOf(seats)
<1>1. Init => HostInv
  BY NoSeatsNoHost DEF Init
<1>2. TypeOK /\ HostInv /\ [Next]_vars => HostInv'
  <2>. SUFFICES ASSUME TypeOK, HostInv, [Next]_vars
                PROVE  host' = HostOf(seats')
    OBVIOUS
  <2>0. seats \in [DOMAIN seats -> Seat]
    BY DEF TypeOK, SeatMap
  <2>1. ASSUME NEW p \in Players, Arrive(p)
        PROVE  host' = HostOf(seats')
    BY <2>1 DEF Arrive, JoinNew, JoinExisting, JoinExpired, JoinWithToken, Reattach
  <2>2. ASSUME NEW ss, CompleteRace(ss)
        PROVE  host' = HostOf(seats')
    BY <2>2, NoSeatsNoHost DEF CompleteRace
  <2>3. ASSUME NEW s \in DOMAIN seats, NEW x, x.phase = seats[s].phase,
               NEW ss, ss = [seats EXCEPT ![s] = x]
        PROVE  HostOf(ss) = host
    <3>1. DOMAIN ss = DOMAIN seats /\ \A t \in DOMAIN seats : ss[t].phase = seats[t].phase
      BY <2>3
    <3>. QED  BY <3>1, SamePhases
  <2>4. ASSUME NEW ss, BeginCountdown(ss), HostOf(ss) = host, host' = host,
               ss \in [DOMAIN ss -> Seat]
        PROVE  host' = HostOf(seats')
    <3>1. \A s \in DOMAIN ss : [ss[s] EXCEPT !.token = TRUE].phase = ss[s].phase
      BY <2>4 DEF Seat
    <3>2. DOMAIN seats' = DOMAIN ss /\ \A s \in DOMAIN ss : seats'[s].phase = ss[s].phase
      BY <2>4, <3>1 DEF BeginCountdown
    <3>. QED  BY <2>4, <3>2, SamePhases
  <2>5. ASSUME NEW s \in SeatIds, Pilot(s)
        PROVE  host' = HostOf(seats')
    <3>1. ASSUME NEW value \in BOOLEAN, Ready(s, value)
          PROVE  host' = HostOf(seats')
      <4>. DEFINE x  == [seats[s] EXCEPT !.ready = value]
                  ss == [seats EXCEPT ![s] = x]
      <4>1. s \in DOMAIN seats /\ x.phase = seats[s].phase /\ x \in Seat
        BY <2>0, <3>1 DEF Ready, Seat
      <4>2. host' = host /\ (BeginCountdown(ss) \/ seats' = ss)
        BY <3>1 DEF Ready
      <4>. HIDE DEF x
      <4>3. HostOf(ss) = host /\ ss \in [DOMAIN ss -> Seat]
        BY <2>0, <2>3, <4>1
      <4>. HIDE DEF ss
      <4>. QED  BY <2>4, <4>2, <4>3
    <3>2. CASE Start(s)
      BY <2>0, <2>4, <3>2 DEF Start
    <3>3. CASE Cancel(s)
      BY <3>3, NoSeatsNoHost DEF Cancel
    <3>4. CASE LeaveFlying(s)
      <4>1. PICK ss : MaybeComplete(ss, {s})
        BY <3>4 DEF LeaveFlying
      <4>. QED  BY <2>2, <4>1 DEF MaybeComplete
    <3>5. CASE LeaveIdle(s)
      BY <3>5 DEF LeaveIdle
    <3>6. CASE MarkDisconnected(s)
      BY <3>6 DEF MarkDisconnected
    <3>7. CASE Poke(s)
      <4>. DEFINE x == [seats[s] EXCEPT !.silent = 0]
      <4>1. s \in DOMAIN seats /\ x.phase = seats[s].phase
        BY <2>0, <3>7 DEF Poke, Seat
      <4>2. seats' = [seats EXCEPT ![s] = x] /\ host' = host
        BY <3>7 DEF Poke
      <4>. HIDE DEF x
      <4>. QED  BY <2>3, <4>1, <4>2
    <3>8. ASSUME NEW seq \in 1..MaxSeq, NEW dist \in NoState..MaxDistance,
                 Input(s, seq, dist)
          PROVE  host' = HostOf(seats')
      <4>. DEFINE x == [seats[s] EXCEPT !.silent = 0, !.lastSeq = seq,
                          !.dist = IF dist = NoState THEN @ ELSE dist]
      <4>1. s \in DOMAIN seats /\ x.phase = seats[s].phase
        BY <2>0, <3>8 DEF Input, Seat
      <4>2. seats' = [seats EXCEPT ![s] = x] /\ host' = host
        BY <3>8 DEF Input
      <4>. HIDE DEF x
      <4>. QED  BY <2>3, <4>1, <4>2
    <3>9. ASSUME NEW seq \in 1..MaxSeq, Heartbeat(s, seq)
          PROVE  host' = HostOf(seats')
      <4>. DEFINE x == [seats[s] EXCEPT !.silent = 0, !.lastSeq = seq]
      <4>1. s \in DOMAIN seats /\ x.phase = seats[s].phase
        BY <2>0, <3>9 DEF Heartbeat, Seat
      <4>2. seats' = [seats EXCEPT ![s] = x] /\ host' = host
        BY <3>9 DEF Heartbeat
      <4>. HIDE DEF x
      <4>. QED  BY <2>3, <4>1, <4>2
    <3>10. ASSUME NEW claimed \in 0..MaxDistance, Finish(s, claimed)
           PROVE  host' = HostOf(seats')
      <4>. DEFINE f == [place |-> nextPlace, time |-> IF clock < 0 THEN 0 ELSE clock,
                        dist |-> Official(seats[s], claimed)]
                  x == [seats[s] EXCEPT !.finish = f]
                  ss == [seats EXCEPT ![s] = x]
      <4>1. s \in DOMAIN seats
        BY <3>10 DEF Finish, StillFlying, Unplaced
      <4>2. MaybeComplete(ss, {})
        BY <3>10 DEF Finish
      <4>. HIDE DEF f
      <4>3. x.phase = seats[s].phase
        BY <2>0, <4>1 DEF Seat
      <4>. HIDE DEF x
      <4>4. HostOf(ss) = host /\ Without(ss, {}) = ss
        BY <2>3, <4>1, <4>3 DEF Without, Restrict
      <4>. HIDE DEF ss
      <4>. QED  BY <2>2, <4>2, <4>4 DEF MaybeComplete
    <3>. QED  BY <2>5, <3>1, <3>2, <3>3, <3>4, <3>5, <3>6, <3>7, <3>8, <3>9, <3>10 DEF Pilot
  <2>6. CASE TickStep
    <3>1. \A gone : gone = {} => Without(seats, gone) = seats
      BY <2>0 DEF Without, Restrict
    <3>2. CASE TickLobby
      BY <3>1, <3>2 DEF TickLobby
    <3>3. CASE TickRace
      BY <2>2, <3>1, <3>3 DEF TickRace
    <3>4. CASE TickCap
      BY <3>4, NoSeatsNoHost DEF TickCap, CompleteRace
    <3>. QED  BY <2>6, <3>2, <3>3, <3>4 DEF TickStep
  <2>7. CASE Elapse
    <3>1. \A s \in DOMAIN seats :
            [seats[s] EXCEPT !.silent = IF @ > Grace THEN @ ELSE @ + 1].phase = seats[s].phase
      BY <2>0 DEF Seat
    <3>2. DOMAIN seats' = DOMAIN seats /\ \A s \in DOMAIN seats : seats'[s].phase = seats[s].phase
      BY <2>7, <3>1 DEF Elapse
    <3>. QED  BY <2>7, <3>2, SamePhases DEF Elapse
  <2>8. CASE UNCHANGED vars
    BY <2>8 DEF vars
  <2>. QED  BY <2>1, <2>5, <2>6, <2>7, <2>8 DEF Next
<1>3. TypeOK /\ HostInv => HostIsFirstConnected
  <2>. SUFFICES ASSUME TypeOK, host = HostOf(seats)
                PROVE  HostIsFirstConnected
    OBVIOUS
  <2>1. /\ IsFiniteSet(Connected(seats)) /\ Connected(seats) \in SUBSET Nat
        /\ 0 \notin Connected(seats)
    <3>1. Connected(seats) \subseteq 1..issued /\ issued \in Nat
      BY SessionAssumption DEF Connected, TypeOK, SeatMap
    <3>2. 0 \notin Connected(seats)
      BY <3>1
    <3>3. IsFiniteSet(Connected(seats)) /\ Connected(seats) \in SUBSET Nat
      BY <3>1, SeatsAreFinite
    <3>. QED  BY <3>2, <3>3
  <2>. QED  BY <2>1, FirstIsMember DEF HostOf, HostIsFirstConnected
<1>. HIDE DEF HostInv
<1>. QED  BY <1>1, <1>2, <1>3, TypeCorrect, PTL DEF Spec

(***************************************************************************)
(* Finish places.                                                          *)
(***************************************************************************)

\* The abandoned seats' places are distinct and fill the numbers from the
\* counter on.
LEMMA AbandonedPlaces ==
  ASSUME TypeOK
  PROVE  /\ \A s \in Abandoned : /\ nextPlace <= AbandonedPlace(s)
                                /\ AbandonedPlace(s) < nextPlace + Cardinality(Abandoned)
         /\ \A s, t \in Abandoned : AbandonedPlace(s) = AbandonedPlace(t) => s = t
<1>. DEFINE Before(s) == {t \in Abandoned : t < s}
<1>1. /\ Abandoned \subseteq Nat /\ IsFiniteSet(Abandoned)
      /\ Cardinality(Abandoned) \in Nat /\ nextPlace \in Nat
  BY TickSets DEF TypeOK
<1>2. \A s : Before(s) \subseteq Abandoned
  OBVIOUS
<1>3. \A s : IsFiniteSet(Before(s)) /\ Cardinality(Before(s)) \in Nat
  BY <1>1, <1>2, FS_Subset, FS_CardinalityType
<1>4. \A s : AbandonedPlace(s) = nextPlace + Cardinality(Before(s))
  BY DEF AbandonedPlace
<1>5. ASSUME NEW s \in Abandoned
      PROVE  Cardinality(Before(s)) < Cardinality(Abandoned)
  <2>1. s \notin Before(s)
    BY <1>1
  <2>. HIDE DEF Before
  <2>. QED  BY <1>1, <1>2, <2>1, StrictSubset
<1>6. ASSUME NEW s \in Abandoned, NEW t \in Abandoned, s < t
      PROVE  Cardinality(Before(s)) < Cardinality(Before(t))
  <2>1. s \in Before(t) /\ s \notin Before(s)
    BY <1>1, <1>6
  <2>2. \A u \in Before(s) : u \in Before(t)
    BY <1>1, <1>6
  <2>. HIDE DEF Before
  <2>. QED  BY <1>3, <2>1, <2>2, StrictSubset
<1>. HIDE DEF Before
<1>7. ASSUME NEW s \in Abandoned, NEW t \in Abandoned,
             AbandonedPlace(s) = AbandonedPlace(t)
      PROVE  s = t
  <2>1. Cardinality(Before(s)) = Cardinality(Before(t))
    BY <1>1, <1>3, <1>4, <1>7
  <2>2. s \in Nat /\ t \in Nat
    BY <1>1
  <2>3. ~(s < t) /\ ~(t < s)
    BY <1>3, <1>6, <2>1
  <2>. QED  BY <2>2, <2>3
<1>8. ASSUME NEW s \in Abandoned
      PROVE  /\ nextPlace <= AbandonedPlace(s)
             /\ AbandonedPlace(s) < nextPlace + Cardinality(Abandoned)
  BY <1>1, <1>3, <1>4, <1>5
<1>. QED  BY <1>7, <1>8

\* So are the places by distance that the race cap hands out.
LEMMA DistancePlaces ==
  ASSUME TypeOK, NEW F \in SUBSET DOMAIN seats
  PROVE  LET rank(s) == Cardinality({t \in F : AheadByDistance(seats, t, s)})
         IN /\ \A s \in F : rank(s) \in Nat /\ rank(s) < Cardinality(F)
            /\ \A s, t \in F : rank(s) = rank(t) => s = t
<1>. DEFINE Ahead(s) == {t \in F : AheadByDistance(seats, t, s)}
<1>1. IsFiniteSet(F) /\ F \subseteq Nat
  BY TickSets, FS_Subset
<1>2. \A s : Ahead(s) \subseteq F
  OBVIOUS
<1>3. \A s : IsFiniteSet(Ahead(s)) /\ Cardinality(Ahead(s)) \in Nat
  BY <1>1, <1>2, FS_Subset, FS_CardinalityType
<1>4. \A s \in F : Travelled(seats[s]) \in Int
  <2>1. \A s \in F : seats[s] \in Seat
    BY DEF TypeOK, SeatMap
  <2>. QED  BY <2>1, TravelledType, SessionAssumption
<1>5. \A s \in F : s \notin Ahead(s)
  BY <1>1, <1>4 DEF AheadByDistance
<1>6. ASSUME NEW s \in F, NEW t \in F, AheadByDistance(seats, s, t)
      PROVE  Cardinality(Ahead(s)) < Cardinality(Ahead(t))
  <2>1. s \in Ahead(t)
    BY <1>6
  <2>2. \A u \in Ahead(s) : u \in Ahead(t)
    BY <1>1, <1>4, <1>6 DEF AheadByDistance
  <2>3. s \notin Ahead(s)
    BY <1>5
  <2>. HIDE DEF Ahead
  <2>. QED  BY <1>3, <2>1, <2>2, <2>3, StrictSubset
<1>7. \A s, t \in F : s # t => AheadByDistance(seats, s, t) \/ AheadByDistance(seats, t, s)
  BY <1>1, <1>4 DEF AheadByDistance
<1>. HIDE DEF Ahead
<1>8. \A s \in F : Cardinality(Ahead(s)) < Cardinality(F)
  BY <1>1, <1>2, <1>5, StrictSubset
<1>9. \A s, t \in F : Cardinality(Ahead(s)) = Cardinality(Ahead(t)) => s = t
  BY <1>3, <1>6, <1>7
<1>10. \A s \in F : Cardinality(Ahead(s)) \in Nat
  BY <1>3
<1>. QED  BY <1>8, <1>9, <1>10 DEF Ahead

\* A step that announces no place keeps the invariant if the seats it leaves
\* keep their records and the seats it adds have none.  The counter may only
\* be reset while nothing has been announced.
LEMMA QuietKeepsPlaces ==
  ASSUME TypeOK, PlacesInv, awarded' = awarded,
         nextPlace' = nextPlace \/ awarded = {},
         status' = "lobby" => status = "lobby",
         \A s \in DOMAIN seats' :
           \/ s \in DOMAIN seats /\ seats'[s].finish = seats[s].finish
           \/ s \notin 1..issued /\ seats'[s].finish = NoFinish
  PROVE  PlacesInv'
<1>1. \A a \in awarded' : a[1] \in 1..issued
  BY DEF TypeOK
<1>2. \A a \in awarded' : a[1] \in DOMAIN seats' => a[1] \in Placed(seats')
  BY <1>1 DEF PlacesInv, Placed
<1>3. \A s \in Placed(seats') : s \in Placed(seats) /\ seats'[s].finish = seats[s].finish
  BY DEF Placed, NoFinish
<1>4. \A s \in Placed(seats') : <<s, seats'[s].finish.place>> \in awarded'
  BY <1>3 DEF PlacesInv
<1>. QED  BY <1>2, <1>4 DEF PlacesInv, PlacesUnique

\* A step that announces places for seats without one keeps the invariant if
\* the places are new and distinct, and the seats that stay record them.
LEMMA AwardKeepsPlaces ==
  ASSUME TypeOK, PlacesInv, NEW A \in SUBSET Unplaced(seats), NEW f \in [A -> Nat],
         \A s \in A : nextPlace <= f[s] /\ f[s] < nextPlace',
         \A s, t \in A : f[s] = f[t] => s = t,
         nextPlace' \in Nat, nextPlace <= nextPlace',
         awarded' = awarded \cup {<<s, f[s]>> : s \in A},
         status' # "lobby",
         \A s \in DOMAIN seats' :
           /\ s \in DOMAIN seats
           /\ s \in A => seats'[s].finish.place = f[s]
           /\ s \notin A => seats'[s].finish = seats[s].finish
  PROVE  PlacesInv'
<1>1. /\ \A a \in awarded : /\ a = <<a[1], a[2]>> /\ a[2] \in Nat
                            /\ a[2] < nextPlace /\ a[1] \notin A
      /\ nextPlace \in Nat \ {0}
  BY DEF TypeOK, PlacesInv, Placed, Unplaced
<1>2. \A a \in awarded' : a \in awarded \/ (a[1] \in A /\ a[2] = f[a[1]])
  OBVIOUS
<1>3. \A a \in awarded' : a[2] < nextPlace'
  BY <1>1, <1>2
<1>4. ASSUME NEW a \in awarded', NEW b \in awarded'
      PROVE  (a[1] = b[1]) <=> (a[2] = b[2])
  <2>1. CASE a \in awarded /\ b \in awarded
    BY <2>1 DEF PlacesInv, PlacesUnique
  <2>2. CASE a \in awarded /\ b \notin awarded
    BY <1>1, <1>2, <2>2
  <2>3. CASE a \notin awarded /\ b \in awarded
    BY <1>1, <1>2, <2>3
  <2>4. CASE a \notin awarded /\ b \notin awarded
    BY <1>2, <2>4
  <2>. QED  BY <2>1, <2>2, <2>3, <2>4
<1>5. \A a \in awarded' : a[1] \in DOMAIN seats' => a[1] \in Placed(seats')
  <2>1. \A s \in A : f[s] # 0
    BY <1>1
  <2>. QED  BY <1>2, <2>1 DEF PlacesInv, Placed
<1>6. \A s \in Placed(seats') : <<s, seats'[s].finish.place>> \in awarded'
  BY DEF PlacesInv, Placed
<1>. QED  BY <1>3, <1>4, <1>5, <1>6 DEF PlacesInv, PlacesUnique

\* Completing from the seat map ss a race whose every seat there has a place
\* that was announced by the end of the step.
LEMMA CompletionIsAwarded ==
  ASSUME NEW n \in Nat, NEW ss, SeatMap(ss, n), CompleteRace(ss), Unplaced(ss) = {},
         \A s \in Placed(ss) : <<s, ss[s].finish.place>> \in awarded'
  PROVE  ResultsAreAwarded'
<1>1. Placed(ss) = DOMAIN ss
  BY DEF Placed, Unplaced
<1>. QED  BY <1>1, StandingsType DEF CompleteRace, ResultsAreAwarded

\* The single award of finish() and leave().
LEMMA SingleAward ==
  ASSUME TypeOK, PlacesInv, NEW s \in Unplaced(seats), status = "racing",
         NEW x, x.finish.place = nextPlace, x \in Seat, NEW left, left = {} \/ left = {s},
         MaybeComplete([seats EXCEPT ![s] = x], left),
         nextPlace' = nextPlace + 1, Award(s, nextPlace)
  PROVE  PlacesInv' /\ ResultsAreAwarded'
<1>. DEFINE ss == [seats EXCEPT ![s] = x]
            f  == [t \in {s} |-> nextPlace]
<1>1. /\ s \in DOMAIN seats /\ SeatMap(seats, issued) /\ issued \in Nat
      /\ nextPlace \in Nat \ {0}
  BY SessionAssumption DEF TypeOK, Unplaced
<1>2. /\ SeatMap(ss, issued) /\ DOMAIN ss = DOMAIN seats
      /\ \A t \in DOMAIN seats : ss[t] = IF t = s THEN x ELSE seats[t]
  BY <1>1, UpdateType
<1>3. \/ AllDone(ss) /\ CompleteRace(ss)
      \/ seats' = Without(ss, left) /\ UNCHANGED <<status, results>>
  BY DEF MaybeComplete
<1>. HIDE DEF ss
<1>4. \A t \in DOMAIN seats' : t \in DOMAIN seats /\ seats'[t] = ss[t]
  <2>1. CASE CompleteRace(ss)
    BY <2>1 DEF CompleteRace, NoSeats
  <2>2. CASE seats' = Without(ss, left)
    BY <1>2, <2>2 DEF Without, Restrict
  <2>. QED  BY <1>3, <2>1, <2>2
<1>5. status' # "lobby"
  BY <1>3 DEF CompleteRace
<1>6. awarded' = awarded \cup {<<t, f[t]>> : t \in {s}}
  BY DEF Award
<1>7. PlacesInv'
  <2>1. f \in [{s} -> Nat] /\ f[s] = nextPlace /\ {s} \in SUBSET Unplaced(seats)
    BY <1>1
  <2>2. \A t \in DOMAIN seats' :
          /\ t \in DOMAIN seats
          /\ t \in {s} => seats'[t].finish.place = f[t]
          /\ t \notin {s} => seats'[t].finish = seats[t].finish
    BY <1>2, <1>4, <2>1
  <2>3. nextPlace' \in Nat /\ nextPlace <= nextPlace' /\ nextPlace < nextPlace'
    BY <1>1
  <2>. HIDE DEF f
  <2>. QED  BY <1>5, <1>6, <2>1, <2>2, <2>3, AwardKeepsPlaces
<1>8. ResultsAreAwarded'
  <2>1. ASSUME NEW t \in Placed(ss)
        PROVE  <<t, ss[t].finish.place>> \in awarded'
    <3>1. CASE t = s
      BY <1>2, <2>1, <3>1 DEF Award, Placed
    <3>2. CASE t # s
      BY <1>2, <2>1, <3>2 DEF Award, Placed, PlacesInv
    <3>. QED  BY <3>1, <3>2
  <2>2. CASE AllDone(ss) /\ CompleteRace(ss)
    BY <1>1, <1>2, <2>1, <2>2, CompletionIsAwarded DEF AllDone
  <2>3. CASE status' = status
    BY <2>3 DEF ResultsAreAwarded
  <2>. QED  BY <1>3, <2>2, <2>3
<1>. QED  BY <1>7, <1>8

\* A racing tick.
LEMMA TickAwards ==
  ASSUME TypeOK, PlacesInv, TickRace \/ TickCap
  PROVE  PlacesInv' /\ ResultsAreAwarded'
<1>. DEFINE left == Without(seats, Abandoned)
<1>0. /\ SeatMap(seats, issued) /\ issued \in Nat /\ nextPlace \in Nat \ {0}
      /\ Abandoned \subseteq Unplaced(seats) /\ Cardinality(Abandoned) \in Nat
  BY SessionAssumption, TickSets DEF TypeOK, Abandoned
<1>1. /\ SeatMap(left, issued) /\ DOMAIN left = DOMAIN seats \ Abandoned
      /\ \A s \in DOMAIN seats \ Abandoned : left[s] = seats[s]
  BY SMTT(30), <1>0, WithoutType
<1>2. Placed(left) = Placed(seats)
  BY <1>0, <1>1 DEF Placed, Unplaced
<1>3. \A s \in Abandoned : AbandonedPlace(s) \in Nat
  BY TickSets
<1>. HIDE DEF left
<1>4. CASE TickRace
  <2>. DEFINE f == [s \in Abandoned |-> AbandonedPlace(s)]
  <2>1. /\ \/ AllDone(left) /\ CompleteRace(left)
           \/ seats' = left /\ UNCHANGED <<status, results>>
        /\ status = "racing"
        /\ nextPlace' = nextPlace + Cardinality(Abandoned)
        /\ awarded' = awarded \cup {<<s, AbandonedPlace(s)>> : s \in Abandoned}
    BY <1>4 DEF TickRace, left
  <2>2. PlacesInv'
    <3>1. f \in [Abandoned -> Nat] /\ \A s \in Abandoned : f[s] = AbandonedPlace(s)
      BY <1>3
    <3>2. awarded' = awarded \cup {<<s, f[s]>> : s \in Abandoned}
      BY <2>1
    <3>3. \A s \in DOMAIN seats' : /\ s \in DOMAIN seats /\ s \notin Abandoned
                                  /\ seats'[s].finish = seats[s].finish
      BY <1>1, <2>1 DEF CompleteRace, NoSeats
    <3>4. status' # "lobby"
      BY <2>1 DEF CompleteRace
    <3>5. nextPlace' \in Nat /\ nextPlace <= nextPlace'
      BY <1>0, <2>1
    <3>6. \A s \in Abandoned : nextPlace <= f[s] /\ f[s] < nextPlace'
      BY <2>1, <3>1, AbandonedPlaces
    <3>7. \A s, t \in Abandoned : f[s] = f[t] => s = t
      BY <3>1, AbandonedPlaces
    <3>. HIDE DEF f
    <3>. QED  BY <1>0, <3>1, <3>2, <3>3, <3>4, <3>5, <3>6, <3>7, AwardKeepsPlaces
  <2>3. ResultsAreAwarded'
    <3>1. \A s \in Placed(left) : <<s, left[s].finish.place>> \in awarded'
      BY <1>1, <1>2, <2>1 DEF PlacesInv, Placed
    <3>2. CASE AllDone(left) /\ CompleteRace(left)
      BY <1>0, <1>1, <3>1, <3>2, CompletionIsAwarded DEF AllDone
    <3>3. CASE UNCHANGED <<status, results>>
      BY <2>1, <3>3 DEF ResultsAreAwarded
    <3>. QED  BY <2>1, <3>2, <3>3
  <2>. QED  BY <2>2, <2>3
<1>5. CASE TickCap
  <2>. DEFINE flying == Unplaced(left)
              rank(s) == Cardinality({t \in flying : AheadByDistance(seats, t, s)})
              place(s) == nextPlace + Cardinality(Abandoned) + rank(s)
              x(s) == [left[s] EXCEPT !.dnf = TRUE,
                         !.finish = [place |-> place(s), time |-> clock,
                                     dist |-> Travelled(left[s])]]
              ss == [s \in DOMAIN left |-> IF s \in flying THEN x(s) ELSE left[s]]
              A  == Abandoned \cup flying
              f  == [s \in A |-> IF s \in Abandoned THEN AbandonedPlace(s) ELSE place(s)]
  <2>1. /\ CompleteRace(ss)
        /\ nextPlace' = nextPlace + Cardinality(Abandoned) + Cardinality(flying)
        /\ awarded' = awarded
             \cup {<<s, AbandonedPlace(s)>> : s \in Abandoned}
             \cup {<<s, place(s)>> : s \in flying}
    BY <1>5 DEF TickCap, left
  <2>2. flying \subseteq DOMAIN left /\ flying \subseteq Unplaced(seats)
    BY <1>1, <1>2 DEF Unplaced
  <2>3. flying \cap Abandoned = {}
    BY <1>1, <2>2
  <2>4. Cardinality(flying) \in Nat
    BY <1>1, <2>2, TickSets, FS_Subset, FS_CardinalityType
  <2>5. /\ \A s \in flying : rank(s) \in Nat /\ rank(s) < Cardinality(flying)
        /\ \A s, t \in flying : rank(s) = rank(t) => s = t
    <3>1. flying \in SUBSET DOMAIN seats
      BY <1>1, <2>2
    <3>. HIDE DEF flying
    <3>. QED  BY <3>1, DistancePlaces
  <2>6. \A s \in flying : left[s] \in Seat /\ Travelled(left[s]) \in 0..MaxDistance
    BY <1>1, <2>2, TravelledType DEF SeatMap
  <2>. HIDE DEF flying, rank
  <2>7. \A s \in flying : place(s) \in Nat \ {0}
    BY <1>0, <2>5
  <2>8. \A s \in flying : x(s) \in Seat /\ x(s).finish.place = place(s)
    <3>. HIDE DEF place
    <3>1. clock \in (-Countdown)..(MaxRace + 1)
      BY DEF TypeOK
    <3>2. \A s \in flying : x(s) \in Seat
      BY <2>6, <2>7, <3>1, FinishType
    <3>3. \A s \in flying : x(s).finish.place = place(s)
      BY <2>6 DEF Seat
    <3>. QED  BY <3>2, <3>3
  <2>. HIDE DEF x
  <2>9. PlacesInv'
    <3>1. A \in SUBSET Unplaced(seats)
      BY <1>0, <2>2
    <3>2. f \in [A -> Nat]
      BY <1>3, <2>7
    <3>3. /\ \A s \in Abandoned : f[s] = AbandonedPlace(s)
          /\ \A s \in flying : f[s] = place(s)
      BY <2>3
    <3>4. awarded' = awarded \cup {<<s, f[s]>> : s \in A}
      BY <2>1, <3>3
    <3>. HIDE DEF f
    <3>5. \A s \in A : nextPlace <= f[s] /\ f[s] < nextPlace'
      <4>1. \A s \in Abandoned : nextPlace <= f[s] /\ f[s] < nextPlace'
        BY <1>0, <1>3, <2>1, <2>4, <3>3, AbandonedPlaces
      <4>2. \A s \in flying : nextPlace <= f[s] /\ f[s] < nextPlace'
        BY <1>0, <2>1, <2>4, <2>5, <3>3
      <4>. QED  BY <4>1, <4>2
    <3>6. \A s, t \in A : f[s] = f[t] => s = t
      <4>1. \A s, t \in Abandoned : f[s] = f[t] => s = t
        BY <3>3, AbandonedPlaces
      <4>2. \A s, t \in flying : f[s] = f[t] => s = t
        BY <1>0, <2>5, <3>3
      <4>3. \A s \in Abandoned, t \in flying : f[s] < f[t]
        <5>1. \A s \in Abandoned : f[s] < nextPlace + Cardinality(Abandoned)
          BY <3>3, AbandonedPlaces
        <5>2. \A t \in flying : nextPlace + Cardinality(Abandoned) <= f[t]
          BY <1>0, <2>5, <3>3
        <5>3. \A s \in A : f[s] \in Nat
          BY <3>2
        <5>. QED  BY <1>0, <5>1, <5>2, <5>3
      <4>4. \A s \in A : f[s] \in Nat
        BY <3>2
      <4>. QED  BY <4>1, <4>2, <4>3, <4>4
    <3>7. nextPlace' \in Nat /\ nextPlace <= nextPlace'
      BY <1>0, <2>1, <2>4
    <3>8. status' # "lobby" /\ DOMAIN seats' = {}
      BY <2>1 DEF CompleteRace, NoSeats
    <3>. HIDE DEF A
    <3>. QED  BY <3>1, <3>2, <3>4, <3>5, <3>6, <3>7, <3>8, AwardKeepsPlaces
  <2>10. ResultsAreAwarded'
    <3>1. SeatMap(ss, issued)
      BY <1>1, <2>8 DEF SeatMap
    <3>2. Unplaced(ss) = {}
      BY <2>7, <2>8, <1>1 DEF Unplaced, Placed, flying
    <3>3. ASSUME NEW s \in Placed(ss)
          PROVE  <<s, ss[s].finish.place>> \in awarded'
      <4>1. s \in DOMAIN left
        BY <3>3 DEF Placed
      <4>2. CASE s \in flying
        BY <2>1, <2>8, <4>1, <4>2
      <4>3. CASE s \notin flying
        <5>1. s \in Placed(seats) /\ ss[s] = seats[s]
          BY <1>1, <1>2, <4>1, <4>3 DEF flying, Unplaced
        <5>. QED  BY <2>1, <5>1 DEF PlacesInv
      <4>. QED  BY <4>2, <4>3
    <3>. HIDE DEF ss
    <3>. QED  BY <1>0, <2>1, <3>1, <3>2, <3>3, CompletionIsAwarded
  <2>. QED  BY <2>9, <2>10
<1>. QED  BY <1>4, <1>5

(***************************************************************************)
(* PlacesInv is inductive relative to TypeOK.  A step announces no place,  *)
(* or one (finish, leave), or those of a tick.                             *)
(***************************************************************************)

\* A new room has announced nothing.
LEMMA InitPlaces == Init => PlacesInv /\ ResultsAreAwarded
BY DEF Init, PlacesInv, PlacesUnique, Placed, NoSeats, ResultsAreAwarded

\* Every step keeps PlacesInv and publishes announced places only.
LEMMA NextPlaces ==
  ASSUME TypeOK, PlacesInv, ResultsAreAwarded, [Next]_vars
  PROVE  PlacesInv' /\ ResultsAreAwarded'
<1>0. /\ SeatMap(seats, issued) /\ issued \in Nat
      /\ \A s \in DOMAIN seats : seats[s] \in Seat
  BY SessionAssumption DEF TypeOK, SeatMap
<1>1. ASSUME awarded' = awarded, nextPlace' = nextPlace,
             status' = status, results' = results,
             \A s \in DOMAIN seats' :
               \/ s \in DOMAIN seats /\ seats'[s].finish = seats[s].finish
               \/ s \notin 1..issued /\ seats'[s].finish = NoFinish
      PROVE  PlacesInv' /\ ResultsAreAwarded'
  BY <1>1, QuietKeepsPlaces DEF ResultsAreAwarded
<1>2. ASSUME NEW s \in DOMAIN seats, NEW x, x.finish = seats[s].finish,
             seats' = [seats EXCEPT ![s] = x],
             UNCHANGED <<awarded, nextPlace, status, results>>
      PROVE  PlacesInv' /\ ResultsAreAwarded'
  BY <1>1, <1>2
<1>3. ASSUME NEW p \in Players, Arrive(p)
      PROVE  PlacesInv' /\ ResultsAreAwarded'
  <2>1. ASSUME NEW s \in DOMAIN seats, Reattach(s)
        PROVE  PlacesInv' /\ ResultsAreAwarded'
    <3>1. [seats[s] EXCEPT !.phase = "connected", !.silent = 0,
             !.gen = seats[s].gen + 1].finish = seats[s].finish
      BY <1>0 DEF Seat
    <3>. QED  BY <1>2, <2>1, <3>1 DEF Reattach
  <2>2. CASE JoinNew(p)
    <3>1. issued + 1 \notin 1..issued
      BY <1>0
    <3>2. \A s \in DOMAIN seats' :
            \/ s \in DOMAIN seats /\ seats'[s].finish = seats[s].finish
            \/ s \notin 1..issued /\ seats'[s].finish = NoFinish
      BY <2>2, <3>1 DEF JoinNew, WithSeat
    <3>. QED  BY <1>1, <2>2, <3>2 DEF JoinNew
  <2>3. CASE JoinExpired(p)
    <3>1. PICK s \in DOMAIN seats : seats' = WithSeat(Without(seats, {s}), issued + 1, p)
      BY <2>3 DEF JoinExpired, SeatsOf
    <3>2. /\ DOMAIN Without(seats, {s}) = DOMAIN seats \ {s}
          /\ \A t \in DOMAIN seats \ {s} : Without(seats, {s})[t] = seats[t]
      BY DEF Without, Restrict
    <3>3. issued + 1 \notin 1..issued
      BY <1>0
    <3>4. \A t \in DOMAIN seats' :
            \/ t \in DOMAIN seats /\ seats'[t].finish = seats[t].finish
            \/ t \notin 1..issued /\ seats'[t].finish = NoFinish
      BY <3>1, <3>2, <3>3 DEF WithSeat
    <3>. QED  BY <1>1, <2>3, <3>4 DEF JoinExpired
  <2>. QED  BY <1>3, <2>1, <2>2, <2>3 DEF Arrive, JoinExisting, JoinWithToken, SeatsOf
<1>4. ASSUME NEW ss, DOMAIN ss = DOMAIN seats, BeginCountdown(ss), status = "lobby",
             \A s \in DOMAIN seats : ss[s] \in Seat /\ ss[s].finish = seats[s].finish,
             UNCHANGED <<awarded, results>>
      PROVE  PlacesInv' /\ ResultsAreAwarded'
  <2>1. \A s \in DOMAIN seats : [ss[s] EXCEPT !.token = TRUE].finish = seats[s].finish
    BY <1>4 DEF Seat
  <2>2. \A s \in DOMAIN seats' : s \in DOMAIN seats /\ seats'[s].finish = seats[s].finish
    BY <1>4, <2>1 DEF BeginCountdown
  <2>3. awarded = {} /\ status' = "racing"
    BY <1>4 DEF BeginCountdown, PlacesInv
  <2>. QED  BY <1>4, <2>2, <2>3, QuietKeepsPlaces DEF ResultsAreAwarded
<1>5. ASSUME NEW s \in SeatIds, Pilot(s)
      PROVE  PlacesInv' /\ ResultsAreAwarded'
  <2>1. ASSUME NEW value \in BOOLEAN, Ready(s, value)
        PROVE  PlacesInv' /\ ResultsAreAwarded'
    <3>. DEFINE x  == [seats[s] EXCEPT !.ready = value]
                ss == [seats EXCEPT ![s] = x]
    <3>1. s \in DOMAIN seats /\ x.finish = seats[s].finish /\ x \in Seat
      BY <1>0, <2>1 DEF Ready, Seat
    <3>2. /\ status = "lobby" /\ UNCHANGED <<awarded, results>>
          /\ \/ BeginCountdown(ss)
             \/ seats' = ss /\ UNCHANGED <<status, nextPlace>>
      BY <2>1 DEF Ready
    <3>. HIDE DEF x
    <3>3. /\ DOMAIN ss = DOMAIN seats
          /\ \A t \in DOMAIN seats : ss[t] \in Seat /\ ss[t].finish = seats[t].finish
      BY <1>0, <3>1
    <3>4. CASE BeginCountdown(ss)
      <4>. HIDE DEF ss
      <4>. QED  BY <1>4, <3>2, <3>3, <3>4
    <3>5. CASE seats' = ss /\ UNCHANGED <<status, nextPlace>>
      BY <1>2, <3>1, <3>2, <3>5
    <3>. QED  BY <3>2, <3>4, <3>5
  <2>2. CASE Start(s)
    BY <1>0, <1>4, <2>2 DEF Start
  <2>3. CASE Cancel(s)
    <3>1. status' # "lobby" /\ status' # "finished" /\ DOMAIN seats' = {}
      BY <2>3 DEF Cancel, NoSeats
    <3>. QED  BY <2>3, <3>1, QuietKeepsPlaces DEF Cancel, ResultsAreAwarded
  <2>4. CASE LeaveFlying(s)
    <3>. DEFINE x == [seats[s] EXCEPT !.dnf = TRUE,
                        !.finish = [place |-> nextPlace, time |-> clock,
                                    dist |-> Travelled(seats[s])]]
    <3>1. /\ s \in Unplaced(seats) /\ s \in DOMAIN seats /\ status = "racing"
          /\ MaybeComplete([seats EXCEPT ![s] = x], {s})
          /\ nextPlace' = nextPlace + 1 /\ Award(s, nextPlace)
      BY <2>4 DEF LeaveFlying, StillFlying, Unplaced
    <3>2. x \in Seat
      BY <1>0, <3>1, FinishType, TravelledType DEF TypeOK
    <3>3. x.finish.place = nextPlace
      BY <1>0, <3>1 DEF Seat
    <3>. HIDE DEF x
    <3>. QED  BY <3>1, <3>2, <3>3, SingleAward
  <2>5. CASE LeaveIdle(s)
    <3>1. \A t \in DOMAIN seats' : t \in DOMAIN seats /\ seats'[t] = seats[t]
      BY <2>5 DEF LeaveIdle, Without, Restrict
    <3>. QED  BY <1>1, <2>5, <3>1 DEF LeaveIdle
  <2>6. CASE MarkDisconnected(s)
    <3>1. s \in DOMAIN seats /\ [seats[s] EXCEPT !.phase = "reconnecting",
             !.silent = 0, !.ready = FALSE].finish = seats[s].finish
      BY <1>0, <2>6 DEF Seat, MarkDisconnected, Connected
    <3>. QED  BY <1>2, <2>6, <3>1 DEF MarkDisconnected
  <2>7. CASE Poke(s)
    <3>1. s \in DOMAIN seats /\ [seats[s] EXCEPT !.silent = 0].finish = seats[s].finish
      BY <1>0, <2>7 DEF Seat, Poke
    <3>. QED  BY <1>2, <2>7, <3>1 DEF Poke
  <2>8. ASSUME NEW seq \in 1..MaxSeq, NEW dist \in NoState..MaxDistance, Input(s, seq, dist)
        PROVE  PlacesInv' /\ ResultsAreAwarded'
    <3>1. s \in DOMAIN seats /\ [seats[s] EXCEPT !.silent = 0, !.lastSeq = seq,
             !.dist = IF dist = NoState THEN @ ELSE dist].finish = seats[s].finish
      BY <1>0, <2>8 DEF Seat, Input
    <3>. QED  BY <1>2, <2>8, <3>1 DEF Input
  <2>9. ASSUME NEW seq \in 1..MaxSeq, Heartbeat(s, seq)
        PROVE  PlacesInv' /\ ResultsAreAwarded'
    <3>1. s \in DOMAIN seats
          /\ [seats[s] EXCEPT !.silent = 0, !.lastSeq = seq].finish = seats[s].finish
      BY <1>0, <2>9 DEF Seat, Heartbeat
    <3>. QED  BY <1>2, <2>9, <3>1 DEF Heartbeat
  <2>10. ASSUME NEW claimed \in 0..MaxDistance, Finish(s, claimed)
         PROVE  PlacesInv' /\ ResultsAreAwarded'
    <3>. DEFINE time == IF clock < 0 THEN 0 ELSE clock
                dist == Official(seats[s], claimed)
                x == [seats[s] EXCEPT !.finish = [place |-> nextPlace,
                                                  time |-> time, dist |-> dist]]
    <3>1. /\ s \in Unplaced(seats) /\ s \in DOMAIN seats /\ status = "racing"
          /\ MaybeComplete([seats EXCEPT ![s] = x], {})
          /\ nextPlace' = nextPlace + 1 /\ Award(s, nextPlace)
      BY <2>10 DEF Finish, StillFlying, Unplaced
    <3>2. time \in (-Countdown)..(MaxRace + 1) /\ dist \in 0..MaxDistance
      BY <1>0, <3>1, SessionAssumption DEF TypeOK, Seat, NoState, Official
    <3>. HIDE DEF time, dist
    <3>3. [place |-> nextPlace, time |-> time, dist |-> dist] \in Finishes
      BY <3>2 DEF Finishes, TypeOK
    <3>4. x \in Seat /\ x.finish.place = nextPlace
      BY <1>0, <3>1, <3>3 DEF Seat
    <3>. HIDE DEF x
    <3>. QED  BY <3>1, <3>4, SingleAward
  <2>. QED  BY <1>5, <2>1, <2>2, <2>3, <2>4, <2>5, <2>6, <2>7, <2>8, <2>9, <2>10 DEF Pilot
<1>6. CASE TickLobby
  <2>1. \A s \in DOMAIN seats' : s \in DOMAIN seats /\ seats'[s] = seats[s]
    BY <1>6 DEF TickLobby, Without, Restrict
  <2>2. status' \in {"lobby", "canceled"} /\ status = "lobby"
    BY <1>6 DEF TickLobby, LobbyStatus
  <2>. QED  BY <1>6, <2>1, <2>2, QuietKeepsPlaces DEF TickLobby, ResultsAreAwarded
<1>7. CASE TickRace \/ TickCap
  BY <1>7, TickAwards
<1>8. CASE Elapse
  <2>1. \A s \in DOMAIN seats :
          [seats[s] EXCEPT !.silent = IF @ > Grace THEN @ ELSE @ + 1].finish = seats[s].finish
    BY <1>0 DEF Seat
  <2>2. \A s \in DOMAIN seats' : s \in DOMAIN seats /\ seats'[s].finish = seats[s].finish
    BY <1>8, <2>1 DEF Elapse
  <2>. QED  BY <1>1, <1>8, <2>2 DEF Elapse
<1>9. CASE UNCHANGED vars
  BY <1>1, <1>9 DEF vars
<1>. QED  BY <1>3, <1>5, <1>6, <1>7, <1>8, <1>9 DEF Next, TickStep

\* PlacesInv holds of every reachable state.
LEMMA PlacesInductive == Spec => [](PlacesInv /\ ResultsAreAwarded)
<1>1. TypeOK /\ (PlacesInv /\ ResultsAreAwarded) /\ [Next]_vars
        => (PlacesInv /\ ResultsAreAwarded)'
  BY NextPlaces
<1>. QED  BY <1>1, InitPlaces, TypeCorrect, PTL DEF Spec

\* No two "finish" events of a race announce the same place, however many
\* pilots leave, time out, come back or are cut off by the race cap.
THEOREM PlacesCorrect == Spec => []PlacesUnique
<1>1. PlacesInv => PlacesUnique
  BY DEF PlacesInv
<1>. QED  BY <1>1, PlacesInductive, PTL

\* The standings of a finished race list only places the race announced.
THEOREM ResultsCorrect == Spec => []ResultsAreAwarded
BY PlacesInductive, PTL

(***************************************************************************)
(* What a step does to the seats.                                          *)
(***************************************************************************)

\* A seat of the next state that was there before, with its pilot, its
\* finish record and its DNF mark.
Kept(s) ==
  /\ s \in DOMAIN seats
  /\ seats'[s].player = seats[s].player
  /\ seats'[s].finish = seats[s].finish
  /\ seats'[s].dnf = seats[s].dnf

\* A record that differs in nothing Kept looks at.
LEMMA SameKeeps ==
  ASSUME NEW s \in DOMAIN seats, NEW x, seats' = [seats EXCEPT ![s] = x],
         x.player = seats[s].player, x.finish = seats[s].finish, x.dnf = seats[s].dnf
  PROVE  \A t \in DOMAIN seats' : Kept(t)
BY DEF Kept

\* The start of the countdown keeps every seat.
LEMMA StartKeeps ==
  ASSUME TypeOK, NEW ss, BeginCountdown(ss), DOMAIN ss = DOMAIN seats,
         \A s \in DOMAIN seats :
           /\ ss[s] \in Seat /\ ss[s].player = seats[s].player
           /\ ss[s].finish = seats[s].finish /\ ss[s].dnf = seats[s].dnf
  PROVE  \A s \in DOMAIN seats' : Kept(s)
<1>1. ASSUME NEW s \in DOMAIN seats
      PROVE  /\ [ss[s] EXCEPT !.token = TRUE].player = ss[s].player
             /\ [ss[s] EXCEPT !.token = TRUE].finish = ss[s].finish
             /\ [ss[s] EXCEPT !.token = TRUE].dnf = ss[s].dnf
  BY DEF Seat
<1>. QED  BY <1>1 DEF BeginCountdown, Kept

\* Only a new seat, a finish, a pilot flying who leaves and a racing tick do
\* anything but keep seats as they are or drop them.
LEMMA QuietSteps ==
  ASSUME TypeOK, [Next]_vars
  PROVE  \/ /\ \A s \in DOMAIN seats' : Kept(s)
            /\ \/ UNCHANGED <<status, results>> /\ clock <= clock'
               \/ status = "lobby" /\ status' # "finished"
               \/ status' = "canceled" /\ DOMAIN seats' = {}
         \/ \E p \in Players : JoinNew(p) \/ JoinExpired(p)
         \/ \E s \in SeatIds : LeaveFlying(s)
         \/ \E s \in SeatIds, claimed \in 0..MaxDistance : Finish(s, claimed)
         \/ TickRace
         \/ TickCap
<1>. DEFINE Quiet == /\ \A s \in DOMAIN seats' : Kept(s)
                     /\ \/ UNCHANGED <<status, results>> /\ clock <= clock'
                        \/ status = "lobby" /\ status' # "finished"
                        \/ status' = "canceled" /\ DOMAIN seats' = {}
            Loud == \/ \E p \in Players : JoinNew(p) \/ JoinExpired(p)
                    \/ \E s \in SeatIds : LeaveFlying(s)
                    \/ \E s \in SeatIds, claimed \in 0..MaxDistance : Finish(s, claimed)
                    \/ TickRace
                    \/ TickCap
<1>. SUFFICES Quiet \/ Loud
  OBVIOUS
<1>0. /\ clock \in Int
      /\ \A s \in DOMAIN seats : seats[s] \in Seat
      /\ "lobby" # "finished" /\ "racing" # "finished"
  BY SessionAssumption DEF TypeOK, SeatMap
<1>1. ASSUME \A s \in DOMAIN seats' : Kept(s), UNCHANGED <<status, results, clock>>
      PROVE  Quiet
  BY <1>0, <1>1
<1>2. ASSUME NEW s \in DOMAIN seats, Reattach(s)
      PROVE  Quiet
  <2>. DEFINE g == seats[s].gen + 1
              x == [seats[s] EXCEPT !.phase = "connected", !.silent = 0, !.gen = g]
  <2>1. x.player = seats[s].player /\ x.finish = seats[s].finish /\ x.dnf = seats[s].dnf
    BY <1>0 DEF Seat
  <2>2. seats' = [seats EXCEPT ![s] = x] /\ UNCHANGED <<status, results, clock>>
    BY <1>2 DEF Reattach
  <2>. HIDE DEF x, Quiet
  <2>. QED  BY <1>1, <2>1, <2>2, SameKeeps
<1>3. ASSUME NEW p \in Players, Arrive(p)
      PROVE  Quiet \/ Loud
  <2>1. JoinNew(p) \/ JoinExpired(p) => Loud
    OBVIOUS
  <2>2. JoinExisting(p) => Quiet
    BY <1>2 DEF JoinExisting, SeatsOf
  <2>3. ASSUME NEW s \in SeatIds, NEW gen \in 1..MaxGen, JoinWithToken(p, s, gen)
        PROVE  Quiet
    BY <1>2, <2>3 DEF JoinWithToken
  <2>. HIDE DEF Quiet, Loud
  <2>. QED  BY <1>3, <2>1, <2>2, <2>3 DEF Arrive
<1>4. ASSUME NEW s \in SeatIds, NEW value \in BOOLEAN, Ready(s, value)
      PROVE  Quiet
  <2>. DEFINE x  == [seats[s] EXCEPT !.ready = value]
              ss == [seats EXCEPT ![s] = x]
  <2>1. /\ s \in DOMAIN seats /\ x \in Seat
        /\ x.player = seats[s].player /\ x.finish = seats[s].finish /\ x.dnf = seats[s].dnf
    BY <1>0, <1>4 DEF Ready, Seat
  <2>2. /\ status = "lobby"
        /\ \/ BeginCountdown(ss)
           \/ seats' = ss /\ UNCHANGED status
    BY <1>4 DEF Ready
  <2>. HIDE DEF x
  <2>3. /\ DOMAIN ss = DOMAIN seats
        /\ \A t \in DOMAIN seats :
             /\ ss[t] \in Seat /\ ss[t].player = seats[t].player
             /\ ss[t].finish = seats[t].finish /\ ss[t].dnf = seats[t].dnf
    BY <1>0, <2>1
  <2>4. CASE BeginCountdown(ss)
    <3>. HIDE DEF ss
    <3>1. \A t \in DOMAIN seats' : Kept(t)
      BY <2>3, <2>4, StartKeeps
    <3>. QED  BY <1>0, <2>2, <2>4, <3>1 DEF BeginCountdown
  <2>5. CASE seats' = ss /\ UNCHANGED status
    <3>1. \A t \in DOMAIN seats' : Kept(t)
      BY <2>1, <2>5, SameKeeps
    <3>. QED  BY <1>0, <2>2, <2>5, <3>1
  <2>. QED  BY <2>2, <2>4, <2>5
<1>5. ASSUME NEW s \in SeatIds, Start(s)
      PROVE  Quiet
  <2>1. \A t \in DOMAIN seats' : Kept(t)
    BY <1>0, <1>5, StartKeeps DEF Start
  <2>. QED  BY <1>0, <1>5, <2>1 DEF Start, BeginCountdown
<1>6. ASSUME NEW s \in SeatIds, Cancel(s)
      PROVE  Quiet
  BY <1>6 DEF Cancel, NoSeats
<1>7. ASSUME NEW s \in SeatIds, LeaveIdle(s)
      PROVE  Quiet
  <2>1. \A t \in DOMAIN seats' : t \in DOMAIN seats /\ seats'[t] = seats[t]
    BY <1>7 DEF LeaveIdle, Without, Restrict
  <2>. QED  BY <1>1, <1>7, <2>1 DEF LeaveIdle, Kept
<1>8. ASSUME NEW s \in SeatIds, MarkDisconnected(s)
      PROVE  Quiet
  <2>. DEFINE x == [seats[s] EXCEPT !.phase = "reconnecting", !.silent = 0, !.ready = FALSE]
  <2>1. s \in DOMAIN seats
    BY <1>8 DEF MarkDisconnected, Connected
  <2>2. x.player = seats[s].player /\ x.finish = seats[s].finish /\ x.dnf = seats[s].dnf
    BY <1>0, <2>1 DEF Seat
  <2>3. seats' = [seats EXCEPT ![s] = x] /\ UNCHANGED <<status, results, clock>>
    BY <1>8 DEF MarkDisconnected
  <2>. HIDE DEF x, Quiet
  <2>. QED  BY <1>1, <2>1, <2>2, <2>3, SameKeeps
<1>9. ASSUME NEW s \in SeatIds, Poke(s)
      PROVE  Quiet
  <2>. DEFINE x == [seats[s] EXCEPT !.silent = 0]
  <2>1. s \in DOMAIN seats
    BY <1>9 DEF Poke
  <2>2. x.player = seats[s].player /\ x.finish = seats[s].finish /\ x.dnf = seats[s].dnf
    BY <1>0, <2>1 DEF Seat
  <2>3. seats' = [seats EXCEPT ![s] = x] /\ UNCHANGED <<status, results, clock>>
    BY <1>9 DEF Poke
  <2>. HIDE DEF x, Quiet
  <2>. QED  BY <1>1, <2>1, <2>2, <2>3, SameKeeps
<1>10. ASSUME NEW s \in SeatIds, NEW seq \in 1..MaxSeq, NEW dist \in NoState..MaxDistance,
              Input(s, seq, dist)
       PROVE  Quiet
  <2>. DEFINE x == [seats[s] EXCEPT !.silent = 0, !.lastSeq = seq,
                      !.dist = IF dist = NoState THEN @ ELSE dist]
  <2>1. s \in DOMAIN seats
    BY <1>10 DEF Input
  <2>2. x.player = seats[s].player /\ x.finish = seats[s].finish /\ x.dnf = seats[s].dnf
    BY <1>0, <2>1 DEF Seat
  <2>3. seats' = [seats EXCEPT ![s] = x] /\ UNCHANGED <<status, results, clock>>
    BY <1>10 DEF Input
  <2>. HIDE DEF x, Quiet
  <2>. QED  BY <1>1, <2>1, <2>2, <2>3, SameKeeps
<1>11. ASSUME NEW s \in SeatIds, NEW seq \in 1..MaxSeq, Heartbeat(s, seq)
       PROVE  Quiet
  <2>. DEFINE x == [seats[s] EXCEPT !.silent = 0, !.lastSeq = seq]
  <2>1. s \in DOMAIN seats
    BY <1>11 DEF Heartbeat
  <2>2. x.player = seats[s].player /\ x.finish = seats[s].finish /\ x.dnf = seats[s].dnf
    BY <1>0, <2>1 DEF Seat
  <2>3. seats' = [seats EXCEPT ![s] = x] /\ UNCHANGED <<status, results, clock>>
    BY <1>11 DEF Heartbeat
  <2>. HIDE DEF x, Quiet
  <2>. QED  BY <1>1, <2>1, <2>2, <2>3, SameKeeps
<1>12. CASE TickLobby
  <2>1. \A t \in DOMAIN seats' : t \in DOMAIN seats /\ seats'[t] = seats[t]
    BY <1>12 DEF TickLobby, Without, Restrict
  <2>2. status = "lobby" /\ status' # "finished"
    BY <1>12 DEF TickLobby, LobbyStatus
  <2>. QED  BY <2>1, <2>2 DEF Kept
<1>13. CASE Elapse
  <2>1. ASSUME NEW s \in DOMAIN seats
        PROVE  LET x == [seats[s] EXCEPT !.silent = IF @ > Grace THEN @ ELSE @ + 1]
               IN x.player = seats[s].player /\ x.finish = seats[s].finish /\ x.dnf = seats[s].dnf
    BY <1>0 DEF Seat
  <2>2. \A s \in DOMAIN seats' : Kept(s)
    BY <1>13, <2>1 DEF Elapse, Kept
  <2>. QED  BY <1>0, <1>13, <2>2 DEF Elapse
<1>14. CASE UNCHANGED vars
  BY <1>1, <1>14 DEF vars, Kept
<1>15. ASSUME NEW s \in SeatIds, Pilot(s)
       PROVE  Quiet \/ Loud
  <2>1. LeaveFlying(s) => Loud
    OBVIOUS
  <2>2. \A claimed \in 0..MaxDistance : Finish(s, claimed) => Loud
    OBVIOUS
  <2>. HIDE DEF Quiet, Loud
  <2>. QED  BY <1>4, <1>5, <1>6, <1>7, <1>8, <1>9, <1>10, <1>11, <1>15, <2>1, <2>2 DEF Pilot
<1>16. TickRace \/ TickCap => Loud
  OBVIOUS
<1>. HIDE DEF Quiet, Loud
<1>. QED  BY <1>3, <1>12, <1>13, <1>14, <1>15, <1>16 DEF Next, TickStep

(***************************************************************************)
(* One seat per player, final places and the grace window.                 *)
(***************************************************************************)

\* Every step but a join leaves the pilots of the live seats alone.
LEMMA OnlyJoinsSeat ==
  ASSUME TypeOK, [Next]_vars
  PROVE  \/ \A s \in DOMAIN seats' : s \in DOMAIN seats /\ seats'[s].player = seats[s].player
         \/ \E p \in Players : JoinNew(p) \/ JoinExpired(p)
<1>. DEFINE Fewer == \A s \in DOMAIN seats' :
                       s \in DOMAIN seats /\ seats'[s].player = seats[s].player
<1>0. SeatMap(seats, issued) /\ \A s \in DOMAIN seats : seats[s] \in Seat
  BY DEF TypeOK, SeatMap
<1>1. ASSUME NEW ss, CompleteRace(ss)
      PROVE  Fewer
  BY <1>1 DEF CompleteRace, NoSeats
<1>2. ASSUME NEW s \in DOMAIN seats, NEW x, x.player = seats[s].player, NEW left,
             MaybeComplete([seats EXCEPT ![s] = x], left)
      PROVE  Fewer
  <2>. DEFINE ss == [seats EXCEPT ![s] = x]
  <2>1. DOMAIN ss = DOMAIN seats /\ \A t \in DOMAIN seats : ss[t].player = seats[t].player
    BY <1>2
  <2>2. CompleteRace(ss) \/ seats' = Without(ss, left)
    BY <1>2 DEF MaybeComplete
  <2>. HIDE DEF ss
  <2>. QED  BY <1>1, <2>1, <2>2 DEF Without, Restrict
<1>3. ASSUME NEW s \in SeatIds, LeaveFlying(s)
      PROVE  Fewer
  <2>. DEFINE x == [seats[s] EXCEPT !.dnf = TRUE,
                      !.finish = [place |-> nextPlace, time |-> clock,
                                  dist |-> Travelled(seats[s])]]
  <2>1. s \in DOMAIN seats /\ MaybeComplete([seats EXCEPT ![s] = x], {s})
    BY <1>3 DEF LeaveFlying, StillFlying, Unplaced
  <2>2. x.player = seats[s].player
    BY <1>0, <2>1 DEF Seat
  <2>. HIDE DEF x, Fewer
  <2>. QED  BY <1>2, <2>1, <2>2
<1>4. ASSUME NEW s \in SeatIds, NEW claimed \in 0..MaxDistance, Finish(s, claimed)
      PROVE  Fewer
  <2>. DEFINE x == [seats[s] EXCEPT !.finish =
                      [place |-> nextPlace, time |-> IF clock < 0 THEN 0 ELSE clock,
                       dist |-> Official(seats[s], claimed)]]
  <2>1. s \in DOMAIN seats /\ MaybeComplete([seats EXCEPT ![s] = x], {})
    BY <1>4 DEF Finish, StillFlying, Unplaced
  <2>2. x.player = seats[s].player
    BY <1>0, <2>1 DEF Seat
  <2>. HIDE DEF x, Fewer
  <2>. QED  BY <1>2, <2>1, <2>2
<1>5. CASE TickRace
  <2>1. (\E ss : CompleteRace(ss)) \/ seats' = Without(seats, Abandoned)
    BY <1>5 DEF TickRace
  <2>. QED  BY <1>1, <2>1 DEF Without, Restrict
<1>6. CASE TickCap
  BY <1>1, <1>6 DEF TickCap
<1>7. (\A s \in DOMAIN seats' : Kept(s)) => Fewer
  BY DEF Kept
<1>. HIDE DEF Fewer
<1>8. (\E s \in SeatIds : LeaveFlying(s)) => Fewer
  BY <1>3
<1>9. (\E s \in SeatIds, claimed \in 0..MaxDistance : Finish(s, claimed)) => Fewer
  BY <1>4
<1>10. \/ Fewer
       \/ \E s \in SeatIds : LeaveFlying(s)
       \/ \E s \in SeatIds, claimed \in 0..MaxDistance : Finish(s, claimed)
       \/ TickRace
       \/ TickCap
       \/ \E p \in Players : JoinNew(p) \/ JoinExpired(p)
  <2>1. CASE \A s \in DOMAIN seats' : Kept(s)
    BY <1>7, <2>1
  <2>. QED  BY <2>1, QuietSteps
<1>11. CASE Fewer
  BY <1>11 DEF Fewer
<1>. QED  BY <1>5, <1>6, <1>8, <1>9, <1>10, <1>11

\* A new seat beside seats of other pilots, with room for one more.
LEMMA SeatedOnce ==
  ASSUME NEW n \in Nat, NEW ss, SeatMap(ss, n), NEW p \in Players, SeatsOf(ss, p) = {},
         Cardinality(DOMAIN ss) < Capacity, seats' = WithSeat(ss, n + 1, p),
         \A s, t \in DOMAIN ss : ss[s].player = ss[t].player => s = t
  PROVE  OneSeatPerPlayer'
<1>. DEFINE new == WithSeat(ss, n + 1, p)
<1>0. DOMAIN new = DOMAIN ss \cup {n + 1} /\ \A s \in DOMAIN ss : new[s] = ss[s]
  <2>1. n + 1 \notin DOMAIN ss
    BY DEF SeatMap
  <2>. QED  BY <2>1 DEF WithSeat
<1>1. DOMAIN seats' = DOMAIN ss \cup {n + 1} /\ \A s \in DOMAIN ss : seats'[s] = ss[s]
  <2>. HIDE DEF new
  <2>1. seats' = new
    BY DEF new
  <2>. QED  BY <1>0, <2>1
<1>2. seats'[n + 1].player = p /\ n + 1 \notin DOMAIN ss
  BY DEF WithSeat, SeatMap
<1>3. \A s \in DOMAIN ss : ss[s].player # p
  BY DEF SeatsOf
<1>4. \A s, t \in DOMAIN seats' : seats'[s].player = seats'[t].player => s = t
  BY <1>1, <1>2, <1>3
<1>5. Cardinality(DOMAIN seats') <= Capacity
  <2>1. IsFiniteSet(DOMAIN ss)
    BY SeatsAreFinite DEF SeatMap
  <2>2. Cardinality(DOMAIN seats') = Cardinality(DOMAIN ss) + 1 /\ Cardinality(DOMAIN ss) \in Nat
    BY <1>1, <1>2, <2>1, FS_AddElement, FS_CardinalityType
  <2>. QED  BY <2>2, SessionAssumption
<1>. QED  BY <1>4, <1>5 DEF OneSeatPerPlayer

\* However often a pilot joins, comes back or is dropped by the timeout, the
\* room holds one seat per player and never more than its capacity.
THEOREM SeatsCorrect == Spec => []OneSeatPerPlayer
<1>1. Init => OneSeatPerPlayer
  <2>1. Cardinality({}) = 0
    BY FS_EmptySet
  <2>2. Init => DOMAIN seats = {}
    BY DEF Init, NoSeats
  <2>. QED  BY <2>1, <2>2, SessionAssumption DEF OneSeatPerPlayer
<1>2. TypeOK /\ OneSeatPerPlayer /\ [Next]_vars => OneSeatPerPlayer'
  <2>. SUFFICES ASSUME TypeOK, OneSeatPerPlayer, [Next]_vars
                PROVE  OneSeatPerPlayer'
    OBVIOUS
  <2>0. SeatMap(seats, issued) /\ issued \in Nat /\ IsFiniteSet(DOMAIN seats)
    BY SessionAssumption, TickSets DEF TypeOK
  <2>1. CASE \A s \in DOMAIN seats' :
               s \in DOMAIN seats /\ seats'[s].player = seats[s].player
    <3>1. DOMAIN seats' \subseteq DOMAIN seats
      BY <2>1
    <3>2. /\ Cardinality(DOMAIN seats') <= Cardinality(DOMAIN seats)
          /\ Cardinality(DOMAIN seats') \in Nat /\ Cardinality(DOMAIN seats) \in Nat
      BY <2>0, <3>1, FS_Subset, FS_CardinalityType
    <3>. QED  BY <2>1, <3>2, SessionAssumption DEF OneSeatPerPlayer
  <2>2. ASSUME NEW p \in Players, JoinNew(p)
        PROVE  OneSeatPerPlayer'
    BY <2>0, <2>2, SeatedOnce DEF JoinNew, OneSeatPerPlayer
  <2>3. ASSUME NEW p \in Players, JoinExpired(p)
        PROVE  OneSeatPerPlayer'
    <3>1. PICK s \in SeatsOf(seats, p) :
             /\ Cardinality(DOMAIN seats \ {s}) < Capacity
             /\ seats' = WithSeat(Without(seats, {s}), issued + 1, p)
      BY <2>3 DEF JoinExpired
    <3>. DEFINE left == Without(seats, {s})
    <3>2. /\ SeatMap(left, issued) /\ DOMAIN left = DOMAIN seats \ {s}
          /\ \A t \in DOMAIN seats \ {s} : left[t] = seats[t]
      BY ZenonT(40), <2>0, WithoutType
    <3>3. s \in DOMAIN seats /\ seats[s].player = p
      BY DEF SeatsOf
    <3>. HIDE DEF left
    <3>4. /\ SeatsOf(left, p) = {}
          /\ \A t, u \in DOMAIN left : left[t].player = left[u].player => t = u
      BY <3>2, <3>3 DEF SeatsOf, OneSeatPerPlayer
    <3>. QED  BY <2>0, <3>1, <3>2, <3>4, SeatedOnce DEF left
  <2>. QED  BY <2>1, <2>2, <2>3, OnlyJoinsSeat
<1>. QED  BY <1>1, <1>2, TypeCorrect, PTL DEF Spec

\* A place announced for a seat stays that seat's record for as long as the
\* seat lives, whatever frames, reconnects and timeouts come.
THEOREM FinishesCorrect == Spec => FinishIsFinal
<1>1. TypeOK /\ [Next]_vars =>
        [\A s \in Placed(seats) : s \in DOMAIN seats' => seats'[s].finish = seats[s].finish]_vars
  <2>. SUFFICES ASSUME TypeOK, [Next]_vars, NEW s \in Placed(seats), s \in DOMAIN seats'
                PROVE  seats'[s].finish = seats[s].finish
    OBVIOUS
  <2>0. SeatMap(seats, issued) /\ issued \in Nat /\ s \in DOMAIN seats /\ s # issued + 1
    BY SessionAssumption DEF TypeOK, SeatMap, Placed
  <2>1. ASSUME NEW ss, CompleteRace(ss)
        PROVE  FALSE
    BY <2>1 DEF CompleteRace, NoSeats
  <2>2. ASSUME NEW t \in Unplaced(seats), NEW x, NEW left,
               MaybeComplete([seats EXCEPT ![t] = x], left)
        PROVE  seats'[s].finish = seats[s].finish
    <3>. DEFINE ss == [seats EXCEPT ![t] = x]
    <3>1. DOMAIN ss = DOMAIN seats /\ ss[s] = seats[s]
      BY <2>0, <2>2 DEF Unplaced
    <3>2. seats' = Without(ss, left)
      BY <2>1, <2>2 DEF MaybeComplete
    <3>. HIDE DEF ss
    <3>. QED  BY <3>1, <3>2 DEF Without, Restrict
  <2>3. CASE \A t \in DOMAIN seats' : Kept(t)
    BY <2>3 DEF Kept
  <2>4. CASE \E p \in Players : JoinNew(p) \/ JoinExpired(p)
    <3>1. PICK p \in Players : JoinNew(p) \/ JoinExpired(p)
      BY <2>4
    <3>2. CASE JoinNew(p)
      BY <2>0, <3>2 DEF JoinNew, WithSeat
    <3>3. CASE JoinExpired(p)
      BY <2>0, <3>3 DEF JoinExpired, WithSeat, Without, Restrict
    <3>. QED  BY <3>1, <3>2, <3>3
  <2>5. CASE \E t \in SeatIds : LeaveFlying(t)
    BY <2>2, <2>5 DEF LeaveFlying, StillFlying
  <2>6. CASE \E t \in SeatIds, claimed \in 0..MaxDistance : Finish(t, claimed)
    BY <2>2, <2>6 DEF Finish, StillFlying
  <2>7. CASE TickRace
    BY <2>1, <2>7 DEF TickRace, Without, Restrict
  <2>8. CASE TickCap
    BY <2>1, <2>8 DEF TickCap
  <2>. QED  BY <2>3, <2>4, <2>5, <2>6, <2>7, <2>8, QuietSteps
<1>. QED  BY <1>1, TypeCorrect, PTL DEF Spec, FinishIsFinal

\* A pilot whose socket dropped less than the grace window ago loses the seat
\* only by leaving or with the room.
THEOREM GraceCorrect == Spec => GraceIsHonoured
<1>1. TypeOK /\ [Next]_vars =>
        [\A s \in DOMAIN seats :
           (seats[s].silent <= Grace /\ s \notin DOMAIN seats') =>
              \/ status' \in {"finished", "canceled"}
              \/ LeaveFlying(s) \/ LeaveIdle(s)]_vars
  <2>. SUFFICES ASSUME TypeOK, [Next]_vars, NEW s \in DOMAIN seats,
                       seats[s].silent <= Grace, s \notin DOMAIN seats',
                       status' \notin {"finished", "canceled"}
                PROVE  LeaveFlying(s) \/ LeaveIdle(s)
    OBVIOUS
  <2>0. /\ SeatMap(seats, issued) /\ issued \in Nat
        /\ seats[s].silent \in Int /\ ~(seats[s].silent > Grace)
    <3>1. seats[s] \in Seat
      BY DEF TypeOK, SeatMap
    <3>. QED  BY <3>1, SessionAssumption DEF TypeOK, Seat
  <2>1. \A ss : ~CompleteRace(ss)
    BY DEF CompleteRace
  <2>2. ASSUME NEW t, NEW x, NEW left, left \subseteq {t},
               MaybeComplete([seats EXCEPT ![t] = x], left)
        PROVE  left = {t} /\ s = t
    <3>. DEFINE ss == [seats EXCEPT ![t] = x]
    <3>1. DOMAIN ss = DOMAIN seats /\ seats' = Without(ss, left)
      BY <2>1, <2>2 DEF MaybeComplete
    <3>. HIDE DEF ss
    <3>2. s \in left
      BY <3>1 DEF Without, Restrict
    <3>. QED  BY <2>2, <3>2
  <2>3. ASSUME NEW p \in Players, Arrive(p)
        PROVE  FALSE
    <3>1. CASE JoinNew(p)
      BY <3>1 DEF JoinNew, WithSeat
    <3>2. CASE JoinExpired(p)
      BY <2>0, <3>2 DEF JoinExpired, WithSeat, Without, Restrict
    <3>. QED  BY <2>3, <3>1, <3>2 DEF Arrive, JoinExisting, JoinWithToken, Reattach
  <2>4. ASSUME NEW t \in SeatIds, Pilot(t)
        PROVE  LeaveFlying(s) \/ LeaveIdle(s)
    <3>1. ASSUME NEW value \in BOOLEAN, Ready(t, value)
          PROVE  FALSE
      BY <3>1 DEF Ready, BeginCountdown
    <3>2. CASE Start(t)
      BY <3>2 DEF Start, BeginCountdown
    <3>3. CASE LeaveFlying(t)
      BY <2>2, <3>3 DEF LeaveFlying
    <3>4. CASE LeaveIdle(t)
      BY <3>4 DEF LeaveIdle, Without, Restrict
    <3>5. ASSUME NEW claimed \in 0..MaxDistance, Finish(t, claimed)
          PROVE  FALSE
      BY <2>2, <3>5 DEF Finish
    <3>. QED  BY <2>4, <3>1, <3>2, <3>3, <3>4, <3>5
              DEF Pilot, Cancel, MarkDisconnected, Poke, Input, Heartbeat
  <2>5. CASE TickStep
    BY <2>0, <2>1, <2>5
       DEF TickStep, TickLobby, TickRace, TickCap, Abandoned, Expired, Without, Restrict
  <2>6. CASE Elapse \/ UNCHANGED vars
    BY <2>6 DEF Elapse, vars
  <2>. QED  BY <2>3, <2>4, <2>5, <2>6 DEF Next
<1>. QED  BY <1>1, TypeCorrect, PTL DEF Spec, GraceIsHonoured

(***************************************************************************)
(* No gaps between the places, and no race without a pilot still flying.   *)
(***************************************************************************)

\* As many different places as the counter moves on are all the places it passes.
LEMMA AwardFills ==
  ASSUME nextPlace \in Nat \ {0}, PlacesDense, NEW A, NEW f \in [A -> Nat],
         NEW n \in Nat, Cardinality(A) = n, nextPlace' = nextPlace + n,
         \A s \in A : nextPlace <= f[s] /\ f[s] < nextPlace',
         \A s, t \in A : f[s] = f[t] => s = t,
         awarded' = awarded \cup {<<s, f[s]>> : s \in A}
  PROVE  PlacesDense'
<1>. DEFINE T == nextPlace .. (nextPlace + n - 1)
<1>1. IsFiniteSet(T) /\ Cardinality(T) = n
  <2>1. nextPlace \in Int /\ nextPlace + n - 1 \in Int
    OBVIOUS
  <2>2. IsFiniteSet(T) /\ Cardinality(T) = IF nextPlace > nextPlace + n - 1 THEN 0
                                           ELSE (nextPlace + n - 1) - nextPlace + 1
    BY <2>1, FS_Interval
  <2>. HIDE DEF T
  <2>. QED  BY <2>2
<1>2. f \in Injection(A, T)
  BY DEF Injection, IsInjective
<1>3. f \in Surjection(A, T)
  <2>. HIDE DEF T
  <2>. QED  BY <1>1, <1>2, FS_Injection
<1>4. \A k \in T : \E s \in A : f[s] = k
  BY <1>3 DEF Surjection
<1>5. \A s \in A : f[s] \in T
  BY <1>2 DEF Injection
<1>6. {a[2] : a \in awarded'} = {a[2] : a \in awarded} \cup T
  <2>. HIDE DEF T
  <2>1. \A s \in A : <<s, f[s]>> \in awarded' /\ <<s, f[s]>>[2] = f[s]
    OBVIOUS
  <2>2. ASSUME NEW a \in awarded' PROVE a \in awarded \/ a[2] \in T
    BY <1>5
  <2>3. ASSUME NEW k \in T PROVE k \in {a[2] : a \in awarded'}
    <3>1. PICK s \in A : f[s] = k
      BY <1>4
    <3>2. PICK a \in awarded' : a[2] = k
      BY <2>1, <3>1
    <3>. QED  BY <3>2
  <2>. QED  BY <2>2, <2>3
<1>7. (1..(nextPlace - 1)) \cup T = 1..(nextPlace' - 1)
  OBVIOUS
<1>. QED  BY <1>6, <1>7 DEF PlacesDense

\* What a racing tick announces: distinct places from the counter on, one for each seat it
\* gives up or cuts off.
LEMMA TickFills ==
  ASSUME TypeOK, PlacesDense, TickRace \/ TickCap PROVE PlacesDense'
<1>. DEFINE left == Without(seats, Abandoned)
<1>0. /\ SeatMap(seats, issued) /\ nextPlace \in Nat \ {0}
      /\ Abandoned \subseteq Unplaced(seats) /\ Cardinality(Abandoned) \in Nat
      /\ IsFiniteSet(Abandoned) /\ IsFiniteSet(DOMAIN seats)
  BY TickSets DEF TypeOK, Abandoned
<1>1. DOMAIN left = DOMAIN seats \ Abandoned
  BY <1>0, WithoutType
<1>2. \A s \in Abandoned : AbandonedPlace(s) \in Nat
  BY TickSets
<1>. HIDE DEF left
<1>3. CASE TickRace
  <2>. DEFINE f == [s \in Abandoned |-> AbandonedPlace(s)]
  <2>1. /\ nextPlace' = nextPlace + Cardinality(Abandoned)
        /\ awarded' = awarded \cup {<<s, AbandonedPlace(s)>> : s \in Abandoned}
    BY <1>3 DEF TickRace
  <2>2. f \in [Abandoned -> Nat] /\ \A s \in Abandoned : f[s] = AbandonedPlace(s)
    BY <1>2
  <2>3. awarded' = awarded \cup {<<s, f[s]>> : s \in Abandoned}
    BY <2>1
  <2>. HIDE DEF f
  <2>4. /\ \A s \in Abandoned : nextPlace <= f[s] /\ f[s] < nextPlace'
        /\ \A s, t \in Abandoned : f[s] = f[t] => s = t
    BY <2>1, <2>2, AbandonedPlaces
  <2>. QED  BY <1>0, <2>1, <2>2, <2>3, <2>4, AwardFills
<1>4. CASE TickCap
  <2>. DEFINE flying == Unplaced(left)
              rank(s) == Cardinality({t \in flying : AheadByDistance(seats, t, s)})
              place(s) == nextPlace + Cardinality(Abandoned) + rank(s)
              A  == Abandoned \cup flying
              f  == [s \in A |-> IF s \in Abandoned THEN AbandonedPlace(s) ELSE place(s)]
  <2>1. /\ nextPlace' = nextPlace + Cardinality(Abandoned) + Cardinality(flying)
        /\ awarded' = awarded
             \cup {<<s, AbandonedPlace(s)>> : s \in Abandoned}
             \cup {<<s, place(s)>> : s \in flying}
    BY <1>4 DEF TickCap, left
  <2>2. flying \in SUBSET DOMAIN seats /\ flying \cap Abandoned = {}
    BY <1>1 DEF Unplaced
  <2>3. IsFiniteSet(flying) /\ Cardinality(flying) \in Nat
    BY <1>0, <2>2, FS_Subset, FS_CardinalityType
  <2>. HIDE DEF flying
  <2>4. /\ \A s \in flying : rank(s) \in Nat /\ rank(s) < Cardinality(flying)
        /\ \A s, t \in flying : rank(s) = rank(t) => s = t
    BY <2>2, DistancePlaces
  <2>. HIDE DEF rank
  <2>5. \A s \in flying : place(s) \in Nat
    BY <1>0, <2>4
  <2>6. f \in [A -> Nat]
    BY <1>2, <2>5
  <2>7. /\ \A s \in Abandoned : f[s] = AbandonedPlace(s)
        /\ \A s \in flying : f[s] = place(s)
    BY <2>2
  <2>8. awarded' = awarded \cup {<<s, f[s]>> : s \in A}
    BY <2>1, <2>7
  <2>. HIDE DEF f
  <2>9. Cardinality(A) = Cardinality(Abandoned) + Cardinality(flying)
    <3>1. Cardinality(Abandoned \cap flying) = 0
      BY <2>2, FS_EmptySet
    <3>. QED  BY <1>0, <2>2, <2>3, <3>1, FS_Union
  <2>10. \A s \in Abandoned : nextPlace <= f[s] /\ f[s] < nextPlace + Cardinality(Abandoned)
    BY <2>7, AbandonedPlaces
  <2>11. \A s \in flying : /\ nextPlace + Cardinality(Abandoned) <= f[s]
                          /\ f[s] < nextPlace'
    BY <1>0, <2>1, <2>3, <2>4, <2>7
  <2>12. \A s \in A : nextPlace <= f[s] /\ f[s] < nextPlace'
    <3>1. \A s \in A : f[s] \in Nat
      BY <2>6
    <3>. QED  BY <1>0, <2>1, <2>3, <2>10, <2>11, <3>1
  <2>13. \A s, t \in A : f[s] = f[t] => s = t
    <3>1. \A s, t \in Abandoned : f[s] = f[t] => s = t
      BY <2>7, AbandonedPlaces
    <3>2. \A s, t \in flying : f[s] = f[t] => s = t
      BY <1>0, <2>4, <2>7
    <3>3. \A s \in A : f[s] \in Nat
      BY <2>6
    <3>4. \A s \in Abandoned, t \in flying : f[s] < f[t]
      BY <1>0, <2>10, <2>11, <3>3
    <3>. QED  BY <3>1, <3>2, <3>3, <3>4
  <2>14. Cardinality(A) \in Nat /\ nextPlace' = nextPlace + Cardinality(A)
    BY <1>0, <2>1, <2>3, <2>9
  <2>. HIDE DEF A
  <2>. QED  BY <1>0, <2>6, <2>8, <2>12, <2>13, <2>14, AwardFills
<1>. QED  BY <1>3, <1>4

\* A step that is none of these announces nothing; the counter moves only where a race
\* begins.
LEMMA QuietCounts ==
  ASSUME TypeOK, [Next]_vars
  PROVE  \/ /\ awarded' = awarded
            /\ nextPlace' = nextPlace \/ (status = "lobby" /\ nextPlace' = 1)
         \/ \E s \in SeatIds : LeaveFlying(s)
         \/ \E s \in SeatIds, claimed \in 0..MaxDistance : Finish(s, claimed)
         \/ TickRace \/ TickCap
<1>. DEFINE Quiet == /\ awarded' = awarded
                     /\ nextPlace' = nextPlace \/ (status = "lobby" /\ nextPlace' = 1)
            Loud == \/ \E s \in SeatIds : LeaveFlying(s)
                    \/ \E s \in SeatIds, claimed \in 0..MaxDistance : Finish(s, claimed)
                    \/ TickRace \/ TickCap
<1>1. ASSUME NEW p \in Players, Arrive(p) PROVE Quiet
  BY <1>1 DEF Arrive, JoinNew, JoinExisting, JoinExpired, JoinWithToken, Reattach
<1>2. ASSUME NEW s \in SeatIds, Pilot(s) PROVE Quiet \/ Loud
  <2>1. ASSUME NEW value \in BOOLEAN, Ready(s, value) PROVE Quiet
    BY <2>1 DEF Ready, BeginCountdown
  <2>2. CASE Start(s)
    BY <2>2 DEF Start, BeginCountdown
  <2>3. CASE Cancel(s) \/ LeaveIdle(s) \/ MarkDisconnected(s) \/ Poke(s)
    BY <2>3 DEF Cancel, LeaveIdle, MarkDisconnected, Poke
  <2>4. ASSUME NEW seq \in 1..MaxSeq, NEW dist \in NoState..MaxDistance, Input(s, seq, dist)
        PROVE  Quiet
    BY <2>4 DEF Input
  <2>5. ASSUME NEW seq \in 1..MaxSeq, Heartbeat(s, seq) PROVE Quiet
    BY <2>5 DEF Heartbeat
  <2>6. LeaveFlying(s) \/ (\E claimed \in 0..MaxDistance : Finish(s, claimed)) => Loud
    OBVIOUS
  <2>. HIDE DEF Quiet, Loud
  <2>. QED  BY <1>2, <2>1, <2>2, <2>3, <2>4, <2>5, <2>6 DEF Pilot
<1>3. TickLobby \/ Elapse \/ UNCHANGED vars => Quiet
  BY DEF TickLobby, Elapse, vars
<1>4. TickRace \/ TickCap => Loud
  OBVIOUS
<1>. HIDE DEF Quiet, Loud
<1>5. Quiet \/ Loud
  BY <1>1, <1>2, <1>3, <1>4 DEF Next, TickStep
<1>. QED  BY <1>5 DEF Quiet, Loud

\* The places announced are at every moment 1, 2, ... up to the counter: however pilots
\* finish, leave, time out or are cut off, no race shows a third place without a second.
THEOREM PlacesFill == Spec => []PlacesDense
<1>1. Init => PlacesDense
  BY DEF Init, PlacesDense
<1>2. TypeOK /\ PlacesInv /\ PlacesDense /\ [Next]_vars => PlacesDense'
  <2>. SUFFICES ASSUME TypeOK, PlacesInv, PlacesDense, [Next]_vars PROVE PlacesDense'
    OBVIOUS
  <2>0. nextPlace \in Nat \ {0}
    BY DEF TypeOK
  <2>1. CASE awarded' = awarded /\ nextPlace' = nextPlace
    BY <2>1 DEF PlacesDense
  <2>2. CASE awarded' = awarded /\ status = "lobby" /\ nextPlace' = 1
    BY <2>2 DEF PlacesDense, PlacesInv
  <2>3. ASSUME NEW s \in SeatIds, nextPlace' = nextPlace + 1, Award(s, nextPlace)
        PROVE  PlacesDense'
    <3>. DEFINE f == [t \in {s} |-> nextPlace]
    <3>1. f \in [{s} -> Nat] /\ f[s] = nextPlace /\ Cardinality({s}) = 1
      BY <2>0, FS_Singleton
    <3>2. awarded' = awarded \cup {<<t, f[t]>> : t \in {s}}
      BY <2>3 DEF Award
    <3>3. \A t \in {s} : nextPlace <= f[t] /\ f[t] < nextPlace'
      BY <2>0, <2>3
    <3>4. \A t, u \in {s} : f[t] = f[u] => t = u
      OBVIOUS
    <3>. HIDE DEF f
    <3>. QED  BY <2>0, <2>3, <3>1, <3>2, <3>3, <3>4, AwardFills
  <2>. QED  BY <2>1, <2>2, <2>3, QuietCounts, TickFills DEF LeaveFlying, Finish
<1>. QED  BY <1>1, <1>2, TypeCorrect, PlacesInductive, PTL DEF Spec

\* A pilot who flies on keeps the seat, except by an expired join or by what gives a place.
LEMMA FlyingStay ==
  ASSUME TypeOK, [Next]_vars, status = "racing", status' = "racing", NEW u \in Unplaced(seats)
  PROVE  \/ u \in DOMAIN seats'
         \/ \E p \in Players : JoinExpired(p)
         \/ \E s \in SeatIds : LeaveFlying(s)
         \/ TickRace
<1>. DEFINE Loud == \/ \E p \in Players : JoinExpired(p)
                    \/ \E s \in SeatIds : LeaveFlying(s)
                    \/ TickRace
<1>0. u \in DOMAIN seats /\ u \notin Placed(seats)
  BY DEF Unplaced
<1>1. ASSUME NEW p \in Players, Arrive(p) PROVE u \in DOMAIN seats' \/ Loud
  <2>1. JoinExpired(p) => Loud
    OBVIOUS
  <2>2. (\E s : Reattach(s)) => u \in DOMAIN seats'
    BY <1>0 DEF Reattach
  <2>3. JoinNew(p) => u \in DOMAIN seats'
    BY <1>0 DEF JoinNew, WithSeat
  <2>. HIDE DEF Loud
  <2>. QED  BY <1>1, <2>1, <2>2, <2>3 DEF Arrive, JoinExisting, JoinWithToken
<1>2. ASSUME NEW s \in SeatIds, Pilot(s) PROVE u \in DOMAIN seats' \/ Loud
  <2>1. LeaveFlying(s) => Loud
    OBVIOUS
  <2>2. ASSUME NEW value \in BOOLEAN PROVE ~Ready(s, value)
    BY DEF Ready
  <2>3. ~Start(s) /\ ~Cancel(s)
    BY DEF Start, Cancel
  <2>4. LeaveIdle(s) => u \in DOMAIN seats'
    BY <1>0 DEF LeaveIdle, Without, Restrict
  <2>5. MarkDisconnected(s) \/ Poke(s) => u \in DOMAIN seats'
    BY <1>0 DEF MarkDisconnected, Poke
  <2>6. ASSUME NEW seq \in 1..MaxSeq, NEW dist \in NoState..MaxDistance, Input(s, seq, dist)
        PROVE  u \in DOMAIN seats'
    BY <1>0, <2>6 DEF Input
  <2>7. ASSUME NEW seq \in 1..MaxSeq, Heartbeat(s, seq) PROVE u \in DOMAIN seats'
    BY <1>0, <2>7 DEF Heartbeat
  <2>8. ASSUME NEW claimed \in 0..MaxDistance, Finish(s, claimed) PROVE u \in DOMAIN seats'
    <3>. DEFINE ss == [seats EXCEPT ![s] = [seats[s] EXCEPT !.finish =
                  [place |-> nextPlace, time |-> IF clock < 0 THEN 0 ELSE clock,
                   dist |-> Official(seats[s], claimed)]]]
    <3>1. MaybeComplete(ss, {}) /\ DOMAIN ss = DOMAIN seats
      BY <2>8 DEF Finish
    <3>. HIDE DEF ss
    <3>2. seats' = Without(ss, {})
      BY <3>1 DEF MaybeComplete, CompleteRace
    <3>. QED  BY <1>0, <3>1, <3>2 DEF Without, Restrict
  <2>. HIDE DEF Loud
  <2>. QED  BY <1>2, <2>1, <2>2, <2>3, <2>4, <2>5, <2>6, <2>7, <2>8 DEF Pilot
<1>3. ~TickLobby /\ ~TickCap
  BY DEF TickLobby, TickCap, CompleteRace
<1>4. Elapse \/ UNCHANGED vars => u \in DOMAIN seats'
  BY <1>0 DEF Elapse, vars
<1>5. TickRace => Loud
  OBVIOUS
<1>. HIDE DEF Loud
<1>6. u \in DOMAIN seats' \/ Loud
  BY <1>1, <1>2, <1>3, <1>4, <1>5 DEF Next, TickStep
<1>. QED  BY <1>6 DEF Loud

\* While a race is under way and pilots are seated, one of them is still to get a place:
\* every way a flying pilot gets one or goes looks whether the race is over (maybeComplete,
\* tickStep).
THEOREM RacesDoEnd == Spec => []RaceNeverLingers
<1>1. Init => RaceNeverLingers
  BY DEF Init, RaceNeverLingers
<1>2. TypeOK /\ PlacesInv /\ RaceNeverLingers /\ [Next]_vars => RaceNeverLingers'
  <2>. SUFFICES ASSUME TypeOK, PlacesInv, RaceNeverLingers, [Next]_vars,
                       status' = "racing", DOMAIN seats' # {}
                PROVE  \E u \in DOMAIN seats' : seats'[u].finish.place = 0
    BY DEF RaceNeverLingers, Unplaced, Placed
  <2>0. /\ SeatMap(seats, issued) /\ issued \in Nat /\ nextPlace \in Nat \ {0}
        /\ \A s \in DOMAIN seats : seats[s] \in Seat
    BY SessionAssumption DEF TypeOK, SeatMap
  <2>1. ASSUME NEW p \in Players, JoinNew(p) \/ JoinExpired(p)
        PROVE  \E u \in DOMAIN seats' : seats'[u].finish.place = 0
    <3>1. PICK ss : seats' = WithSeat(ss, issued + 1, p)
      BY <2>1 DEF JoinNew, JoinExpired
    <3>2. issued + 1 \in DOMAIN seats' /\ seats'[issued + 1].finish.place = 0
      BY <3>1 DEF WithSeat, NoFinish
    <3>. QED  BY <3>2
  <2>2. ASSUME NEW ss, NEW gone, DOMAIN ss # {}, ~AllDone(ss), seats' = Without(ss, gone),
               \A s \in gone : s \in DOMAIN ss => ss[s].finish.place # 0
        PROVE  \E u \in DOMAIN seats' : seats'[u].finish.place = 0
    <3>1. PICK u \in DOMAIN ss : ss[u].finish.place = 0
      BY <2>2 DEF AllDone, Unplaced, Placed
    <3>2. u \in DOMAIN seats' /\ seats'[u] = ss[u]
      BY <2>2, <3>1 DEF Without, Restrict
    <3>. QED  BY <3>1, <3>2
  <2>3. ASSUME NEW s \in SeatIds, LeaveFlying(s)
        PROVE  \E u \in DOMAIN seats' : seats'[u].finish.place = 0
    <3>. DEFINE x  == [seats[s] EXCEPT !.dnf = TRUE,
                         !.finish = [place |-> nextPlace, time |-> clock,
                                     dist |-> Travelled(seats[s])]]
                ss == [seats EXCEPT ![s] = x]
    <3>1. s \in DOMAIN seats /\ MaybeComplete(ss, {s})
      BY <2>3 DEF LeaveFlying, StillFlying, Unplaced
    <3>2. x.finish.place # 0
      BY <2>0, <3>1 DEF Seat
    <3>. HIDE DEF x
    <3>3. DOMAIN ss # {} /\ ss[s].finish.place # 0
      BY <3>1, <3>2
    <3>. HIDE DEF ss
    <3>4. ~AllDone(ss) /\ seats' = Without(ss, {s})
      BY <3>1 DEF MaybeComplete, CompleteRace
    <3>. QED  BY <2>2, <3>3, <3>4
  <2>4. ASSUME NEW s \in SeatIds, NEW claimed \in 0..MaxDistance, Finish(s, claimed)
        PROVE  \E u \in DOMAIN seats' : seats'[u].finish.place = 0
    <3>. DEFINE ss == [seats EXCEPT ![s] = [seats[s] EXCEPT !.finish =
                  [place |-> nextPlace, time |-> IF clock < 0 THEN 0 ELSE clock,
                   dist |-> Official(seats[s], claimed)]]]
    <3>1. MaybeComplete(ss, {}) /\ DOMAIN ss = DOMAIN seats /\ s \in DOMAIN seats
      BY <2>4 DEF Finish, StillFlying, Unplaced
    <3>. HIDE DEF ss
    <3>2. ~AllDone(ss) /\ seats' = Without(ss, {})
      BY <3>1 DEF MaybeComplete, CompleteRace
    <3>. QED  BY <2>2, <3>1, <3>2
  <2>5. CASE TickRace
    <3>. DEFINE ss == Without(seats, Abandoned)
    <3>1. /\ seats' = ss /\ status = "racing"
          /\ Abandoned = {} \/ ~AllDone(ss)
      BY <2>5 DEF TickRace, CompleteRace
    <3>2. CASE Abandoned = {}
      <4>1. DOMAIN ss = DOMAIN seats /\ \A s \in DOMAIN seats : ss[s] = seats[s]
        BY <3>2 DEF Without, Restrict
      <4>. HIDE DEF ss
      <4>. QED  BY <3>1, <4>1 DEF RaceNeverLingers, Unplaced, Placed
    <3>3. CASE ~AllDone(ss)
      BY <3>1, <3>3 DEF AllDone, Unplaced, Placed
    <3>. QED  BY <3>1, <3>2, <3>3
  <2>6. ~TickCap
    BY DEF TickCap, CompleteRace
  <2>7. CASE /\ \A s \in DOMAIN seats' : Kept(s)
             /\ status = "racing" \/ status = "lobby"
    <3>1. CASE status = "racing"
      <4>1. PICK u : u \in Unplaced(seats)
        BY <2>7, <3>1 DEF RaceNeverLingers, Kept
      <4>2. u \in DOMAIN seats' => seats'[u].finish.place = 0
        BY <2>7, <4>1 DEF Kept, Unplaced, Placed
      <4>. QED  BY <2>1, <2>3, <2>5, <3>1, <4>1, <4>2, FlyingStay
    <3>2. CASE status = "lobby"
      <4>1. \A s \in DOMAIN seats : seats[s].finish.place = 0
        BY <3>2 DEF PlacesInv, Placed
      <4>. QED  BY <2>7, <4>1 DEF Kept
    <3>. QED  BY <2>7, <3>1, <3>2
  <2>. QED  BY <2>1, <2>3, <2>4, <2>5, <2>6, <2>7, QuietSteps
<1>. QED  BY <1>1, <1>2, TypeCorrect, PlacesInductive, PTL DEF Spec

(***************************************************************************)
(* The order of the published standings.                                   *)
(***************************************************************************)

\* The time a finish would be recorded with now.
RaceTime == IF clock < 0 THEN 0 ELSE clock

\* Why places and times agree: who is seated has not given up, nobody has a
\* time still to come, and a better place was taken no later.
OrderInv ==
  /\ \A s \in DOMAIN seats : ~seats[s].dnf
  /\ \A s \in Placed(seats) : seats[s].finish.time <= RaceTime
  /\ \A s, t \in Placed(seats) :
       seats[s].finish.place < seats[t].finish.place =>
         seats[s].finish.time <= seats[t].finish.time
  /\ ResultsInPlaceOrder

\* Standings in which every seat has a place list the places in order, if
\* the finishers took theirs in the order of their times, before everybody
\* else, and the others by distance.
LEMMA StandingsOrder ==
  ASSUME NEW n \in Nat, NEW ss, SeatMap(ss, n), Unplaced(ss) = {},
         NEW Fin, Fin = {s \in Placed(ss) : ~ss[s].dnf},
         NEW Rest, Rest = DOMAIN ss \ Fin,
         \A s, t \in Fin : ss[s].finish.place < ss[t].finish.place
                             => ss[s].finish.time <= ss[t].finish.time,
         \A s \in Rest, t \in Fin : ss[t].finish.place < ss[s].finish.place,
         \A s, t \in Rest : ss[s].finish.place < ss[t].finish.place =>
           Cardinality({u \in Rest : AheadByDistance(ss, u, s)})
             < Cardinality({u \in Rest : AheadByDistance(ss, u, t)})
  PROVE  LET rows == Standings(ss)
         IN \A s, t \in DOMAIN rows : rows[s].place < rows[t].place =>
              \/ rows[s].pos < rows[t].pos
              \/ rows[s].time = rows[t].time /\ rows[s].dnf = rows[t].dnf
<1>. DEFINE InFin(s)  == {t \in Fin : AheadByTime(ss, t, s)}
            InRest(s) == {t \in Rest : AheadByDistance(ss, t, s)}
            Pos(s) == IF s \in Fin THEN 1 + Cardinality(InFin(s))
                      ELSE 1 + Cardinality(Fin) + Cardinality(InRest(s))
            RowOf(s) == [player |-> ss[s].player, pos |-> Pos(s),
                         place |-> IF s \in Placed(ss) THEN ss[s].finish.place
                                                       ELSE Pos(s),
                         time |-> ss[s].finish.time, dnf |-> s \in Rest]
            rows == Standings(ss)
<1>1. rows = [s \in DOMAIN ss |-> RowOf(s)]
  BY DEF Standings
<1>2. /\ IsFiniteSet(DOMAIN ss) /\ DOMAIN ss \in SUBSET Nat
      /\ \A s \in DOMAIN ss : ss[s].finish.time \in Int /\ ss[s].finish.place \in Int
  <2>1. \A s \in DOMAIN ss : ss[s] \in Seat
    BY DEF SeatMap
  <2>. QED  BY <2>1, SeatsAreFinite, SessionAssumption DEF SeatMap, Seat, Finishes
<1>3. /\ Fin \subseteq DOMAIN ss /\ Rest \subseteq DOMAIN ss /\ Placed(ss) = DOMAIN ss
      /\ DOMAIN ss = Fin \cup Rest /\ \A s \in Rest : s \notin Fin
  BY DEF Placed, Unplaced
<1>4. /\ IsFiniteSet(Fin) /\ IsFiniteSet(Rest) /\ Cardinality(Fin) \in Nat
  BY <1>2, <1>3, FS_Subset, FS_CardinalityType
<1>5. \A s : InFin(s) \subseteq Fin /\ InRest(s) \subseteq Rest
  OBVIOUS
<1>6. \A s : /\ IsFiniteSet(InFin(s)) /\ Cardinality(InFin(s)) \in Nat
             /\ Cardinality(InRest(s)) \in Nat
  BY <1>4, <1>5, FS_Subset, FS_CardinalityType
<1>7. ASSUME NEW s \in Fin, NEW t \in Fin, ss[s].finish.time < ss[t].finish.time
      PROVE  Cardinality(InFin(s)) < Cardinality(InFin(t))
  <2>1. s \in InFin(t) /\ s \notin InFin(s)
    BY <1>2, <1>3, <1>7 DEF AheadByTime
  <2>2. \A u \in InFin(s) : u \in InFin(t)
    BY <1>2, <1>3, <1>7 DEF AheadByTime
  <2>. HIDE DEF InFin
  <2>. QED  BY <1>6, <2>1, <2>2, StrictSubset
<1>8. ASSUME NEW s \in Fin
      PROVE  Cardinality(InFin(s)) < Cardinality(Fin)
  <2>1. s \notin InFin(s)
    BY <1>2, <1>3 DEF AheadByTime
  <2>. HIDE DEF InFin
  <2>. QED  BY <1>4, <1>5, <2>1, StrictSubset
<1>9. \A s, t \in Rest : ss[s].finish.place < ss[t].finish.place
                           => Cardinality(InRest(s)) < Cardinality(InRest(t))
  OBVIOUS
<1>10. /\ \A s \in Fin : Pos(s) = 1 + Cardinality(InFin(s))
       /\ \A s \in Rest : Pos(s) = 1 + Cardinality(Fin) + Cardinality(InRest(s))
  BY <1>3
<1>11. \A s \in DOMAIN ss : /\ RowOf(s).place = ss[s].finish.place
                            /\ RowOf(s).pos = Pos(s)
                            /\ RowOf(s).time = ss[s].finish.time
                            /\ RowOf(s).dnf = (s \in Rest)
  <2>. HIDE DEF Pos
  <2>. QED  BY <1>3
<1>. HIDE DEF RowOf, Pos, InFin, InRest, rows
<1>12. DOMAIN rows = DOMAIN ss /\ \A s \in DOMAIN ss : rows[s] = RowOf(s)
  BY <1>1
<1>13. ASSUME NEW s \in DOMAIN ss, NEW t \in DOMAIN ss,
              ss[s].finish.place < ss[t].finish.place
       PROVE  \/ Pos(s) < Pos(t)
              \/ ss[s].finish.time = ss[t].finish.time /\ (s \in Rest) = (t \in Rest)
  <2>1. CASE s \in Fin /\ t \in Fin
    <3>1. ss[s].finish.time <= ss[t].finish.time
      BY <1>13, <2>1
    <3>2. CASE ss[s].finish.time = ss[t].finish.time
      BY <1>3, <2>1, <3>2
    <3>3. CASE ss[s].finish.time < ss[t].finish.time
      <4>1. Cardinality(InFin(s)) < Cardinality(InFin(t))
        BY <1>7, <2>1, <3>3
      <4>. QED  BY <1>6, <1>10, <2>1, <4>1
    <3>. QED  BY <1>2, <3>1, <3>2, <3>3
  <2>2. CASE s \in Fin /\ t \in Rest
    <3>1. Cardinality(InFin(s)) < Cardinality(Fin)
      BY <1>8, <2>2
    <3>. QED  BY <1>4, <1>6, <1>10, <2>2, <3>1
  <2>3. CASE s \in Rest /\ t \in Fin
    BY <1>2, <1>13, <2>3
  <2>4. CASE s \in Rest /\ t \in Rest
    <3>1. Cardinality(InRest(s)) < Cardinality(InRest(t))
      BY <1>9, <1>13, <2>4
    <3>. QED  BY <1>4, <1>6, <1>10, <2>4, <3>1
  <2>. QED  BY <1>3, <2>1, <2>2, <2>3, <2>4
<1>14. ASSUME NEW s \in DOMAIN rows, NEW t \in DOMAIN rows, rows[s].place < rows[t].place
       PROVE  \/ rows[s].pos < rows[t].pos
              \/ rows[s].time = rows[t].time /\ rows[s].dnf = rows[t].dnf
  <2>1. /\ s \in DOMAIN ss /\ t \in DOMAIN ss
        /\ rows[s] = RowOf(s) /\ rows[t] = RowOf(t)
    BY <1>12
  <2>2. ss[s].finish.place < ss[t].finish.place
    BY <1>11, <1>14, <2>1
  <2>. QED  BY <1>11, <1>13, <2>1, <2>2
<1>. QED  BY <1>14 DEF rows

\* A completion publishes the standings of a seat map in which every seat has
\* a place; nobody is seated afterwards.
LEMMA CompletionInOrder ==
  ASSUME NEW n \in Nat, NEW ss, SeatMap(ss, n), Unplaced(ss) = {}, CompleteRace(ss),
         NEW Rest, Rest = {s \in DOMAIN ss : ss[s].dnf},
         \A s, t \in DOMAIN ss \ Rest : ss[s].finish.place < ss[t].finish.place
                                          => ss[s].finish.time <= ss[t].finish.time,
         \A s \in Rest, t \in DOMAIN ss \ Rest : ss[t].finish.place < ss[s].finish.place,
         \A s, t \in Rest : ss[s].finish.place < ss[t].finish.place =>
           Cardinality({u \in Rest : AheadByDistance(ss, u, s)})
             < Cardinality({u \in Rest : AheadByDistance(ss, u, t)})
  PROVE  OrderInv'
<1>1. DOMAIN seats' = {} /\ Placed(seats') = {} /\ results' = Standings(ss)
  BY DEF CompleteRace, NoSeats, Placed
<1>2. PICK Fin : Fin = {s \in Placed(ss) : ~ss[s].dnf}
  OBVIOUS
<1>. DEFINE rows == Standings(ss)
<1>3. \A s, t \in DOMAIN rows : rows[s].place < rows[t].place =>
        \/ rows[s].pos < rows[t].pos
        \/ rows[s].time = rows[t].time /\ rows[s].dnf = rows[t].dnf
  <2>1. Fin = DOMAIN ss \ Rest /\ Rest = DOMAIN ss \ Fin
    BY <1>2 DEF Placed, Unplaced
  <2>2. /\ \A s, t \in Fin : ss[s].finish.place < ss[t].finish.place
                               => ss[s].finish.time <= ss[t].finish.time
        /\ \A s \in Rest, t \in Fin : ss[t].finish.place < ss[s].finish.place
    BY <2>1
  <2>. QED  BY <1>2, <2>1, <2>2, StandingsOrder
<1>4. ResultsInPlaceOrder'
  <2>. HIDE DEF rows
  <2>1. results' = rows
    BY <1>1 DEF rows
  <2>. QED  BY <1>3, <2>1 DEF ResultsInPlaceOrder
<1>. QED  BY <1>1, <1>4 DEF OrderInv

\* A step that completes nothing keeps the order if the seats it leaves keep
\* their records, the seats it adds have none, and the clock does not go
\* back while somebody has a place.
LEMMA QuietKeepsOrder ==
  ASSUME TypeOK, OrderInv, Placed(seats) = {} \/ clock <= clock', clock' \in Int,
         \A s \in DOMAIN seats' :
           \/ Kept(s)
           \/ seats'[s].finish = NoFinish /\ ~seats'[s].dnf,
         status' # "finished" \/ UNCHANGED <<status, results>>
  PROVE  OrderInv'
<1>1. \A s \in Placed(seats') : Kept(s) /\ s \in Placed(seats)
  BY DEF Placed, NoFinish, Kept
<1>2. Placed(seats) # {} => RaceTime <= RaceTime' /\ RaceTime \in Int /\ RaceTime' \in Int
  BY SessionAssumption DEF TypeOK, RaceTime
<1>3. \A s \in Placed(seats) : seats[s].finish.time \in Int
  BY SessionAssumption DEF TypeOK, SeatMap, Seat, Finishes, Placed
<1>4. \A s \in Placed(seats') : seats'[s].finish.time <= RaceTime'
  <2>. SUFFICES ASSUME NEW s \in Placed(seats')
                PROVE  seats'[s].finish.time <= RaceTime'
    OBVIOUS
  <2>1. s \in Placed(seats) /\ seats'[s].finish = seats[s].finish
    BY <1>1 DEF Kept
  <2>2. seats[s].finish.time <= RaceTime
    BY <2>1 DEF OrderInv
  <2>. QED  BY <1>2, <1>3, <2>1, <2>2
<1>5. \A s, t \in Placed(seats') :
        seats'[s].finish.place < seats'[t].finish.place =>
          seats'[s].finish.time <= seats'[t].finish.time
  BY <1>1 DEF OrderInv, Kept
<1>6. \A s \in DOMAIN seats' : ~seats'[s].dnf
  BY DEF OrderInv, Kept
<1>7. ResultsInPlaceOrder'
  BY DEF OrderInv, ResultsInPlaceOrder
<1>. QED  BY <1>4, <1>5, <1>6, <1>7 DEF OrderInv

\* Every place in the room is behind the counter.
LEMMA PlacesBehindCounter ==
  ASSUME TypeOK, PlacesInv
  PROVE  \A s \in Placed(seats) : /\ seats[s].finish.place < nextPlace
                                  /\ seats[s].finish.place \in Int
                                  /\ seats[s].finish.time \in Int
<1>1. \A s \in Placed(seats) : seats[s] \in Seat
  BY DEF Placed, TypeOK, SeatMap
<1>2. \A s \in Placed(seats) : seats[s].finish.place < nextPlace
  <2>. SUFFICES ASSUME NEW s \in Placed(seats)
                PROVE  seats[s].finish.place < nextPlace
    OBVIOUS
  <2>1. PICK a \in awarded : a = <<s, seats[s].finish.place>>
    BY DEF PlacesInv
  <2>2. a[2] < nextPlace
    BY DEF PlacesInv
  <2>. QED  BY <2>1, <2>2
<1>. QED  BY <1>1, <1>2, SessionAssumption DEF Seat, Finishes

\* finish() takes the next place with the current time.
LEMMA FinishKeepsOrder ==
  ASSUME TypeOK, PlacesInv, OrderInv, NEW s \in SeatIds,
         NEW claimed \in 0..MaxDistance, Finish(s, claimed)
  PROVE  OrderInv'
<1>. DEFINE dist == Official(seats[s], claimed)
            x == [seats[s] EXCEPT !.finish = [place |-> nextPlace, time |-> RaceTime,
                                              dist |-> dist]]
            ss == [seats EXCEPT ![s] = x]
<1>1. /\ s \in DOMAIN seats /\ s \notin Placed(seats) /\ seats[s] \in Seat
      /\ SeatMap(seats, issued) /\ issued \in Nat
      /\ nextPlace \in Nat /\ RaceTime \in (-Countdown)..(MaxRace + 1)
  BY SessionAssumption DEF Finish, StillFlying, Unplaced, TypeOK, SeatMap, RaceTime
<1>2. MaybeComplete(ss, {}) /\ clock' = clock
  BY DEF Finish, RaceTime
<1>3. dist \in 0..MaxDistance
  BY <1>1, SessionAssumption DEF Seat, NoState, Official
<1>. HIDE DEF dist
<1>4. [place |-> nextPlace, time |-> RaceTime, dist |-> dist] \in Finishes
  BY <1>1, <1>3 DEF Finishes
<1>5. /\ x \in Seat /\ x.finish.place = nextPlace /\ x.finish.time = RaceTime
      /\ x.dnf = seats[s].dnf
  BY <1>1, <1>4 DEF Seat
<1>. HIDE DEF x
<1>6. /\ SeatMap(ss, issued) /\ DOMAIN ss = DOMAIN seats
      /\ \A t \in DOMAIN seats : ss[t] = IF t = s THEN x ELSE seats[t]
  BY <1>1, <1>5, UpdateType
<1>. HIDE DEF ss
<1>7. /\ \A t \in Placed(ss) : t = s \/ t \in Placed(seats)
      /\ \A t \in Placed(seats) : t # s /\ ss[t] = seats[t]
      /\ ss[s] = x
  BY <1>1, <1>6 DEF Placed
<1>8. \A t \in DOMAIN ss : ~ss[t].dnf
  BY <1>1, <1>5, <1>6 DEF OrderInv
<1>9. \A t \in Placed(ss) : ss[t].finish.time <= RaceTime
  BY <1>1, <1>5, <1>7, SessionAssumption DEF OrderInv
<1>10. ASSUME NEW t \in Placed(ss), NEW u \in Placed(ss),
              ss[t].finish.place < ss[u].finish.place
       PROVE  ss[t].finish.time <= ss[u].finish.time
  <2>1. CASE t = s
    <3>1. u \in Placed(seats)
      BY <1>1, <1>5, <1>7, <1>10, <2>1
    <3>2. seats[u].finish.place < nextPlace /\ seats[u].finish.place \in Int
      BY <3>1, PlacesBehindCounter
    <3>3. nextPlace < seats[u].finish.place
      BY <1>5, <1>7, <1>10, <2>1, <3>1
    <3>. QED  BY <1>1, <3>2, <3>3
  <2>2. CASE t # s /\ u = s
    BY <1>5, <1>7, <1>9, <2>2
  <2>3. CASE t # s /\ u # s
    BY <1>7, <1>10, <2>3 DEF OrderInv
  <2>. QED  BY <2>1, <2>2, <2>3
<1>11. CASE AllDone(ss) /\ CompleteRace(ss)
  <2>1. Placed(ss) = DOMAIN ss /\ Unplaced(ss) = {}
    BY <1>11 DEF AllDone, Unplaced, Placed
  <2>2. {t \in DOMAIN ss : ss[t].dnf} = {}
    BY <1>8
  <2>. QED  BY <1>1, <1>6, <1>10, <1>11, <2>1, <2>2, CompletionInOrder
<1>12. CASE seats' = Without(ss, {}) /\ UNCHANGED <<status, results>>
  <2>1. DOMAIN seats' = DOMAIN ss /\ \A t \in DOMAIN ss : seats'[t] = ss[t]
    BY <1>12 DEF Without, Restrict
  <2>2. Placed(seats') = Placed(ss) /\ RaceTime' = RaceTime
    BY <1>2, <2>1 DEF Placed, RaceTime
  <2>3. ResultsInPlaceOrder'
    BY <1>12 DEF OrderInv, ResultsInPlaceOrder
  <2>4. \A t \in DOMAIN seats' : ~seats'[t].dnf
    BY <1>8, <2>1
  <2>5. \A t \in Placed(seats') : seats'[t].finish.time <= RaceTime'
    BY <1>9, <2>1, <2>2 DEF Placed
  <2>6. \A t, u \in Placed(seats') :
          seats'[t].finish.place < seats'[u].finish.place =>
            seats'[t].finish.time <= seats'[u].finish.time
    BY <1>10, <2>1, <2>2 DEF Placed
  <2>. QED  BY <2>3, <2>4, <2>5, <2>6 DEF OrderInv
<1>. QED  BY <1>2, <1>11, <1>12 DEF MaybeComplete

\* leave() in flight takes the last place so far; the seat goes, or the race
\* is over and it is the only one that did not finish.
LEMMA LeaveKeepsOrder ==
  ASSUME TypeOK, PlacesInv, OrderInv, NEW s \in SeatIds, LeaveFlying(s)
  PROVE  OrderInv'
<1>. DEFINE x == [seats[s] EXCEPT !.dnf = TRUE,
                    !.finish = [place |-> nextPlace, time |-> clock,
                                dist |-> Travelled(seats[s])]]
            ss == [seats EXCEPT ![s] = x]
<1>1. /\ s \in DOMAIN seats /\ s \notin Placed(seats) /\ seats[s] \in Seat
      /\ SeatMap(seats, issued) /\ issued \in Nat
      /\ nextPlace \in Nat /\ clock \in (-Countdown)..(MaxRace + 1) /\ clock \in Int
  BY SessionAssumption DEF LeaveFlying, StillFlying, Unplaced, TypeOK, SeatMap
<1>2. MaybeComplete(ss, {s}) /\ clock' = clock
  BY DEF LeaveFlying
<1>3. x \in Seat /\ x.finish.place = nextPlace /\ x.dnf = TRUE
  <2>1. x \in Seat
    BY <1>1, FinishType, TravelledType
  <2>. QED  BY <1>1, <2>1 DEF Seat
<1>. HIDE DEF x
<1>6. /\ SeatMap(ss, issued) /\ DOMAIN ss = DOMAIN seats
      /\ \A t \in DOMAIN seats : ss[t] = IF t = s THEN x ELSE seats[t]
  BY <1>1, <1>3, UpdateType
<1>. HIDE DEF ss
<1>11. CASE AllDone(ss) /\ CompleteRace(ss)
  <2>1. Placed(ss) = DOMAIN ss /\ Unplaced(ss) = {}
    BY <1>11 DEF AllDone, Unplaced, Placed
  <2>2. {t \in DOMAIN ss : ss[t].dnf} = {s}
    BY <1>1, <1>3, <1>6 DEF OrderInv
  <2>3. \A t \in DOMAIN ss \ {s} : t \in Placed(seats) /\ ss[t] = seats[t]
    BY <1>6, <2>1 DEF Placed
  <2>4. \A t, u \in DOMAIN ss \ {s} : ss[t].finish.place < ss[u].finish.place
                                        => ss[t].finish.time <= ss[u].finish.time
    BY <2>3 DEF OrderInv
  <2>5. \A t \in {s}, u \in DOMAIN ss \ {s} : ss[u].finish.place < ss[t].finish.place
    BY <1>1, <1>3, <1>6, <2>3, PlacesBehindCounter
  <2>6. \A t, u \in {s} : ~(ss[t].finish.place < ss[u].finish.place)
    BY <1>1, <1>3, <1>6
  <2>. QED  BY <1>1, <1>6, <1>11, <2>1, <2>2, <2>4, <2>5, <2>6, CompletionInOrder
<1>12. CASE seats' = Without(ss, {s}) /\ UNCHANGED <<status, results>>
  <2>1. DOMAIN seats' = DOMAIN seats \ {s}
        /\ \A t \in DOMAIN seats \ {s} : seats'[t] = seats[t]
    BY <1>6, <1>12 DEF Without, Restrict
  <2>2. \A t \in DOMAIN seats' : Kept(t)
    BY <2>1 DEF Kept
  <2>3. clock <= clock' /\ clock' \in Int
    BY <1>1, <1>2
  <2>. QED  BY <1>12, <2>2, <2>3, QuietKeepsOrder
<1>. QED  BY <1>2, <1>11, <1>12 DEF MaybeComplete

\* A racing tick drops the abandoned seats; past the cap it also places the
\* pilots still flying by distance, behind everybody who has a place.
LEMMA TickKeepsOrder ==
  ASSUME TypeOK, PlacesInv, OrderInv, TickRace \/ TickCap
  PROVE  OrderInv'
<1>. DEFINE left == Without(seats, Abandoned)
<1>0. /\ SeatMap(seats, issued) /\ issued \in Nat /\ nextPlace \in Nat \ {0}
      /\ Cardinality(Abandoned) \in Nat /\ clock \in (-Countdown)..(MaxRace + 1)
      /\ clock \in Int
  BY SessionAssumption, TickSets DEF TypeOK
<1>1. /\ SeatMap(left, issued) /\ DOMAIN left = DOMAIN seats \ Abandoned
      /\ \A s \in DOMAIN seats \ Abandoned : left[s] = seats[s]
  BY ZenonT(40), <1>0, WithoutType
<1>. HIDE DEF left
<1>2. \A s \in DOMAIN left : ~left[s].dnf /\ s \in DOMAIN seats /\ left[s] = seats[s]
  BY <1>1 DEF OrderInv
<1>3. /\ Placed(left) \subseteq Placed(seats)
      /\ \A s \in Placed(left) : left[s] = seats[s]
  BY <1>2 DEF Placed
<1>4. CASE TickRace
  <2>1. CASE AllDone(left) /\ CompleteRace(left)
    <3>1. Unplaced(left) = {} /\ Placed(left) = DOMAIN left
      BY <2>1 DEF AllDone, Unplaced, Placed
    <3>2. {s \in DOMAIN left : left[s].dnf} = {}
      BY <1>2
    <3>3. \A s, t \in DOMAIN left : left[s].finish.place < left[t].finish.place
                                      => left[s].finish.time <= left[t].finish.time
      BY <1>3, <3>1 DEF OrderInv
    <3>. QED  BY <1>0, <1>1, <2>1, <3>1, <3>2, <3>3, CompletionInOrder
  <2>2. CASE seats' = left /\ UNCHANGED <<status, results, clock>>
    <3>1. \A s \in DOMAIN seats' : Kept(s)
      BY <1>2, <2>2 DEF Kept
    <3>. QED  BY <1>0, <2>2, <3>1, QuietKeepsOrder
  <2>. QED  BY <1>4, <2>1, <2>2 DEF TickRace, left
<1>5. CASE TickCap
  <2>. DEFINE flying == Unplaced(left)
              rank(s) == Cardinality({t \in flying : AheadByDistance(seats, t, s)})
              place(s) == nextPlace + Cardinality(Abandoned) + rank(s)
              x(s) == [left[s] EXCEPT !.dnf = TRUE,
                         !.finish = [place |-> place(s), time |-> clock,
                                     dist |-> Travelled(left[s])]]
              ss == [s \in DOMAIN left |-> IF s \in flying THEN x(s) ELSE left[s]]
  <2>1. CompleteRace(ss)
    BY <1>5 DEF TickCap, left
  <2>2. flying \subseteq DOMAIN left /\ flying \subseteq DOMAIN seats
    BY <1>1 DEF Unplaced
  <2>3. /\ \A s \in DOMAIN left : s \in flying \/ s \in Placed(left)
        /\ \A s \in flying : s \notin Placed(left)
    BY DEF Unplaced
  <2>4. \A s \in flying : rank(s) \in Nat
    <3>1. flying \in SUBSET DOMAIN seats
      BY <2>2
    <3>. HIDE DEF flying
    <3>. QED  BY <3>1, DistancePlaces
  <2>5. \A s \in flying : left[s] \in Seat /\ Travelled(left[s]) \in 0..MaxDistance
    BY <1>1, <2>2, TravelledType DEF SeatMap
  <2>. HIDE DEF flying, rank
  <2>6. \A s \in flying : place(s) \in Nat \ {0} /\ nextPlace <= place(s)
    BY <1>0, <2>4
  <2>7. \A s, t \in flying : place(s) < place(t) => rank(s) < rank(t)
    BY <1>0, <2>4
  <2>8. \A s \in flying : /\ x(s) \in Seat /\ x(s).finish.place = place(s)
                          /\ x(s).dnf = TRUE /\ x(s).dist = left[s].dist
    <3>. HIDE DEF place
    <3>1. \A s \in flying : x(s) \in Seat
      BY <1>0, <2>5, <2>6, FinishType
    <3>2. \A s \in flying : /\ x(s).finish.place = place(s)
                            /\ x(s).dnf = TRUE /\ x(s).dist = left[s].dist
      BY <2>5 DEF Seat
    <3>. QED  BY <3>1, <3>2
  <2>. HIDE DEF x
  <2>9. /\ DOMAIN ss = DOMAIN left
        /\ \A s \in flying : ss[s] = x(s)
        /\ \A s \in Placed(left) : s \in DOMAIN left /\ ss[s] = left[s]
    BY <2>2, <2>3 DEF Placed
  <2>10. SeatMap(ss, issued)
    BY <1>1, <2>8 DEF SeatMap
  <2>. HIDE DEF ss, place
  <2>11. Unplaced(ss) = {}
    <3>1. \A s \in flying : ss[s].finish.place # 0
      BY <2>6, <2>8, <2>9
    <3>2. \A s \in Placed(left) : ss[s].finish.place # 0
      BY <2>9 DEF Placed
    <3>. QED  BY <2>3, <2>9, <3>1, <3>2 DEF Unplaced, Placed
  <2>12. flying = {s \in DOMAIN ss : ss[s].dnf}
    <3>1. \A s \in flying : s \in DOMAIN ss /\ ss[s].dnf
      BY <2>2, <2>8, <2>9
    <3>2. \A s \in Placed(left) : ~ss[s].dnf
      BY <1>2, <2>9
    <3>. QED  BY <2>3, <2>9, <3>1, <3>2
  <2>13. \A s \in DOMAIN ss \ flying : s \in Placed(seats) /\ ss[s] = seats[s]
    BY <1>3, <2>3, <2>9
  <2>14. \A s, t \in DOMAIN ss \ flying : ss[s].finish.place < ss[t].finish.place
                                            => ss[s].finish.time <= ss[t].finish.time
    BY <2>13 DEF OrderInv
  <2>15. ASSUME NEW s \in flying, NEW t \in DOMAIN ss \ flying
         PROVE  ss[t].finish.place < ss[s].finish.place
    <3>1. ss[t].finish.place < nextPlace /\ ss[t].finish.place \in Int
      BY <2>13, PlacesBehindCounter
    <3>2. ss[s].finish.place = place(s) /\ nextPlace <= place(s) /\ place(s) \in Nat
      BY <2>6, <2>8, <2>9
    <3>. QED  BY <1>0, <3>1, <3>2
  <2>16. ASSUME NEW s \in flying, NEW t \in flying
         PROVE  AheadByDistance(ss, s, t) <=> AheadByDistance(seats, s, t)
    <3>1. /\ ss[s].dist = seats[s].dist /\ ss[t].dist = seats[t].dist
      BY <1>2, <2>2, <2>8, <2>9
    <3>. QED  BY <3>1 DEF AheadByDistance, Travelled
  <2>17. \A s \in flying : {u \in flying : AheadByDistance(ss, u, s)}
                             = {u \in flying : AheadByDistance(seats, u, s)}
    BY <2>16
  <2>18. \A s \in flying : Cardinality({u \in flying : AheadByDistance(ss, u, s)}) = rank(s)
    BY <2>17 DEF rank
  <2>19. ASSUME NEW s \in flying, NEW t \in flying, ss[s].finish.place < ss[t].finish.place
         PROVE  Cardinality({u \in flying : AheadByDistance(ss, u, s)})
                  < Cardinality({u \in flying : AheadByDistance(ss, u, t)})
    <3>1. place(s) < place(t)
      BY <2>8, <2>9, <2>19
    <3>. QED  BY <2>7, <2>18, <3>1
  <2>. QED  BY <1>0, <2>1, <2>10, <2>11, <2>12, <2>14, <2>15, <2>19, CompletionInOrder
<1>. QED  BY <1>4, <1>5

\* Every step keeps OrderInv; PlacesInv says that the next place is the last.
LEMMA NextOrder ==
  ASSUME TypeOK, TypeOK', PlacesInv, OrderInv, [Next]_vars
  PROVE  OrderInv'
<1>0. clock' \in Int /\ clock \in Int
  BY SessionAssumption DEF TypeOK
<1>1. CASE /\ \A s \in DOMAIN seats' : Kept(s)
           /\ \/ UNCHANGED <<status, results>> /\ clock <= clock'
              \/ status = "lobby" /\ status' # "finished"
              \/ status' = "canceled" /\ DOMAIN seats' = {}
  <2>1. CASE UNCHANGED <<status, results>> /\ clock <= clock'
    BY <1>0, <1>1, <2>1, QuietKeepsOrder
  <2>2. CASE status = "lobby" /\ status' # "finished"
    <3>1. Placed(seats) = {}
      BY <2>2 DEF PlacesInv
    <3>. QED  BY <1>0, <1>1, <2>2, <3>1, QuietKeepsOrder
  <2>3. CASE status' = "canceled" /\ DOMAIN seats' = {}
    BY <2>3 DEF OrderInv, Placed, ResultsInPlaceOrder
  <2>. QED  BY <1>1, <2>1, <2>2, <2>3
<1>2. CASE \E p \in Players : JoinNew(p) \/ JoinExpired(p)
  <2>1. PICK p \in Players : JoinNew(p) \/ JoinExpired(p)
    BY <1>2
  <2>2. UNCHANGED <<status, results, clock>>
    BY <2>1 DEF JoinNew, JoinExpired
  <2>3. \A s \in DOMAIN seats' : Kept(s) \/ (seats'[s].finish = NoFinish /\ ~seats'[s].dnf)
    <3>1. CASE JoinNew(p)
      BY <3>1 DEF JoinNew, WithSeat, Kept
    <3>2. CASE JoinExpired(p)
      <4>1. PICK s \in DOMAIN seats : seats' = WithSeat(Without(seats, {s}), issued + 1, p)
        BY <3>2 DEF JoinExpired, SeatsOf
      <4>2. /\ DOMAIN Without(seats, {s}) = DOMAIN seats \ {s}
            /\ \A t \in DOMAIN seats \ {s} : Without(seats, {s})[t] = seats[t]
        BY DEF Without, Restrict
      <4>. QED  BY <4>1, <4>2 DEF WithSeat, Kept
    <3>. QED  BY <2>1, <3>1, <3>2
  <2>. QED  BY <1>0, <2>2, <2>3, QuietKeepsOrder
<1>. QED  BY <1>1, <1>2, QuietSteps, FinishKeepsOrder, LeaveKeepsOrder, TickKeepsOrder

\* In the standings of a finished race the list order is the order of the
\* places, up to ties in time, and nobody who did not finish outranks a
\* finisher.
THEOREM StandingsCorrect == Spec => []ResultsInPlaceOrder
<1>1. Init => OrderInv
  BY DEF Init, OrderInv, Placed, NoSeats, ResultsInPlaceOrder
<1>2. TypeOK /\ TypeOK' /\ PlacesInv /\ OrderInv /\ [Next]_vars => OrderInv'
  BY NextOrder
<1>3. (PlacesInv /\ ResultsAreAwarded) => PlacesInv
  OBVIOUS
<1>4. OrderInv => ResultsInPlaceOrder
  BY DEF OrderInv
<1>. QED  BY <1>1, <1>2, <1>3, <1>4, TypeCorrect, PlacesInductive, PTL DEF Spec

(***************************************************************************)
(* Refinement: RaceSession implements RaceRoom.                            *)
(***************************************************************************)

\* Steps other than a start, a finish, a leave, a cancel or a tick change
\* nothing the abstract room shows.
LEMMA StutterSteps ==
  ASSUME UNCHANGED <<status, awarded, results>>
  PROVE  UNCHANGED Room!vars
BY DEF Room!vars, Published

\* Completing a race publishes a ranking of announced places.
LEMMA CompleteStep ==
  ASSUME status = "racing", NEW ss, CompleteRace(ss), awarded \subseteq awarded',
         PlacesInv', ResultsAreAwarded'
  PROVE  Room!Complete
<1>1. Published' = {<<s, results'[s].place>> : s \in DOMAIN results'} /\ status' = "finished"
  BY DEF Published, CompleteRace
<1>2. Published' \subseteq awarded'
  BY <1>1 DEF ResultsAreAwarded
<1>. QED  BY <1>1, <1>2 DEF Room!Complete, Room!NoClash, PlacesInv, PlacesUnique

\* Announcing places in a race that goes on.
LEMMA AnnounceStep ==
  ASSUME status = "racing", UNCHANGED <<status, results>>, awarded \subseteq awarded', PlacesInv'
  PROVE  Room!Announce
BY DEF Room!Announce, Room!NoClash, PlacesInv, PlacesUnique, Published

\* Every step of the room is a step of the abstract room or none.
LEMMA RaceSteps ==
  ASSUME PlacesInv, PlacesInv', ResultsAreAwarded', [Next]_vars
  PROVE  [Room!Next]_(Room!vars)
<1>. DEFINE Ok == Room!Next \/ UNCHANGED Room!vars
<1>. SUFFICES Ok
  OBVIOUS
<1>0. /\ (Room!Start => Ok) /\ (Room!Announce => Ok)
      /\ (Room!Complete => Ok) /\ (Room!Cancel => Ok)
      /\ (UNCHANGED Room!vars => Ok)
  BY DEF Room!Next
<1>. HIDE DEF Ok
<1>1. ASSUME NEW ss, BeginCountdown(ss), status = "lobby", UNCHANGED <<awarded, results>>
      PROVE  Ok
  BY <1>0, <1>1 DEF BeginCountdown, Room!Start, Published
<1>2. ASSUME NEW ss, NEW left, MaybeComplete(ss, left), status = "racing",
             awarded \subseteq awarded'
      PROVE  Ok
  BY <1>0, <1>2, CompleteStep, AnnounceStep DEF MaybeComplete
<1>3. ASSUME NEW p \in Players, Arrive(p)
      PROVE  Ok
  BY <1>0, <1>3, StutterSteps DEF Arrive, JoinNew, JoinExisting, JoinExpired, JoinWithToken, Reattach
<1>4. ASSUME NEW s \in SeatIds, Pilot(s)
      PROVE  Ok
  <2>1. ASSUME NEW value \in BOOLEAN, Ready(s, value)
        PROVE  Ok
    <3>1. status = "lobby" /\ UNCHANGED <<awarded, results>>
      BY <2>1 DEF Ready
    <3>2. (\E ss : BeginCountdown(ss)) \/ status' = status
      BY <2>1 DEF Ready
    <3>. QED  BY <1>0, <1>1, <3>1, <3>2, StutterSteps
  <2>2. CASE Start(s)
    BY <1>1, <2>2 DEF Start
  <2>3. CASE Cancel(s)
    BY <1>0, <2>3 DEF Cancel, Open, Room!Cancel, Published
  <2>4. CASE LeaveFlying(s)
    BY <1>2, <2>4 DEF LeaveFlying, StillFlying, Award
  <2>5. ASSUME NEW claimed \in 0..MaxDistance, Finish(s, claimed)
        PROVE  Ok
    BY <1>2, <2>5 DEF Finish, StillFlying, Award
  <2>6. CASE LeaveIdle(s) \/ MarkDisconnected(s) \/ Poke(s)
    BY <1>0, <2>6, StutterSteps DEF LeaveIdle, MarkDisconnected, Poke
  <2>7. ASSUME NEW seq \in 1..MaxSeq, NEW dist \in NoState..MaxDistance, Input(s, seq, dist)
        PROVE  Ok
    BY <1>0, <2>7, StutterSteps DEF Input
  <2>8. ASSUME NEW seq \in 1..MaxSeq, Heartbeat(s, seq)
        PROVE  Ok
    BY <1>0, <2>8, StutterSteps DEF Heartbeat
  <2>. QED  BY <1>4, <2>1, <2>2, <2>3, <2>4, <2>5, <2>6, <2>7, <2>8 DEF Pilot
<1>5. CASE TickLobby
  <2>1. UNCHANGED <<awarded, results>> /\ status = "lobby" /\ status' \in {"lobby", "canceled"}
    BY <1>5 DEF TickLobby, LobbyStatus
  <2>. QED  BY <1>0, <2>1, StutterSteps DEF Room!Cancel, Published
<1>6. CASE TickRace
  BY <1>0, <1>6, CompleteStep, AnnounceStep DEF TickRace
<1>7. CASE TickCap
  BY <1>0, <1>7, CompleteStep DEF TickCap
<1>8. CASE Elapse \/ UNCHANGED vars
  BY <1>0, <1>8, StutterSteps DEF Elapse, vars
<1>. QED  BY <1>3, <1>4, <1>5, <1>6, <1>7, <1>8 DEF Next, TickStep

\* The Node room is an implementation of the abstract race room.
THEOREM Refinement == Spec => ImplementsRoom
<1>1. Init => Room!Init
  BY DEF Init, Room!Init, Published
<1>2. (PlacesInv /\ ResultsAreAwarded) /\ (PlacesInv /\ ResultsAreAwarded)' /\ [Next]_vars
        => [Room!Next]_(Room!vars)
  BY RaceSteps
<1>. QED  BY <1>1, <1>2, PlacesInductive, PTL DEF Spec, ImplementsRoom, Room!Spec
=============================================================================
