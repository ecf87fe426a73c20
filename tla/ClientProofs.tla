---------------------------- MODULE ClientProofs ----------------------------
(***************************************************************************)
(* Proofs about the client: its circuit breaker never trips but on         *)
(* Threshold failures in a row, its outbox of scores keeps one entry per   *)
(* place and is mirrored by the storage, and no leader of its peer rooms   *)
(* gives two pilots one place, for any number of requests, drains, peers.  *)
(***************************************************************************)
EXTENDS CircuitBreaker, ScoreUpload, PeerRoom, FiniteSetTheorems,
        WellFoundedInduction, TLAPS

-----------------------------------------------------------------------------
(***************************************************************************)
(* The circuit breaker                                                     *)
(***************************************************************************)

\* A closed breaker has not counted enough to trip, and counts nothing before
\* its window has begun.
CountOK ==
  state = "closed" => /\ failures < Threshold
                      /\ windowAge = NoWindow => failures = 0

\* What a closed breaker counts are the last failures of the history, and none
\* of them is older than the window.
CountIsRecent ==
  state = "closed" =>
    /\ failures <= Len(recent)
    /\ \A i \in DOMAIN recent : i > Len(recent) - failures => recent[i] <= windowAge

BreakerInv == BreakerTypeOK /\ CountOK /\ CountIsRecent

-----------------------------------------------------------------------------
(* The history                                                             *)

\* What Answer makes of the history when the request failed.
Noted(s) == LET longer == Append(s, 0)
            IN IF Len(longer) > Threshold THEN Tail(longer) ELSE longer

\* A history lists its ages.
LEMMA Ages ==
  ASSUME NEW S, NEW s \in Seq(S)
  PROVE  /\ Len(s) \in Nat /\ DOMAIN s = 1..Len(s)
         /\ \A i \in DOMAIN s : s[i] \in S
  OBVIOUS

\* A noted failure is the last and the youngest of the history; the others
\* keep their place counted from the end, and only the oldest may go.
LEMMA NotedFailure ==
  ASSUME NEW s \in Seq(0..OldestAge), Len(s) <= Threshold
  PROVE  /\ Noted(s) \in Seq(0..OldestAge)
         /\ Len(Noted(s)) = IF Len(s) = Threshold THEN Threshold ELSE Len(s) + 1
         /\ \A i \in DOMAIN Noted(s) :
              IF i = Len(Noted(s)) THEN Noted(s)[i] = 0
              ELSE /\ i + Len(s) + 1 - Len(Noted(s)) \in DOMAIN s
                   /\ Noted(s)[i] = s[i + Len(s) + 1 - Len(Noted(s))]
<1>. DEFINE longer == Append(s, 0)
<1>1. /\ Threshold \in Nat \ {0} /\ 0 \in 0..OldestAge /\ Len(s) \in Nat
  BY BreakerAssumption DEF BreakerAssumption, OldestAge
<1>2. /\ longer \in Seq(0..OldestAge) /\ Len(longer) = Len(s) + 1
      /\ \A i \in 1..Len(s) : longer[i] = s[i]
      /\ longer[Len(s) + 1] = 0
  BY <1>1
<1>3. CASE Len(s) = Threshold
  <2>1. Noted(s) = Tail(longer)
    BY <1>1, <1>2, <1>3 DEF Noted
  <2>. HIDE DEF longer
  <2>2. /\ Tail(longer) \in Seq(0..OldestAge) /\ Len(Tail(longer)) = Len(longer) - 1
        /\ DOMAIN Tail(longer) = 1..Len(s)
        /\ \A i \in 1..Len(s) : Tail(longer)[i] = longer[i + 1]
    BY <1>1, <1>2, <1>3
  <2>. QED  BY <1>1, <1>2, <1>3, <2>1, <2>2
<1>4. CASE Len(s) # Threshold
  <2>1. Noted(s) = longer
    BY <1>1, <1>2, <1>4 DEF Noted
  <2>2. DOMAIN longer = 1..(Len(s) + 1)
    BY <1>1, <1>2
  <2>. HIDE DEF longer
  <2>. QED  BY SMTT(30), <1>1, <1>2, <1>4, <2>1, <2>2
<1>. QED  BY <1>3, <1>4

-----------------------------------------------------------------------------
(* The steps                                                               *)

\* BreakerInit satisfies the invariant.
LEMMA BreakerInitKeeps == BreakerInit => BreakerInv
<1>. SUFFICES ASSUME BreakerInit PROVE BreakerInv
  OBVIOUS
<1>1. /\ failures \in 0..Threshold /\ openAge \in 0..MaxCooldown
      /\ windowAge \in {NoWindow} \cup 0..OldestAge /\ cooldown \in Cooldown..MaxCooldown
      /\ reopened \in Nat
  BY BreakerAssumption DEF BreakerInit, BreakerAssumption, NoWindow, OldestAge
<1>2. recent \in Seq(0..OldestAge) /\ Len(recent) <= Threshold
  BY BreakerAssumption DEF BreakerInit, BreakerAssumption
<1>3. BreakerTypeOK
  BY <1>1, <1>2 DEF BreakerInit, BreakerTypeOK
<1>4. CountOK /\ CountIsRecent
  BY BreakerAssumption DEF BreakerInit, CountOK, CountIsRecent, BreakerAssumption
<1>. QED  BY <1>3, <1>4 DEF BreakerInv

\* A request that starts moves the breaker to half-open or leaves it closed.
LEMMA AllowKeeps ==
  ASSUME BreakerInv, NEW r \in Requests, Allow(r)
  PROVE  BreakerInv'
<1>1. BreakerTypeOK'
  BY DEF BreakerInv, BreakerTypeOK, Allow
<1>2. CountOK' /\ CountIsRecent'
  BY DEF BreakerInv, CountOK, CountIsRecent, Allow
<1>. QED  BY <1>1, <1>2 DEF BreakerInv

\* A failure that finds the breaker closed: Threshold failures in a row, all
\* within the window, trip it; fewer are counted and are the last ones.
LEMMA ClosedFailure ==
  ASSUME BreakerInv, FailureClosed, recent' = Noted(recent)
  PROVE  /\ state' \in {"closed", "open"} /\ failures' \in 0..Threshold
         /\ windowAge' \in {NoWindow} \cup 0..OldestAge
         /\ CountOK' /\ CountIsRecent'
         /\ state' = "open" => /\ Len(recent') = Threshold
                               /\ \A i \in DOMAIN recent' : recent'[i] <= Window
<1>1. /\ Threshold \in Nat \ {0} /\ Window \in Nat
      /\ failures \in 0..(Threshold - 1) /\ windowAge \in {NoWindow} \cup 0..OldestAge
      /\ recent \in Seq(0..OldestAge) /\ Len(recent) \in Nat /\ Len(recent) <= Threshold
      /\ failures <= Len(recent) /\ state = "closed"
      /\ windowAge = NoWindow => failures = 0
  BY BreakerAssumption DEF BreakerAssumption, BreakerInv, BreakerTypeOK, CountOK, CountIsRecent, FailureClosed
<1>2. /\ DOMAIN recent = 1..Len(recent)
      /\ \A i \in 1..Len(recent) : /\ recent[i] \in 0..OldestAge
                                   /\ i > Len(recent) - failures => recent[i] <= windowAge
  BY <1>1, Ages DEF BreakerInv, CountIsRecent
<1>3. /\ recent' \in Seq(0..OldestAge) /\ Len(recent') \in Nat
      /\ Len(recent') = IF Len(recent) = Threshold THEN Threshold ELSE Len(recent) + 1
      /\ DOMAIN recent' = 1..Len(recent')
      /\ \A i \in DOMAIN recent' :
           IF i = Len(recent') THEN recent'[i] = 0
           ELSE /\ i + Len(recent) + 1 - Len(recent') \in DOMAIN recent
                /\ recent'[i] = recent[i + Len(recent) + 1 - Len(recent')]
  BY <1>1, NotedFailure
<1>4. /\ failures' = (IF InWindow THEN failures + 1 ELSE 1)
      /\ state' = (IF failures' >= Threshold THEN "open" ELSE "closed")
      /\ windowAge' = (IF failures' >= Threshold \/ windowAge # NoWindow THEN windowAge ELSE 0)
  BY DEF FailureClosed, Trips
<1>5. failures' \in 1..Threshold /\ failures' <= Len(recent')
  <2>1. CASE InWindow
    BY <1>1, <1>3, <1>4, <2>1
  <2>2. CASE ~InWindow
    BY <1>1, <1>3, <1>4, <2>2
  <2>. QED  BY <2>1, <2>2
<1>6. /\ state' \in {"closed", "open"}
      /\ windowAge' \in {NoWindow} \cup 0..OldestAge
      /\ CountOK'
  BY <1>1, <1>4, <1>5 DEF CountOK, NoWindow, OldestAge
<1>7. ASSUME NEW i \in DOMAIN recent', i > Len(recent') - failures', i # Len(recent')
      PROVE  /\ InWindow
             /\ recent'[i] <= windowAge
  <2>1. InWindow
    BY <1>3, <1>4, <1>7
  <2>. DEFINE j == i + Len(recent) + 1 - Len(recent')
  <2>2. j \in 1..Len(recent) /\ recent'[i] = recent[j]
    BY <1>1, <1>3, <1>7
  <2>3. j > Len(recent) - failures
    BY <1>1, <1>3, <1>4, <1>7, <2>1
  <2>. QED  BY <1>2, <2>1, <2>2, <2>3
<1>8. CountIsRecent'
  <2>. SUFFICES ASSUME state' = "closed", NEW i \in DOMAIN recent', i > Len(recent') - failures'
                PROVE  recent'[i] <= windowAge'
    BY <1>5 DEF CountIsRecent
  <2>1. windowAge' = (IF windowAge # NoWindow THEN windowAge ELSE 0) /\ windowAge' \in Nat
    BY <1>1, <1>4, <1>5 DEF NoWindow
  <2>2. CASE i = Len(recent')
    BY <1>3, <2>1, <2>2
  <2>3. CASE i # Len(recent')
    BY <1>7, <2>1, <2>3 DEF InWindow
  <2>. QED  BY <2>2, <2>3
<1>9. ASSUME state' = "open"
      PROVE  /\ Len(recent') = Threshold
             /\ \A i \in DOMAIN recent' : recent'[i] <= Window
  <2>1. failures' = Threshold /\ Len(recent') = Threshold
    BY <1>1, <1>3, <1>4, <1>5, <1>9
  <2>2. ASSUME NEW i \in DOMAIN recent' PROVE recent'[i] <= Window
    <3>1. CASE i = Len(recent')
      BY <1>1, <1>3, <3>1
    <3>2. CASE i # Len(recent')
      <4>1. i > Len(recent') - failures'
        BY <1>3, <2>1
      <4>2. InWindow /\ recent'[i] <= windowAge
        BY <1>7, <3>2, <4>1
      <4>3. recent'[i] \in 0..OldestAge
        BY <1>3, Ages
      <4>. QED  BY <1>1, <4>2, <4>3 DEF InWindow, NoWindow, OldestAge
    <3>. QED  BY <3>1, <3>2
  <2>. QED  BY <2>1, <2>2
<1>. QED  BY <1>5, <1>6, <1>8, <1>9

\* An answer, whichever the request and its outcome.
LEMMA AnswerKeeps ==
  ASSUME BreakerInv, NEW r \in Requests, NEW o \in Outcomes, Answer(r, o)
  PROVE  /\ BreakerInv'
         /\ (state = "closed" /\ state' = "open") =>
              /\ Len(recent') = Threshold
              /\ \A i \in DOMAIN recent' : recent'[i] <= Window
<1>0. /\ Threshold \in Nat \ {0} /\ Window \in Nat /\ Cooldown \in Nat \ {0}
      /\ MaxCooldown \in Nat /\ Cooldown <= MaxCooldown
  BY BreakerAssumption DEF BreakerAssumption
<1>1. req' \in [Requests -> {"idle", "flying", "probe"}] /\ up' \in BOOLEAN
  BY DEF BreakerInv, BreakerTypeOK, Answer
<1>2. reopened' \in Nat
  BY <1>0 DEF BreakerInv, BreakerTypeOK, Answer, Lower
<1>3. CASE o = "ok"
  <2>1. Success /\ recent' = <<>>
    BY <1>3 DEF Answer, Recorded, Counts
  <2>2. BreakerTypeOK'
    BY <1>0, <1>1, <1>2, <2>1 DEF BreakerTypeOK, Success, NoWindow, OldestAge
  <2>3. CountOK' /\ CountIsRecent'
    BY <1>0, <2>1 DEF CountOK, CountIsRecent, Success
  <2>. QED  BY <2>1, <2>2, <2>3 DEF BreakerInv, Success
<1>4. CASE o # "ok"
  <2>1. Failure /\ recent' = Noted(recent)
    BY <1>4 DEF Answer, Recorded, Counts, Noted
  <2>2. recent' \in Seq(0..OldestAge) /\ Len(recent') <= Threshold
    BY <1>0, <2>1, NotedFailure DEF BreakerInv, BreakerTypeOK
  <2>3. CASE FailureOpen
    <3>1. BreakerTypeOK'
      BY <1>1, <1>2, <2>2, <2>3 DEF BreakerInv, BreakerTypeOK, FailureOpen, breaker
    <3>. QED  BY <2>3, <3>1 DEF BreakerInv, CountOK, CountIsRecent, FailureOpen, breaker
  <2>4. CASE FailedProbe
    <3>1. cooldown' \in Cooldown..MaxCooldown
      BY <1>0, <2>4 DEF BreakerInv, BreakerTypeOK, FailedProbe, Doubled, Lower
    <3>2. BreakerTypeOK'
      BY <1>0, <1>1, <1>2, <2>2, <2>4, <3>1 DEF BreakerInv, BreakerTypeOK, FailedProbe
    <3>. QED  BY <2>4, <3>2 DEF BreakerInv, CountOK, CountIsRecent, FailedProbe
  <2>5. CASE FailureClosed
    <3>1. /\ state' \in {"closed", "open"} /\ failures' \in 0..Threshold
          /\ windowAge' \in {NoWindow} \cup 0..OldestAge
          /\ CountOK' /\ CountIsRecent'
          /\ state' = "open" => /\ Len(recent') = Threshold
                                /\ \A i \in DOMAIN recent' : recent'[i] <= Window
      BY <2>1, <2>5, ClosedFailure
    <3>2. cooldown' \in Cooldown..MaxCooldown /\ openAge' \in 0..MaxCooldown
      BY <1>0, <2>5 DEF BreakerInv, BreakerTypeOK, FailureClosed
    <3>3. BreakerTypeOK'
      BY <1>1, <1>2, <2>2, <3>1, <3>2 DEF BreakerTypeOK
    <3>. QED  BY <3>1, <3>3 DEF BreakerInv
  <2>. QED  BY <2>1, <2>3, <2>4, <2>5 DEF Failure
<1>. QED  BY <1>3, <1>4

\* Time ages the window and the failures in it alike.
LEMMA TickKeeps ==
  ASSUME BreakerInv, Tick
  PROVE  BreakerInv'
<1>0. /\ Threshold \in Nat \ {0} /\ Window \in Nat /\ Cooldown \in Nat \ {0}
      /\ MaxCooldown \in Nat /\ OldestAge \in Nat
  BY BreakerAssumption DEF BreakerAssumption, OldestAge
<1>. DEFINE aged == [i \in DOMAIN recent |-> Lower(recent[i] + 1, OldestAge)]
<1>1. /\ recent \in Seq(0..OldestAge) /\ Len(recent) \in Nat /\ DOMAIN recent = 1..Len(recent)
      /\ \A i \in DOMAIN recent : recent[i] \in 0..OldestAge
  BY Ages DEF BreakerInv, BreakerTypeOK
<1>2. /\ aged \in Seq(0..OldestAge) /\ Len(aged) = Len(recent) /\ DOMAIN aged = DOMAIN recent
      /\ \A i \in DOMAIN recent : aged[i] = Lower(recent[i] + 1, OldestAge)
  <2>1. aged \in [1..Len(recent) -> 0..OldestAge]
    BY <1>0, <1>1 DEF Lower
  <2>. QED  BY <1>1, <2>1
<1>3. recent' = aged
  BY DEF Tick
<1>. HIDE DEF aged
<1>4. windowAge \in {NoWindow} \cup 0..OldestAge /\ windowAge' \in {NoWindow} \cup 0..OldestAge
      /\ windowAge' = (IF windowAge = NoWindow THEN NoWindow ELSE Lower(windowAge + 1, OldestAge))
  BY <1>0 DEF BreakerInv, BreakerTypeOK, Tick, Lower
<1>5. openAge' \in 0..MaxCooldown
  BY <1>0 DEF BreakerInv, BreakerTypeOK, Tick, Lower
<1>6. BreakerTypeOK'
  BY <1>2, <1>3, <1>4, <1>5 DEF BreakerInv, BreakerTypeOK, Tick
<1>7. CountOK'
  BY <1>0, <1>4 DEF BreakerInv, CountOK, Tick, NoWindow, Lower
<1>8. CountIsRecent'
  <2>. SUFFICES ASSUME state' = "closed"
                PROVE  /\ failures' <= Len(recent')
                       /\ \A i \in DOMAIN recent' :
                            i > Len(recent') - failures' => recent'[i] <= windowAge'
    BY DEF CountIsRecent
  <2>1. state = "closed" /\ failures' = failures /\ failures \in Nat
    BY DEF Tick, BreakerInv, BreakerTypeOK
  <2>2. ASSUME NEW i \in DOMAIN recent', i > Len(recent') - failures'
        PROVE  recent'[i] <= windowAge'
    <3>1. i \in DOMAIN recent /\ recent[i] <= windowAge /\ recent[i] \in 0..OldestAge
      BY <1>1, <1>2, <1>3, <2>1, <2>2 DEF BreakerInv, CountIsRecent
    <3>2. windowAge # NoWindow
      BY <1>1, <1>2, <1>3, <2>1, <2>2, <3>1 DEF NoWindow
    <3>3. recent'[i] = Lower(recent[i] + 1, OldestAge)
      BY <1>2, <1>3, <3>1
    <3>. QED  BY <1>0, <1>4, <3>1, <3>2, <3>3 DEF Lower
  <2>. QED  BY <1>2, <1>3, <2>1, <2>2 DEF BreakerInv, CountIsRecent
<1>. QED  BY <1>6, <1>7, <1>8 DEF BreakerInv

\* Every step keeps the invariant, and trips the breaker only when it has to.
LEMMA BreakerStepKeeps ==
  ASSUME BreakerInv, [BreakerNext]_breakerVars
  PROVE  /\ BreakerInv'
         /\ (state = "closed" /\ state' = "open") =>
              /\ Len(recent') = Threshold
              /\ \A i \in DOMAIN recent' : recent'[i] <= Window
<1>1. ASSUME NEW r \in Requests, Allow(r)
      PROVE  BreakerInv' /\ (state = "closed" => state' = "closed")
  BY <1>1, AllowKeeps DEF Allow
<1>2. ASSUME NEW r \in Requests, NEW o \in Outcomes, Answer(r, o)
      PROVE  /\ BreakerInv'
             /\ (state = "closed" /\ state' = "open") =>
                  /\ Len(recent') = Threshold
                  /\ \A i \in DOMAIN recent' : recent'[i] <= Window
  BY <1>2, AnswerKeeps
<1>3. CASE Tick
  BY <1>3, TickKeeps DEF Tick
<1>4. CASE Recover
  BY <1>4 DEF Recover, BreakerInv, BreakerTypeOK, CountOK, CountIsRecent
<1>5. CASE UNCHANGED breakerVars
  BY <1>5 DEF breakerVars, BreakerInv, BreakerTypeOK, CountOK, CountIsRecent
<1>. QED  BY <1>1, <1>2, <1>3, <1>4, <1>5 DEF BreakerNext

-----------------------------------------------------------------------------
(* The theorems                                                            *)

\* The inductive invariant: what a closed breaker counts is recent and too little
\* to trip (step).
THEOREM BreakerInductive == BreakerSpec => []BreakerInv
<1>1. BreakerInv /\ [BreakerNext]_breakerVars => BreakerInv'
  BY BreakerStepKeeps
<1>. QED  BY BreakerInitKeeps, <1>1, PTL DEF BreakerSpec

\* Every field of the breaker has its type, and its cooldown stays between its bounds.
THEOREM BreakerTypeCorrect == BreakerSpec => []BreakerTypeOK
<1>1. BreakerInv => BreakerTypeOK
  BY DEF BreakerInv
<1>. QED  BY BreakerInductive, <1>1, PTL

\* The breaker never trips but on Threshold failures in a row, all within one window,
\* however the answers of overlapping requests arrive (step, Breakers.record).
THEOREM TripsAreCorrect == BreakerSpec => TripsAreEarned
<1>1. BreakerInv /\ [BreakerNext]_breakerVars
      => [(state = "closed" /\ state' = "open") =>
            /\ Len(recent') = Threshold
            /\ \A i \in DOMAIN recent' : recent'[i] <= Window]_breakerVars
  BY BreakerStepKeeps
<1>. QED  BY BreakerInductive, <1>1, PTL DEF BreakerSpec, TripsAreEarned

-----------------------------------------------------------------------------
(***************************************************************************)
(* The outbox of scores                                                    *)
(***************************************************************************)

\* An entry object is sent MaxTries times by one drain, and once more by each of the others.
MostTries == MaxTries + Cardinality(Drains) - 1

\* The drains that are sending the entry with number s.
Sending(d, s) == {k \in Drains : \E e \in d[k].now : e.seq = s}

\* Places and numbers of a queue are one entry's.
Distinct(q) ==
  \A i, j \in DOMAIN q : (q[i].id = q[j].id \/ q[i].seq = q[j].seq) => i = j

\* An outbox in memory, with its counter.
QueueOK(q, n) == q \in Seq(Entry) /\ Len(q) <= Cap /\ Distinct(q) /\ \A i \in DOMAIN q : q[i].seq <= n

\* An outbox in storage.
StoreOK(w) ==
  /\ w \in Seq(Entry \X (0..MostTries)) /\ Len(w) <= Cap
  /\ \A i, j \in DOMAIN w : (w[i][1].id = w[j][1].id \/ w[i][1].seq = w[j][1].seq) => i = j

UploadInv ==
  /\ local \in 0..MaxDistance /\ ladder \in 0..MaxDistance /\ flown \in 0..MaxDistance
  /\ QueueOK(queue, seq)
  /\ tries \in [1..MaxSeq -> 0..MostTries]
  /\ seq \in 0..MaxSeq /\ old \subseteq 1..MaxSeq /\ unsaved \in BOOLEAN
  /\ StoreOK(stored)
  /\ posts \subseteq Ids \X Distances /\ published \subseteq Distances
  /\ drains \in [Drains -> [now : SUBSET Entry, rest : SUBSET Entry]]
  /\ \A s \in 1..MaxSeq : tries[s] + Cardinality(Sending(drains, s)) <= MostTries
  /\ StorageMirrorsQueue

\* The bounds the proofs use.
LEMMA UploadNumbers ==
  /\ MaxDistance \in Nat /\ Cap \in Nat \ {0} /\ MaxTries \in Nat \ {0} /\ MaxSeq \in Nat
  /\ IsFiniteSet(Drains) /\ Cardinality(Drains) \in Nat /\ MostTries \in Nat
  /\ \A S \in SUBSET Drains : Cardinality(S) \in 0..Cardinality(Drains) /\ IsFiniteSet(S)
<1>1. /\ MaxDistance \in Nat /\ Cap \in Nat \ {0} /\ MaxTries \in Nat \ {0} /\ MaxSeq \in Nat
      /\ IsFiniteSet(Drains)
  BY UploadAssumption DEF UploadAssumption
<1>2. Cardinality(Drains) \in Nat
  BY <1>1, FS_CardinalityType
<1>3. ASSUME NEW S \in SUBSET Drains PROVE Cardinality(S) \in 0..Cardinality(Drains) /\ IsFiniteSet(S)
  <2>1. IsFiniteSet(S) /\ Cardinality(S) <= Cardinality(Drains)
    BY <1>1, FS_Subset
  <2>2. Cardinality(S) \in Nat
    BY <2>1, FS_CardinalityType
  <2>. QED  BY <1>2, <2>1, <2>2
<1>. QED  BY <1>1, <1>2, <1>3 DEF MostTries

\* At takes what stands at the positions, each once and nothing else.
LEMMA AtIs ==
  ASSUME NEW S, NEW q \in Seq(S), NEW I \in SUBSET DOMAIN q
  PROVE  /\ At(q, I) \in Seq(S) /\ Len(At(q, I)) <= Len(q)
         /\ \E f \in [DOMAIN At(q, I) -> I] :
              /\ \A k \in DOMAIN At(q, I) : At(q, I)[k] = q[f[k]]
              /\ \A k, l \in DOMAIN At(q, I) : f[k] = f[l] => k = l
              /\ \A i \in I : \E k \in DOMAIN At(q, I) : f[k] = i
<1>. DEFINE n == Cardinality(I)
            rank == [i \in I |-> Cardinality(Standing(I, i))]
            f == [k \in 1..n |-> CHOOSE i \in I : Cardinality(Standing(I, i)) = k]
<1>1. Len(q) \in Nat /\ DOMAIN q = 1..Len(q)
  OBVIOUS
<1>2. IsFiniteSet(1..Len(q)) /\ Cardinality(1..Len(q)) = Len(q)
  <2>. DEFINE m == Len(q)
  <2>1. m \in Int /\ 1 \in Int /\ (1 > m <=> m = 0)
    BY <1>1
  <2>. HIDE DEF m
  <2>2. IsFiniteSet(1..m) /\ Cardinality(1..m) = IF 1 > m THEN 0 ELSE m - 1 + 1
    BY <2>1, FS_Interval
  <2>. QED  BY <2>1, <2>2 DEF m
<1>3. IsFiniteSet(I) /\ n \in Nat /\ n <= Len(q)
  BY <1>1, <1>2, FS_Subset, FS_CardinalityType
<1>4. ASSUME NEW i \in I PROVE IsFiniteSet(Standing(I, i)) /\ Cardinality(Standing(I, i)) \in 1..n
  <2>1. Standing(I, i) \in SUBSET I /\ i \in Standing(I, i)
    BY <1>1 DEF Standing
  <2>2. IsFiniteSet(Standing(I, i)) /\ Cardinality(Standing(I, i)) <= n
    BY <1>3, <2>1, FS_Subset
  <2>3. Cardinality(Standing(I, i)) \in Nat /\ Cardinality(Standing(I, i)) # 0
    BY <2>1, <2>2, FS_CardinalityType, FS_EmptySet
  <2>. QED  BY <1>3, <2>2, <2>3
<1>5. ASSUME NEW i \in I, NEW j \in I, i < j
      PROVE  Cardinality(Standing(I, i)) # Cardinality(Standing(I, j))
  <2>1. Standing(I, i) \in SUBSET Standing(I, j) /\ j \notin Standing(I, i) /\ j \in Standing(I, j)
    BY <1>1, <1>5 DEF Standing
  <2>. QED  BY <1>4, <2>1, FS_Subset
<1>6. rank \in [I -> 1..n] /\ \A i, j \in I : rank[i] = rank[j] => i = j
  <2>1. rank \in [I -> 1..n]
    BY <1>4
  <2>2. ASSUME NEW i \in I, NEW j \in I, rank[i] = rank[j] PROVE i = j
    <3>1. i \in Int /\ j \in Int
      BY <1>1
    <3>. QED  BY <1>5, <2>2, <3>1
  <2>. QED  BY <2>1, <2>2
<1>7. \A k \in 1..n : \E i \in I : rank[i] = k
  <2>. HIDE DEF rank
  <2>1. rank \in Injection(I, 1..n)
    BY <1>6 DEF Injection, IsInjective
  <2>2. IsFiniteSet(1..n) /\ Cardinality(1..n) = n
    BY <1>3, FS_Interval
  <2>. HIDE DEF n
  <2>3. rank \in Surjection(I, 1..n)
    BY <2>1, <2>2, FS_Injection DEF n
  <2>. QED  BY <2>3 DEF Surjection
<1>8. f \in [1..n -> I] /\ \A k \in 1..n : rank[f[k]] = k
  <2>1. \A k \in 1..n : \E i \in I : Cardinality(Standing(I, i)) = k
    BY <1>7
  <2>2. ASSUME NEW k \in 1..n PROVE f[k] \in I /\ Cardinality(Standing(I, f[k])) = k
    <3>1. PICK i \in I : Cardinality(Standing(I, i)) = k
      BY <2>1
    <3>. QED  BY <3>1
  <2>. QED  BY <2>2
<1>. DEFINE s == At(q, I)
<1>9. s = [k \in 1..n |-> q[f[k]]]
  BY DEF At
<1>. HIDE DEF f, rank, n, s
<1>10. \A k \in 1..n : f[k] \in DOMAIN q /\ q[f[k]] \in S
  BY <1>1, <1>8
<1>11. s \in Seq(S) /\ Len(s) = n /\ DOMAIN s = 1..n
  BY <1>3, <1>9, <1>10
<1>12. \A k, l \in 1..n : f[k] = f[l] => k = l
  BY <1>8
<1>13. \A i \in I : \E k \in 1..n : f[k] = i
  <2>. SUFFICES ASSUME NEW i \in I PROVE \E k \in 1..n : f[k] = i
    OBVIOUS
  <2>1. rank[i] \in 1..n /\ f[rank[i]] \in I /\ rank[f[rank[i]]] = rank[i]
    BY <1>6, <1>8
  <2>. QED  BY <1>6, <2>1
<1>14. \A k \in DOMAIN s : s[k] = q[f[k]]
  BY <1>9, <1>11
<1>15. f \in [DOMAIN s -> I]
  BY <1>8, <1>11
<1>16. /\ \A k, l \in DOMAIN s : f[k] = f[l] => k = l
       /\ \A i \in I : \E k \in DOMAIN s : f[k] = i
  BY <1>11, <1>12, <1>13
<1>17. s \in Seq(S) /\ Len(s) <= Len(q)
  BY <1>3, <1>11
<1>18. \E g \in [DOMAIN s -> I] :
         /\ \A k \in DOMAIN s : s[k] = q[g[k]]
         /\ \A k, l \in DOMAIN s : g[k] = g[l] => k = l
         /\ \A i \in I : \E k \in DOMAIN s : g[k] = i
  BY <1>14, <1>15, <1>16
<1>. QED  BY <1>17, <1>18 DEF s

\* A set of entries has one that is newest.
LEMMA NewestIs ==
  ASSUME NEW S \in SUBSET Entry, S # {}
  PROVE  Newest(S) \in S /\ \A f \in S : f.seq <= Newest(S).seq
<1>. DEFINE T == {MaxSeq - e.seq : e \in S}
<1>1. \A e \in S : e.seq \in 1..MaxSeq /\ MaxSeq \in Nat
  BY UploadNumbers DEF Entry
<1>2. T \subseteq Nat /\ T # {}
  BY <1>1
<1>3. PICK x \in T : \A y \in T : ~(<<y, x>> \in OpToRel(<, Nat))
  <2>. HIDE DEF T
  <2>. QED  BY <1>2, NatLessThanWellFounded, WFMin
<1>4. PICK e \in S : x = MaxSeq - e.seq
  OBVIOUS
<1>5. \A f \in S : f.seq <= e.seq
  <2>. SUFFICES ASSUME NEW f \in S PROVE f.seq <= e.seq
    OBVIOUS
  <2>1. MaxSeq - f.seq \in T
    OBVIOUS
  <2>2. ~(MaxSeq - f.seq < x)
    BY <1>2, <1>3, <2>1 DEF OpToRel
  <2>. QED  BY <1>1, <1>4, <2>2
<1>. QED  BY <1>5 DEF Newest

\* What stays of a queue is a queue, and has what stood there.
LEMMA AtKeeps ==
  ASSUME NEW q, NEW n, QueueOK(q, n), NEW I \in SUBSET DOMAIN q
  PROVE  QueueOK(At(q, I), n) /\ Range(At(q, I)) = {q[i] : i \in I}
<1>1. q \in Seq(Entry) /\ Len(q) \in Nat /\ Len(q) <= Cap
  BY DEF QueueOK
<1>. DEFINE s == At(q, I)
<1>2. PICK f \in [DOMAIN s -> I] :
        /\ \A k \in DOMAIN s : s[k] = q[f[k]]
        /\ \A k, l \in DOMAIN s : f[k] = f[l] => k = l
        /\ \A i \in I : \E k \in DOMAIN s : f[k] = i
  BY <1>1, AtIs
<1>3. s \in Seq(Entry) /\ Len(s) <= Len(q)
  BY <1>1, AtIs
<1>. HIDE DEF s
<1>4. Len(s) <= Cap
  BY <1>1, <1>3, UploadNumbers
<1>5. Distinct(s)
  BY <1>2 DEF QueueOK, Distinct
<1>6. \A k \in DOMAIN s : s[k].seq <= n
  BY <1>2 DEF QueueOK
<1>7. Range(s) = {q[i] : i \in I}
  BY <1>2 DEF Range
<1>. QED  BY <1>3, <1>4, <1>5, <1>6, <1>7 DEF QueueOK, s

\* prune leaves a queue.
LEMMA PrunedKeeps ==
  ASSUME NEW q, NEW n, QueueOK(q, n) PROVE QueueOK(Pruned(q), n)
<1>1. {i \in DOMAIN q : q[i].seq \notin old} \in SUBSET DOMAIN q
  OBVIOUS
<1>. QED  BY <1>1, AtKeeps DEF Pruned

\* An entry that is queued takes the place of the one of its id, or the last place.
LEMMA PutKeeps ==
  ASSUME NEW q, NEW n \in Nat, QueueOK(q, n), NEW e \in Entry, e.seq = n + 1
  PROVE  QueueOK(Put(q, e), n + 1)
<1>1. /\ q \in Seq(Entry) /\ Len(q) \in Nat /\ Len(q) <= Cap /\ DOMAIN q = 1..Len(q) /\ Cap \in Nat \ {0}
      /\ \A i \in DOMAIN q : q[i] \in Entry /\ q[i].seq \in Nat /\ q[i].seq <= n
  <2>1. q \in Seq(Entry) /\ Len(q) <= Cap /\ \A i \in DOMAIN q : q[i].seq <= n
    BY DEF QueueOK
  <2>2. \A i \in DOMAIN q : q[i] \in Entry
    BY <2>1
  <2>. QED  BY <2>1, <2>2, UploadNumbers DEF Entry
<1>2. Distinct(q)
  BY DEF QueueOK
<1>3. CASE Places(q, e.id) # {}
  <2>1. Put(q, e) = [i \in DOMAIN q |-> IF i \in Places(q, e.id) THEN e ELSE q[i]]
    BY <1>3 DEF Put
  <2>. DEFINE s == Put(q, e)
  <2>. HIDE DEF s
  <2>2. /\ s \in Seq(Entry) /\ Len(s) = Len(q) /\ DOMAIN s = DOMAIN q
        /\ \A i \in DOMAIN q : s[i] = IF i \in Places(q, e.id) THEN e ELSE q[i]
    <3>1. s \in [1..Len(q) -> Entry]
      BY <1>1, <2>1 DEF s
    <3>. QED  BY <1>1, <2>1, <3>1 DEF s
  <2>3. \A i \in DOMAIN q : i \in Places(q, e.id) <=> q[i].id = e.id
    BY DEF Places
  <2>4. \A i \in DOMAIN q : q[i].seq # e.seq
    BY <1>1
  <2>5. Distinct(s)
    BY <1>2, <2>2, <2>3, <2>4 DEF Distinct
  <2>6. \A i \in DOMAIN s : s[i].seq <= n + 1
    BY <1>1, <2>2
  <2>. QED  BY <1>1, <2>2, <2>5, <2>6 DEF QueueOK, s
<1>4. CASE Places(q, e.id) = {}
  <2>1. \A i \in DOMAIN q : q[i].id # e.id /\ q[i].seq # e.seq
    BY <1>1, <1>4 DEF Places
  <2>2. CASE Len(q) >= Cap
    <3>. DEFINE t == Tail(q)
                s == Append(t, e)
    <3>1. /\ t \in Seq(Entry) /\ Len(t) = Len(q) - 1 /\ DOMAIN t = 1..(Len(q) - 1)
          /\ \A i \in 1..(Len(q) - 1) : t[i] = q[i + 1] /\ i + 1 \in DOMAIN q
      BY <1>1, <2>2
    <3>. HIDE DEF t
    <3>2. /\ s \in Seq(Entry) /\ Len(s) = Len(q) /\ DOMAIN s = 1..Len(q) /\ s[Len(q)] = e
          /\ \A i \in 1..(Len(q) - 1) : s[i] = t[i]
      <4>1. /\ s \in Seq(Entry) /\ Len(s) = Len(t) + 1 /\ DOMAIN s = 1..(Len(t) + 1) /\ s[Len(t) + 1] = e
            /\ \A i \in 1..Len(t) : s[i] = t[i]
        BY <3>1
      <4>2. Len(t) + 1 = Len(q) /\ Len(t) = Len(q) - 1
        BY <1>1, <3>1
      <4>. QED  BY <4>1, <4>2
    <3>. HIDE DEF s
    <3>3. \A i \in DOMAIN s : IF i = Len(q) THEN s[i] = e ELSE i + 1 \in DOMAIN q /\ s[i] = q[i + 1]
      BY <1>1, <3>1, <3>2
    <3>4. Distinct(s)
      <4>. SUFFICES ASSUME NEW i \in DOMAIN s, NEW j \in DOMAIN s, s[i].id = s[j].id \/ s[i].seq = s[j].seq
                    PROVE  i = j
        BY DEF Distinct
      <4>1. i \in Int /\ j \in Int
        BY <3>2
      <4>2. CASE i # Len(q) /\ j # Len(q)
        BY <1>2, <3>3, <4>1, <4>2 DEF Distinct
      <4>3. CASE i = Len(q) \/ j = Len(q)
        BY <2>1, <3>3, <4>3
      <4>. QED  BY <4>2, <4>3
    <3>5. \A i \in DOMAIN s : s[i].seq <= n + 1
      BY <1>1, <3>3
    <3>6. Put(q, e) = s
      BY <1>4, <2>2 DEF Put, s, t
    <3>. QED  BY <1>1, <3>2, <3>4, <3>5, <3>6 DEF QueueOK
  <2>3. CASE ~(Len(q) >= Cap)
    <3>. DEFINE s == Append(q, e)
    <3>1. /\ s \in Seq(Entry) /\ Len(s) = Len(q) + 1 /\ DOMAIN s = 1..(Len(q) + 1) /\ s[Len(q) + 1] = e
          /\ \A i \in DOMAIN q : s[i] = q[i]
      BY <1>1
    <3>. HIDE DEF s
    <3>2. \A i \in DOMAIN s : IF i = Len(q) + 1 THEN s[i] = e ELSE i \in DOMAIN q /\ s[i] = q[i]
      BY <1>1, <3>1
    <3>3. Distinct(s)
      BY <1>2, <2>1, <3>2 DEF Distinct
    <3>4. \A i \in DOMAIN s : s[i].seq <= n + 1
      BY <1>1, <3>2
    <3>5. Put(q, e) = s
      BY <1>4, <2>3 DEF Put, s
    <3>. QED  BY <1>1, <2>3, <3>1, <3>3, <3>4, <3>5 DEF QueueOK
  <2>. QED  BY <2>2, <2>3
<1>. QED  BY <1>3, <1>4

\* What is written of a queue is a store.
LEMMA WrittenIs ==
  ASSUME NEW q, NEW n, QueueOK(q, n), NEW tr \in [1..MaxSeq -> 0..MostTries]
  PROVE  StoreOK(Written(q, tr))
<1>1. /\ q \in Seq(Entry) /\ Len(q) \in Nat /\ Len(q) <= Cap /\ DOMAIN q = 1..Len(q)
      /\ \A i \in DOMAIN q : q[i] \in Entry /\ q[i].seq \in 1..MaxSeq
  <2>1. q \in Seq(Entry) /\ Len(q) <= Cap
    BY DEF QueueOK
  <2>2. \A i \in DOMAIN q : q[i] \in Entry
    BY <2>1
  <2>. QED  BY <2>1, <2>2 DEF Entry
<1>. DEFINE w == Written(q, tr)
<1>2. w = [i \in 1..Len(q) |-> <<q[i], tr[q[i].seq]>>]
  BY <1>1 DEF Written
<1>. HIDE DEF w
<1>3. w \in [1..Len(q) -> Entry \X (0..MostTries)] /\ \A i \in 1..Len(q) : w[i][1] = q[i]
  BY <1>1, <1>2
<1>4. w \in Seq(Entry \X (0..MostTries)) /\ Len(w) = Len(q) /\ DOMAIN w = 1..Len(q)
  BY <1>1, <1>3
<1>. QED  BY <1>1, <1>3, <1>4 DEF StoreOK, QueueOK, Distinct, w

\* The loop sends entries that are not tired.
LEMMA LoopIs ==
  ASSUME NEW S \in SUBSET Entry, NEW tr \in [1..MaxSeq -> 0..MostTries]
  PROVE  /\ Loop(S, tr) \in [now : SUBSET Entry, rest : SUBSET Entry]
         /\ \A e \in Loop(S, tr).now : tr[e.seq] < MaxTries
<1>. DEFINE left == {e \in S : ~Tired(e, tr)}
<1>1. CASE left = {}
  BY <1>1 DEF Loop, Idle
<1>2. CASE left # {}
  <2>1. Newest(left) \in left
    BY <1>2, NewestIs
  <2>2. Loop(S, tr) = [now |-> {Newest(left)}, rest |-> {e \in S : e.seq < Newest(left).seq}]
    BY <1>2 DEF Loop
  <2>3. Newest(left) \in Entry /\ ~(tr[Newest(left).seq] >= MaxTries)
    BY <2>1 DEF Tired
  <2>. HIDE DEF left
  <2>4. tr[Newest(left).seq] \in Nat
    BY <2>3, UploadNumbers DEF Entry
  <2>. QED  BY <2>2, <2>3, <2>4, UploadNumbers
<1>. QED  BY <1>1, <1>2

\* A drain that sends what is not tired, after one more try of what it sent, keeps the
\* tries of every entry within bounds.
LEMMA SendingKeeps ==
  ASSUME UploadInv, NEW k \in Drains, NEW x \in [now : SUBSET Entry, rest : SUBSET Entry],
         NEW d, d = [drains EXCEPT ![k] = x],
         NEW tr \in [1..MaxSeq -> Nat], \A e \in x.now : tr[e.seq] < MaxTries,
         \A s \in 1..MaxSeq : tr[s] = tries[s] \/ (tr[s] = tries[s] + 1 /\ k \in Sending(drains, s))
  PROVE  /\ d \in [Drains -> [now : SUBSET Entry, rest : SUBSET Entry]]
         /\ tr \in [1..MaxSeq -> 0..MostTries]
         /\ \A s \in 1..MaxSeq : tr[s] + Cardinality(Sending(d, s)) <= MostTries
<1>1. drains \in [Drains -> [now : SUBSET Entry, rest : SUBSET Entry]] /\ tries \in [1..MaxSeq -> 0..MostTries]
  BY DEF UploadInv
<1>2. d \in [Drains -> [now : SUBSET Entry, rest : SUBSET Entry]]
  BY <1>1
<1>3. d[k] = x /\ \A j \in Drains \ {k} : d[j] = drains[j]
  BY <1>1
<1>4. ASSUME NEW s \in 1..MaxSeq PROVE tr[s] + Cardinality(Sending(d, s)) <= MostTries /\ tr[s] \in 0..MostTries
  <2>. DEFINE A == Sending(d, s)
              B == Sending(drains, s)
  <2>1. A \in SUBSET Drains /\ B \in SUBSET Drains
    BY DEF Sending
  <2>2. /\ Cardinality(A) \in 0..Cardinality(Drains) /\ Cardinality(B) \in 0..Cardinality(Drains)
        /\ IsFiniteSet(A) /\ IsFiniteSet(B)
    BY <2>1, UploadNumbers
  <2>3. tr[s] \in Nat /\ tries[s] \in Nat /\ tries[s] + Cardinality(B) <= MostTries
    BY <1>1, UploadNumbers DEF UploadInv
  <2>4. k \in A => tr[s] < MaxTries
    BY <1>3 DEF Sending
  <2>5. k \notin A => A \in SUBSET (B \ {k})
    BY <1>3 DEF Sending
  <2>. HIDE DEF A, B
  <2>6. k \notin A => Cardinality(A) <= IF k \in B THEN Cardinality(B) - 1 ELSE Cardinality(B)
    <3>1. /\ IsFiniteSet(B \ {k})
          /\ Cardinality(B \ {k}) = IF k \in B THEN Cardinality(B) - 1 ELSE Cardinality(B)
      BY <2>2, FS_RemoveElement
    <3>. QED  BY <2>5, <3>1, FS_Subset
  <2>7. tr[s] = tries[s] \/ (tr[s] = tries[s] + 1 /\ k \in B)
    BY DEF B
  <2>8. MostTries = MaxTries + Cardinality(Drains) - 1 /\ MaxTries \in Nat /\ Cardinality(Drains) \in Nat
    BY UploadNumbers DEF MostTries
  <2>9. tr[s] + Cardinality(A) <= MostTries
    BY SMTT(30), <2>2, <2>3, <2>4, <2>6, <2>7, <2>8
  <2>10. tr[s] <= MostTries
    BY <2>2, <2>3, <2>8, <2>9
  <2>. QED  BY <2>3, <2>8, <2>9, <2>10 DEF A
<1>5. tr \in [1..MaxSeq -> 0..MostTries]
  BY <1>4
<1>. QED  BY <1>2, <1>4, <1>5

\* The invariant holds before the first run is submitted.
LEMMA UploadInitKeeps == UploadInit => UploadInv
<1>. SUFFICES ASSUME UploadInit PROVE UploadInv
  OBVIOUS
<1>1. QueueOK(queue, seq) /\ StoreOK(stored)
  BY UploadNumbers DEF UploadInit, QueueOK, StoreOK, Distinct
<1>2. tries \in [1..MaxSeq -> 0..MostTries]
  BY UploadNumbers DEF UploadInit, NoTries
<1>3. drains \in [Drains -> [now : SUBSET Entry, rest : SUBSET Entry]]
  BY DEF UploadInit, Idle
<1>4. \A s \in 1..MaxSeq : tries[s] + Cardinality(Sending(drains, s)) <= MostTries
  <2>1. \A s \in 1..MaxSeq : Sending(drains, s) = {} /\ tries[s] = 0
    BY DEF UploadInit, NoTries, Idle, Sending
  <2>. QED  BY <2>1, FS_EmptySet, UploadNumbers
<1>5. StorageMirrorsQueue
  BY DEF UploadInit, StorageMirrorsQueue, Written
<1>6. /\ local \in 0..MaxDistance /\ ladder \in 0..MaxDistance /\ flown \in 0..MaxDistance
      /\ seq \in 0..MaxSeq
  BY UploadNumbers DEF UploadInit
<1>7. /\ posts \subseteq Ids \X Distances /\ published \subseteq Distances
      /\ old \subseteq 1..MaxSeq /\ unsaved \in BOOLEAN
  BY DEF UploadInit
<1>. QED  BY <1>1, <1>2, <1>3, <1>4, <1>5, <1>6, <1>7 DEF UploadInv

\* submit
LEMMA SubmitKeeps ==
  ASSUME UploadInv, NEW d \in Distances, Submit(d) PROVE UploadInv'
<1>1. /\ local' \in 0..MaxDistance /\ flown' \in 0..MaxDistance /\ ladder' \in 0..MaxDistance
      /\ published' \subseteq Distances /\ posts' \subseteq Ids \X Distances
  <2>1. /\ local \in 0..MaxDistance /\ flown \in 0..MaxDistance /\ ladder \in 0..MaxDistance
        /\ d \in 0..MaxDistance
    BY UploadNumbers DEF UploadInv, Distances
  <2>2. local' \in 0..MaxDistance /\ flown' \in 0..MaxDistance /\ ladder' \in 0..MaxDistance
    BY <2>1 DEF Submit, Larger
  <2>3. published' \subseteq Distances
    BY DEF UploadInv, Submit
  <2>4. <<"run", d>> \in Ids \X Distances
    BY DEF Ids
  <2>5. posts' \subseteq Ids \X Distances
    BY <2>4 DEF UploadInv, Submit
  <2>. QED  BY <2>2, <2>3, <2>5
<1>2. UNCHANGED <<queue, tries, seq, old, stored, unsaved, drains>>
  BY DEF Submit, outbox
<1>. QED  BY <1>1, <1>2 DEF UploadInv, StorageMirrorsQueue, Written, Sending

\* Days pass.
LEMMA AgeKeeps ==
  ASSUME UploadInv, NEW n \in 1..MaxSeq, Age(n) PROVE UploadInv'
<1>1. old' \subseteq 1..MaxSeq
  BY UploadNumbers DEF UploadInv, Age
<1>. QED  BY <1>1 DEF UploadInv, Age, StorageMirrorsQueue, Written, Sending

\* persist leaves a store that mirrors the queue, or says it does not.
LEMMA PersistIs ==
  ASSUME UploadInv, Persist, NEW n, QueueOK(queue', n), tries' \in [1..MaxSeq -> 0..MostTries]
  PROVE  StoreOK(stored') /\ unsaved' \in BOOLEAN /\ StorageMirrorsQueue'
<1>1. StoreOK(Written(queue', tries'))
  BY WrittenIs
<1>. QED  BY <1>1 DEF Persist, UploadInv, StorageMirrorsQueue

\* uploadBest
LEMMA UploadBestKeeps ==
  ASSUME UploadInv, NEW k \in Drains, UploadBest(k) PROVE UploadInv'
<1>. DEFINE x == Loop(Range(queue'), tries)
<1>0. /\ QueueOK(queue, seq) /\ tries \in [1..MaxSeq -> 0..MostTries]
      /\ tries' = tries /\ queue' = Pruned(queue) /\ drains' = [drains EXCEPT ![k] = x]
      /\ UNCHANGED <<local, seq, old, ladder, published, flown>>
  BY DEF UploadInv, UploadBest
<1>1. QueueOK(queue', seq)
  BY <1>0, PrunedKeeps
<1>2. Range(queue') \in SUBSET Entry
  BY <1>1 DEF QueueOK, Range
<1>3. x \in [now : SUBSET Entry, rest : SUBSET Entry] /\ \A e \in x.now : tries[e.seq] < MaxTries
  BY <1>0, <1>2, LoopIs
<1>4. tries \in [1..MaxSeq -> Nat]
  BY <1>0, UploadNumbers
<1>. HIDE DEF x
<1>5. /\ drains' \in [Drains -> [now : SUBSET Entry, rest : SUBSET Entry]]
      /\ \A s \in 1..MaxSeq : tries[s] + Cardinality(Sending(drains', s)) <= MostTries
  BY <1>0, <1>3, <1>4, SendingKeeps
<1>6. posts' \subseteq Ids \X Distances
  BY DEF UploadInv, UploadBest, Ids, Distances
<1>7. StoreOK(stored') /\ unsaved' \in BOOLEAN /\ StorageMirrorsQueue'
  <2>1. CASE queue' # queue
    BY <1>0, <1>1, <2>1, PersistIs DEF UploadBest
  <2>2. CASE queue' = queue
    BY <1>0, <2>2 DEF UploadBest, UploadInv, StorageMirrorsQueue, Written
  <2>. QED  BY <2>1, <2>2
<1>. QED  BY <1>0, <1>1, <1>5, <1>6, <1>7 DEF UploadInv

\* enqueue
LEMMA EnqueueKeeps ==
  ASSUME UploadInv, NEW id \in Ids, NEW val \in Distances, Enqueue(id, val)
  PROVE  /\ QueueOK(queue', seq') /\ tries' \in [1..MaxSeq -> 0..MostTries] /\ seq' \in 0..MaxSeq
         /\ old' \subseteq 1..MaxSeq /\ unsaved' \in BOOLEAN /\ StoreOK(stored') /\ StorageMirrorsQueue'
         /\ \A s \in 1..MaxSeq : tries'[s] + Cardinality(Sending(drains, s)) <= MostTries
<1>. DEFINE e == [id |-> id, val |-> val, seq |-> seq']
<1>0. /\ QueueOK(queue, seq) /\ tries \in [1..MaxSeq -> 0..MostTries] /\ seq \in Nat
      /\ seq' = seq + 1 /\ seq' \in 1..MaxSeq
      /\ queue' = Put(Pruned(queue), e) /\ tries' = [tries EXCEPT ![seq'] = 0]
      /\ MaxSeq \in Nat /\ MostTries \in Nat
  BY UploadNumbers DEF UploadInv, Enqueue
<1>1. e \in Entry /\ e.seq = seq + 1
  BY <1>0 DEF Entry
<1>. HIDE DEF e
<1>2. QueueOK(Pruned(queue), seq)
  BY <1>0, PrunedKeeps
<1>3. QueueOK(queue', seq')
  BY <1>0, <1>1, <1>2, PutKeeps
<1>4. tries' \in [1..MaxSeq -> 0..MostTries]
  BY <1>0
<1>5. old' \subseteq 1..MaxSeq
  BY DEF UploadInv, Enqueue
<1>6. StoreOK(stored') /\ unsaved' \in BOOLEAN /\ StorageMirrorsQueue'
  <2>1. CASE Persist
    BY <1>3, <1>4, <2>1, PersistIs
  <2>2. CASE stored' = Written(Pruned(queue), tries) /\ unsaved' = TRUE
    BY <1>0, <1>2, <2>2, WrittenIs DEF StorageMirrorsQueue
  <2>. QED  BY <2>1, <2>2 DEF Enqueue
<1>7. ASSUME NEW s \in 1..MaxSeq PROVE tries'[s] + Cardinality(Sending(drains, s)) <= MostTries
  <2>1. CASE s = seq'
    <3>1. tries'[s] = 0
      BY <1>0, <2>1
    <3>2. Sending(drains, s) \in SUBSET Drains
      BY DEF Sending
    <3>3. Cardinality(Sending(drains, s)) \in 0..Cardinality(Drains)
      BY <3>2, UploadNumbers
    <3>. QED  BY <3>1, <3>3, UploadNumbers DEF MostTries
  <2>2. CASE s # seq'
    BY <1>0, <2>2 DEF UploadInv
  <2>. QED  BY <2>1, <2>2
<1>. QED  BY <1>0, <1>3, <1>4, <1>5, <1>6, <1>7

\* The answer to a direct post.
LEMMA PostedKeeps ==
  ASSUME UploadInv, NEW p \in posts, NEW ok \in BOOLEAN, NEW taken \in BOOLEAN, Posted(p, ok, taken)
  PROVE  UploadInv'
<1>1. p[1] \in Ids /\ p[2] \in Distances /\ p[2] \in 0..MaxDistance
  <2>1. p \in Ids \X Distances
    BY DEF UploadInv
  <2>. QED  BY <2>1, UploadNumbers DEF Distances
<1>2. /\ ladder' \in 0..MaxDistance /\ posts' \subseteq Ids \X Distances
      /\ UNCHANGED <<local, drains, published, flown>>
  BY <1>1 DEF UploadInv, Posted, Larger
<1>3. CASE ok
  <2>1. UNCHANGED <<queue, tries, seq, old, stored, unsaved>>
    BY <1>3 DEF Posted, outbox
  <2>. QED  BY <1>2, <2>1 DEF UploadInv, StorageMirrorsQueue, Written, Sending
<1>4. CASE ~ok
  <2>1. Enqueue(p[1], p[2])
    BY <1>4 DEF Posted
  <2>2. /\ QueueOK(queue', seq') /\ tries' \in [1..MaxSeq -> 0..MostTries] /\ seq' \in 0..MaxSeq
        /\ old' \subseteq 1..MaxSeq /\ unsaved' \in BOOLEAN /\ StoreOK(stored') /\ StorageMirrorsQueue'
        /\ \A s \in 1..MaxSeq : tries'[s] + Cardinality(Sending(drains, s)) <= MostTries
    BY <1>1, <2>1, EnqueueKeeps
  <2>. QED  BY <1>2, <2>2 DEF UploadInv
<1>. QED  BY <1>3, <1>4

\* What a delivery leaves queued is what has another id.
LEMMA KeptIs ==
  ASSUME UploadInv, NEW e
  PROVE  QueueOK(Kept(e), seq) /\ Range(Kept(e)) = {f \in Queued : f.id # e.id}
<1>. DEFINE I == {i \in DOMAIN queue : queue[i].id # e.id}
<1>1. QueueOK(queue, seq) /\ I \in SUBSET DOMAIN queue
  BY DEF UploadInv
<1>2. QueueOK(At(queue, I), seq) /\ Range(At(queue, I)) = {queue[i] : i \in I}
  <2>. HIDE DEF I
  <2>. QED  BY <1>1, AtKeeps
<1>3. {queue[i] : i \in I} = {f \in Queued : f.id # e.id}
  BY DEF Queued, Range
<1>. QED  BY <1>2, <1>3 DEF Kept

\* The answer to a drain's post.
LEMMA DrainedKeeps ==
  ASSUME UploadInv, NEW k \in Drains, NEW ok \in BOOLEAN, NEW taken \in BOOLEAN, Drained(k, ok, taken)
  PROVE  UploadInv'
<1>1. PICK e \in drains[k].now :
        /\ tries' = [tries EXCEPT ![e.seq] = @ + 1]
        /\ ladder' = IF taken THEN Larger(ladder, e.val) ELSE ladder
        /\ queue' = IF ok THEN Kept(e) ELSE queue
  BY DEF Drained
<1>. DEFINE x == IF ok THEN Loop(drains[k].rest, tries') ELSE Idle
<1>2. /\ drains' = [drains EXCEPT ![k] = x] /\ Persist
      /\ UNCHANGED <<local, seq, old, posts, published, flown>>
  BY DEF Drained, PersistAfter
<1>3. /\ drains[k] \in [now : SUBSET Entry, rest : SUBSET Entry]
      /\ tries \in [1..MaxSeq -> 0..MostTries] /\ tries \in [1..MaxSeq -> Nat]
  BY UploadNumbers DEF UploadInv
<1>4. e \in Entry /\ e.seq \in 1..MaxSeq /\ e.val \in Distances /\ drains[k].rest \in SUBSET Entry
  BY <1>3 DEF Entry
<1>5. tries' \in [1..MaxSeq -> Nat] /\ \A s \in 1..MaxSeq : tries'[s] = IF s = e.seq THEN tries[s] + 1 ELSE tries[s]
  BY <1>1, <1>3, <1>4
<1>6. k \in Sending(drains, e.seq)
  BY DEF Sending
<1>7. tries' \in [1..MaxSeq -> 0..MostTries]
  <2>1. ASSUME NEW s \in 1..MaxSeq PROVE tries'[s] \in 0..MostTries
    <3>1. CASE s = e.seq
      <4>1. Sending(drains, s) \in SUBSET Drains
        BY DEF Sending
      <4>2. Cardinality(Sending(drains, s)) \in Nat /\ IsFiniteSet(Sending(drains, s))
        BY <4>1, UploadNumbers
      <4>3. Cardinality(Sending(drains, s)) # 0
        BY <1>6, <3>1, <4>2, FS_EmptySet
      <4>4. tries[s] + Cardinality(Sending(drains, s)) <= MostTries /\ tries[s] \in Nat
        BY <1>3 DEF UploadInv
      <4>. QED  BY <1>5, <3>1, <4>2, <4>3, <4>4, UploadNumbers
    <3>2. CASE s # e.seq
      BY <1>3, <1>5, <3>2
    <3>. QED  BY <3>1, <3>2
  <2>. QED  BY <1>5, <2>1
<1>8. x \in [now : SUBSET Entry, rest : SUBSET Entry] /\ \A f \in x.now : tries'[f.seq] < MaxTries
  <2>1. CASE ok
    BY <1>4, <1>7, <2>1, LoopIs
  <2>2. CASE ~ok
    BY <2>2 DEF Idle
  <2>. QED  BY <2>1, <2>2
<1>. HIDE DEF x
<1>9. \A s \in 1..MaxSeq : tries'[s] = tries[s] \/ (tries'[s] = tries[s] + 1 /\ k \in Sending(drains, s))
  BY <1>5, <1>6
<1>10. /\ drains' \in [Drains -> [now : SUBSET Entry, rest : SUBSET Entry]]
       /\ \A s \in 1..MaxSeq : tries'[s] + Cardinality(Sending(drains', s)) <= MostTries
  BY <1>2, <1>5, <1>8, <1>9, SendingKeeps
<1>11. QueueOK(queue', seq)
  BY <1>1, KeptIs DEF UploadInv
<1>12. StoreOK(stored') /\ unsaved' \in BOOLEAN /\ StorageMirrorsQueue'
  BY <1>2, <1>7, <1>11, PersistIs
<1>13. ladder' \in 0..MaxDistance
  BY <1>1, <1>4, UploadNumbers DEF UploadInv, Larger, Distances
<1>. QED  BY <1>2, <1>7, <1>10, <1>11, <1>12, <1>13 DEF UploadInv

\* The next page has the queue and the tries that storage held, and counts on from them.
LEMMA ReloadKeeps ==
  ASSUME UploadInv, Reload PROVE UploadInv'
<1>1. /\ stored \in Seq(Entry \X (0..MostTries)) /\ Len(stored) \in Nat /\ Len(stored) <= Cap
      /\ DOMAIN stored = 1..Len(stored)
      /\ \A i, j \in DOMAIN stored :
           (stored[i][1].id = stored[j][1].id \/ stored[i][1].seq = stored[j][1].seq) => i = j
  BY DEF UploadInv, StoreOK
<1>2. \A i \in DOMAIN stored :
        /\ stored[i] \in Entry \X (0..MostTries)
        /\ stored[i] = <<stored[i][1], stored[i][2]>>
        /\ stored[i][1] \in Entry /\ stored[i][2] \in 0..MostTries /\ stored[i][1].seq \in 1..MaxSeq
  <2>1. \A i \in DOMAIN stored : stored[i] \in Entry \X (0..MostTries)
    BY <1>1
  <2>. QED  BY <2>1 DEF Entry
<1>3. /\ queue' = [i \in DOMAIN stored |-> stored[i][1]] /\ unsaved' = FALSE /\ posts' = {}
      /\ drains' = [k \in Drains |-> Idle] /\ old' = old \cap 1..seq'
      /\ seq' = (IF queue' = <<>> THEN 0 ELSE Newest(Range(queue')).seq)
      /\ UNCHANGED <<local, stored, published, flown>>
  BY DEF Reload, Resumed
<1>4. queue' \in Seq(Entry) /\ Len(queue') = Len(stored) /\ DOMAIN queue' = DOMAIN stored
      /\ \A i \in DOMAIN stored : queue'[i] = stored[i][1]
  <2>1. queue' \in [1..Len(stored) -> Entry]
    BY <1>1, <1>2, <1>3
  <2>. QED  BY <1>1, <1>3, <2>1
<1>5. seq' \in 0..MaxSeq /\ \A i \in DOMAIN queue' : queue'[i].seq <= seq'
  <2>1. CASE queue' = <<>>
    BY <1>3, <2>1, UploadNumbers
  <2>2. CASE queue' # <<>>
    <3>1. Range(queue') \in SUBSET Entry /\ Range(queue') # {}
      BY <1>1, <1>2, <1>4, <2>2 DEF Range
    <3>2. Newest(Range(queue')) \in Entry /\ \A f \in Range(queue') : f.seq <= Newest(Range(queue')).seq
      BY <3>1, NewestIs
    <3>3. seq' = Newest(Range(queue')).seq
      BY <1>3, <2>2
    <3>4. seq' \in 1..MaxSeq
      BY <3>2, <3>3 DEF Entry
    <3>5. \A i \in DOMAIN queue' : queue'[i] \in Range(queue')
      BY DEF Range
    <3>. QED  BY <3>2, <3>3, <3>4, <3>5, UploadNumbers
  <2>. QED  BY <2>1, <2>2
<1>6. Distinct(queue')
  BY <1>1, <1>4 DEF Distinct
<1>7. QueueOK(queue', seq')
  BY <1>1, <1>4, <1>5, <1>6 DEF QueueOK
<1>. DEFINE held(s) == IF \E w \in Range(stored) : w[1].seq = s
                       THEN (CHOOSE w \in Range(stored) : w[1].seq = s)[2] ELSE 0
<1>8. tries' = [s \in 1..MaxSeq |-> held(s)]
  BY DEF Reload, Resumed
<1>9. \A i \in DOMAIN stored : held(stored[i][1].seq) = stored[i][2]
  <2>. SUFFICES ASSUME NEW i \in DOMAIN stored PROVE held(stored[i][1].seq) = stored[i][2]
    OBVIOUS
  <2>. DEFINE s == stored[i][1].seq
              w == CHOOSE v \in Range(stored) : v[1].seq = s
  <2>1. stored[i] \in Range(stored) /\ stored[i][1].seq = s
    BY DEF Range
  <2>2. w \in Range(stored) /\ w[1].seq = s
    BY <2>1
  <2>. HIDE DEF w
  <2>3. w = stored[i]
    BY <1>1, <2>2 DEF Range
  <2>. QED  BY <2>1, <2>3 DEF w
<1>10. \A s \in 1..MaxSeq : held(s) \in 0..MostTries
  <2>. SUFFICES ASSUME NEW s \in 1..MaxSeq PROVE held(s) \in 0..MostTries
    OBVIOUS
  <2>1. CASE \E w \in Range(stored) : w[1].seq = s
    <3>1. PICK w \in Range(stored) : w[1].seq = s
      BY <2>1
    <3>2. PICK i \in DOMAIN stored : w = stored[i]
      BY <3>1 DEF Range
    <3>3. held(stored[i][1].seq) = stored[i][2] /\ stored[i][1].seq = s
      BY <1>9, <3>1, <3>2
    <3>. HIDE DEF held
    <3>. QED  BY <1>2, <3>3
  <2>2. CASE ~(\E w \in Range(stored) : w[1].seq = s)
    BY <2>2, UploadNumbers
  <2>. QED  BY <2>1, <2>2
<1>. HIDE DEF held
<1>11. tries' \in [1..MaxSeq -> 0..MostTries]
  BY <1>8, <1>10
<1>12. StorageMirrorsQueue'
  <2>1. \A i \in DOMAIN queue' : tries'[queue'[i].seq] = stored[i][2]
    BY <1>2, <1>4, <1>8, <1>9
  <2>2. \A i \in DOMAIN queue' : <<queue'[i], tries'[queue'[i].seq]>> = stored[i]
    BY <1>2, <1>4, <2>1
  <2>3. Written(queue', tries') = [i \in DOMAIN stored |-> stored[i]]
    BY <1>4, <2>2 DEF Written
  <2>4. stored = [i \in DOMAIN stored |-> stored[i]]
    BY <1>1
  <2>. QED  BY <1>3, <2>3, <2>4 DEF StorageMirrorsQueue
<1>13. \A s \in 1..MaxSeq : tries'[s] + Cardinality(Sending(drains', s)) <= MostTries
  <2>1. \A s \in 1..MaxSeq : Sending(drains', s) = {}
    BY <1>3 DEF Sending, Idle
  <2>2. \A s \in 1..MaxSeq : Cardinality(Sending(drains', s)) = 0
    BY <2>1, FS_EmptySet
  <2>. QED  BY <1>11, <2>2, UploadNumbers
<1>14. ladder' \in 0..MaxDistance
  <2>1. PICK v \in {ladder} \cup {p[2] : p \in posts} : ladder' = Larger(ladder, v)
    BY DEF Reload, Resumed
  <2>2. ladder \in 0..MaxDistance /\ \A p \in posts : p[2] \in Distances
    BY DEF UploadInv
  <2>3. v \in 0..MaxDistance
    BY <2>1, <2>2, UploadNumbers DEF Distances
  <2>. QED  BY <2>1, <2>2, <2>3 DEF Larger
<1>15. drains' \in [Drains -> [now : SUBSET Entry, rest : SUBSET Entry]]
  BY <1>3 DEF Idle
<1>16. old' \subseteq 1..MaxSeq
  BY <1>3 DEF UploadInv
<1>17. StoreOK(stored')
  BY <1>3 DEF UploadInv
<1>. QED  BY <1>3, <1>5, <1>7, <1>11, <1>12, <1>13, <1>14, <1>15, <1>16, <1>17 DEF UploadInv

\* Every step of the uploader keeps the invariant: one case per operation of the board
\* and of the outbox.
LEMMA UploadStepKeeps ==
  ASSUME UploadInv, [UploadNext]_uploadVars PROVE UploadInv'
<1>1. ASSUME NEW d \in Distances, Submit(d) PROVE UploadInv'
  BY <1>1, SubmitKeeps
<1>2. ASSUME NEW k \in Drains, UploadBest(k) PROVE UploadInv'
  BY <1>2, UploadBestKeeps
<1>3. ASSUME NEW p \in posts, NEW ok \in BOOLEAN, NEW taken \in BOOLEAN, Posted(p, ok, taken) PROVE UploadInv'
  BY <1>3, PostedKeeps
<1>4. ASSUME NEW k \in Drains, NEW ok \in BOOLEAN, NEW taken \in BOOLEAN, Drained(k, ok, taken) PROVE UploadInv'
  BY <1>4, DrainedKeeps
<1>5. ASSUME NEW n \in 1..MaxSeq, Age(n) PROVE UploadInv'
  BY <1>5, AgeKeeps
<1>6. CASE UNCHANGED uploadVars
  BY <1>6 DEF uploadVars, UploadInv, StorageMirrorsQueue, Written, Sending
<1>. QED  BY <1>1, <1>2, <1>3, <1>4, <1>5, <1>6, ReloadKeeps DEF UploadNext

\* The inductive invariant of the uploader: a queue of at most Cap entries with places and
\* numbers of their own, the storage its mirror after every save, and no entry sent more
\* often than one drain may send it plus once by each other drain (OfflineOutbox).
THEOREM UploadInductive == UploadSpec => []UploadInv
BY UploadInitKeeps, UploadStepKeeps, PTL DEF UploadSpec

\* Every field of the board and the outbox has its type, and the queue never grows past Cap
\* (OfflineOutbox.enqueue, prune).
THEOREM UploadTypeCorrect == UploadSpec => []UploadTypeOK
<1>1. UploadInv => UploadTypeOK
  <2>. SUFFICES ASSUME UploadInv PROVE UploadTypeOK
    OBVIOUS
  <2>1. queue \in Seq(Entry) /\ Len(queue) <= Cap
    BY DEF UploadInv, QueueOK
  <2>2. Queued \subseteq Entry
    BY <2>1 DEF Queued, Range
  <2>3. stored \in Seq(Entry \X (0..MostTries))
    BY DEF UploadInv, StoreOK
  <2>4. Range(stored) \subseteq Entry \X Nat
    <3>1. \A i \in DOMAIN stored : stored[i] \in Entry \X (0..MostTries)
      BY <2>3
    <3>2. Entry \X (0..MostTries) \subseteq Entry \X Nat
      BY UploadNumbers
    <3>. QED  BY <3>1, <3>2 DEF Range
  <2>5. \A k \in Drains : drains[k].now \cup drains[k].rest \subseteq Entry
    BY DEF UploadInv
  <2>. QED  BY <2>1, <2>2, <2>4, <2>5 DEF UploadInv, UploadTypeOK, MostTries
<1>. QED  BY UploadInductive, <1>1, PTL

\* The outbox never holds two entries of one place of the board: whoever enters one takes the
\* older out, and no drain puts one back (OfflineOutbox.enqueue, drain).
THEOREM KeysAreUnique == UploadSpec => []OneEntryPerKey
<1>1. UploadInv => OneEntryPerKey
  BY DEF UploadInv, QueueOK, Distinct, OneEntryPerKey
<1>. QED  BY UploadInductive, <1>1, PTL

\* The stored outbox is the queue in memory, except after a save the storage refused: what a
\* reload finds is what the game would have sent (OfflineOutbox.persist).
THEOREM StorageMirrors == UploadSpec => []StorageMirrorsQueue
<1>1. UploadInv => StorageMirrorsQueue
  BY DEF UploadInv
<1>. QED  BY UploadInductive, <1>1, PTL

-----------------------------------------------------------------------------
(***************************************************************************)
(* The rooms of peers                                                      *)
(***************************************************************************)

\* A message that some link carries from g.
Carried(ch, g, m) == \E s \in Peers : \E i \in 1..Len(ch[g][s]) : ch[g][s][i] = m

Given(n, g) == [n |-> n, by |-> g]

\* A place of q that g gave and some screen shows, or a message of g is about to make it show.
Told(cl, tr, ch, q, n, g) ==
    /\ n # 0
    /\ \/ cl[q].place = Given(n, g)
       \/ \E p \in Peers : q \in DOMAIN tr[p] /\ tr[p][q].place = Given(n, g)
       \/ Carried(ch, g, Place(q, n))

TrackMaps == UNION {[S -> Track] : S \in SUBSET Peers}
Channels == [Peers -> [Peers -> Seq(Msgs)]]
Lobbies == [in : SUBSET Peers, leader : Peers \cup {None}, scope : Scopes]

PeerTypes ==
    /\ lobby \in Lobbies
    /\ \A l \in open : l \subseteq Peers /\ Cardinality(l) = 2
    /\ client \in [Peers -> Clients]
    /\ tracks \in [Peers -> TrackMaps]
    /\ chan \in Channels
    /\ faults \in 0..MaxFaults

\* Nobody meets itself; who is in the lobby, or has nothing to do with it, waits for nothing
\* of the service.
Settled(p, c) == /\ p \notin c.seen
                 /\ p \in lobby.in => c.asks = "no" /\ c.state # "offline"
                 /\ c.state \in {"offline", "gone"} => c.asks = "no"
Orderly == \A p \in Peers : Settled(p, client[p])

\* Whoever has not left knows whom it gave a place, and has counted them; a place it gave is
\* one pilot's, and all it gave that pilot, but for its own: there the last is the greatest.
Awards ==
    /\ \A q, g \in Peers, n \in Nat : Told(client, tracks, chan, q, n, g) =>
         \/ client[g].state = "gone"
         \/ q \in client[g].finished /\ n \in 1..client[g].order
    /\ \A q, r, g \in Peers, n, m \in Nat :
         Told(client, tracks, chan, q, n, g) /\ Told(client, tracks, chan, r, m, g) =>
           (n = m => q = r) /\ (q = r /\ q # g => n = m)
    /\ \A g \in Peers, n \in Nat :
         Told(client, tracks, chan, g, n, g) /\ client[g].place.by = g => n <= client[g].place.n

PeerInv == PeerTypes /\ Orderly /\ Awards

\* A step of p: its fields become c, its tracks t.
Turn(p, c, t) ==
    /\ c \in Clients /\ t \in TrackMaps /\ chan' \in Channels
    /\ client' = [client EXCEPT ![p] = c] /\ tracks' = [tracks EXCEPT ![p] = t]
    /\ client[p].state = "gone" <=> c.state = "gone"

\* It leaves the lobby as it is, and may only lose links.
Steady(p, c) ==
    /\ lobby' = lobby /\ \A l \in open' : l \in open
    /\ faults' \in 0..MaxFaults
    /\ Settled(p, c)

\* A step that gives out no place.
QuietTurn(p, c, t) ==
    /\ client[p].finished \subseteq c.finished /\ c.order = client[p].order
    /\ \/ c.place \in {NoPlace, client[p].place}
       \/ \E g \in Peers \ {p}, n \in Nat : c.place = Given(n, g) /\ Told(client, tracks, chan, p, n, g)
    /\ \A q \in DOMAIN t :
         \/ t[q].place = NoPlace
         \/ q \in DOMAIN tracks[p] /\ t[q].place = tracks[p][q].place
         \/ \E g \in Peers, n \in Nat : t[q].place = Given(n, g) /\ Told(client, tracks, chan, q, n, g)
    /\ \A g, q \in Peers, n \in Nat : Carried(chan', g, Place(q, n)) => Carried(chan, g, Place(q, n))

\* A step in which p gives x the next place.
AwardTurn(p, c, t, x) ==
    /\ client[p].state # "gone" /\ x \in Peers /\ (x = p \/ x \notin client[p].finished)
    /\ c.finished = client[p].finished \cup {x} /\ c.order = client[p].order + 1
    /\ c.place = IF x = p THEN Given(c.order, p) ELSE client[p].place
    /\ \A q \in DOMAIN t : \/ t[q].place = NoPlace
                           \/ q \in DOMAIN tracks[p] /\ t[q].place = tracks[p][q].place
                           \/ q = x /\ t[q].place = Given(c.order, p)
    /\ \A g, q \in Peers, n \in Nat :
         Carried(chan', g, Place(q, n)) => \/ Carried(chan, g, Place(q, n))
                                           \/ g = p /\ q = x /\ n = c.order

\* What a place says.
LEMMA PlaceIs ==
  /\ \A n, m, g, h : Given(n, g) = Given(m, h) => n = m /\ g = h
  /\ \A n, g : n # 0 => Given(n, g) # NoPlace
  /\ \A x \in Placings : x = NoPlace \/ \E n \in Nat \ {0}, g \in Peers : x = Given(n, g)
  /\ \A n \in Nat \ {0}, g \in Peers : Given(n, g) \in Placings
  /\ \A n, g : Given(n, g).n = n /\ Given(n, g).by = g
  /\ NoPlace \in Placings /\ NoPlace.by \notin Peers
<1>1. \A n, g : Given(n, g).n = n /\ Given(n, g).by = g
  BY DEF Given
<1>2. \A n, m, g, h : Given(n, g) = Given(m, h) => n = m /\ g = h
  <2>. SUFFICES ASSUME NEW n, NEW m, NEW g, NEW h, Given(n, g) = Given(m, h) PROVE n = m /\ g = h
    OBVIOUS
  <2>. QED  BY DEF Given
<1>3. NoPlace.n = 0 /\ NoPlace.by = None
  BY DEF NoPlace
<1>4. \A n, g : n # 0 => Given(n, g) # NoPlace
  BY <1>1, <1>3
<1>5. \A x \in Placings : x = NoPlace \/ \E n \in Nat \ {0}, g \in Peers : x = Given(n, g)
  <2>. SUFFICES ASSUME NEW x \in Placings, x # NoPlace
                PROVE  \E n \in Nat \ {0}, g \in Peers : x = Given(n, g)
    OBVIOUS
  <2>1. x \in [n : Nat \ {0}, by : Peers]
    BY DEF Placings
  <2>2. x = Given(x.n, x.by) /\ x.n \in Nat \ {0} /\ x.by \in Peers
    BY <2>1 DEF Given
  <2>. QED  BY <2>2
<1>6. \A n \in Nat \ {0}, g \in Peers : Given(n, g) \in Placings
  BY DEF Placings, Given
<1>7. NoPlace \in Placings /\ NoPlace.by \notin Peers
  BY <1>3, PeerAssumption DEF Placings, PeerAssumption
<1>. QED  BY <1>1, <1>2, <1>4, <1>5, <1>6, <1>7

\* Making tracks leaves the others alone.
LEMMA TrackedIs ==
  ASSUME NEW t \in TrackMaps, NEW qs \in SUBSET Peers
  PROVE  /\ Tracked(t, qs) \in TrackMaps
         /\ DOMAIN Tracked(t, qs) = DOMAIN t \cup qs
         /\ \A r \in DOMAIN t : Tracked(t, qs)[r] = t[r]
         /\ \A r \in qs \ DOMAIN t : Tracked(t, qs)[r] = NewTrack
<1>1. PICK S \in SUBSET Peers : t \in [S -> Track]
  BY DEF TrackMaps
<1>2. NewTrack \in Track
  BY PlaceIs DEF NewTrack, Track
<1>3. Tracked(t, qs) \in [S \cup qs -> Track]
  BY <1>1, <1>2 DEF Tracked
<1>. QED  BY <1>1, <1>3 DEF Tracked, TrackMaps

\* Dropping a track leaves the others alone.
LEMMA UntrackedIs ==
  ASSUME NEW t \in TrackMaps, NEW q
  PROVE  /\ Untracked(t, q) \in TrackMaps
         /\ DOMAIN Untracked(t, q) = DOMAIN t \ {q}
         /\ \A r \in DOMAIN t \ {q} : Untracked(t, q)[r] = t[r]
<1>1. PICK S \in SUBSET Peers : t \in [S -> Track]
  BY DEF TrackMaps
<1>2. Untracked(t, q) \in [S \ {q} -> Track]
  BY <1>1 DEF Untracked
<1>. QED  BY <1>1, <1>2 DEF TrackMaps, Untracked

\* Broadcast adds its messages to some of the sender's links, and to no others.
LEMMA BroadcastIs ==
  ASSUME NEW ch \in Channels, NEW p \in Peers, NEW msgs \in Seq(Msgs)
  PROVE  /\ Broadcast(ch, p, msgs) \in Channels
         /\ \A g \in Peers : \A m : Carried(Broadcast(ch, p, msgs), g, m) =>
                     Carried(ch, g, m) \/ (g = p /\ \E i \in 1..Len(msgs) : msgs[i] = m)
<1>. DEFINE new == Broadcast(ch, p, msgs)
<1>0. \A a, b \in Peers : ch[a][b] \in Seq(Msgs) /\ ch[a][b] \o msgs \in Seq(Msgs)
  <2>. SUFFICES ASSUME NEW a \in Peers, NEW b \in Peers
                PROVE  ch[a][b] \in Seq(Msgs) /\ ch[a][b] \o msgs \in Seq(Msgs)
    OBVIOUS
  <2>1. ch[a][b] \in Seq(Msgs)
    BY DEF Channels
  <2>. QED  BY <2>1
<1>. DEFINE row == [b \in Peers |-> IF {p, b} \in open /\ b # p THEN ch[p][b] \o msgs ELSE ch[p][b]]
<1>0a. new = [ch EXCEPT ![p] = row]
  BY DEF Broadcast
<1>0b. row \in [Peers -> Seq(Msgs)] /\ \A b \in Peers : row[b] = ch[p][b] \/ row[b] = ch[p][b] \o msgs
  BY <1>0
<1>0c. ch \in [Peers -> [Peers -> Seq(Msgs)]]
  BY DEF Channels
<1>. HIDE DEF new, row
<1>1. /\ new \in [Peers -> [Peers -> Seq(Msgs)]]
      /\ \A a, b \in Peers : new[a][b] = ch[a][b] \/ (a = p /\ new[a][b] = ch[a][b] \o msgs)
  BY <1>0a, <1>0b, <1>0c
<1>2. \A a, b \in Peers : ch[a][b] \in Seq(Msgs)
  BY DEF Channels
<1>3. ASSUME NEW m, NEW a \in Peers, NEW b \in Peers, NEW i \in 1..Len(new[a][b]), new[a][b][i] = m
      PROVE  Carried(ch, a, m) \/ (a = p /\ \E j \in 1..Len(msgs) : msgs[j] = m)
  <2>1. CASE new[a][b] = ch[a][b]
    BY <1>3, <2>1 DEF Carried
  <2>2. CASE a = p /\ new[a][b] = ch[a][b] \o msgs
    <3>. DEFINE s == ch[a][b]
    <3>1. s \in Seq(Msgs) /\ i \in 1..(Len(s) + Len(msgs)) /\ m = (s \o msgs)[i]
      BY <1>2, <1>3, <2>2
    <3>2. \A x \in 1..Len(s) : s[x] = m => Carried(ch, a, m)
      BY DEF Carried
    <3>. HIDE DEF s
    <3>3. m = IF i <= Len(s) THEN s[i] ELSE msgs[i - Len(s)]
      BY <3>1
    <3>4. Len(s) \in Nat /\ Len(msgs) \in Nat /\ i \in Int
      BY <3>1
    <3>. QED  BY <2>2, <3>1, <3>2, <3>3, <3>4
  <2>. QED  BY <1>1, <2>1, <2>2
<1>4. ASSUME NEW a \in Peers, NEW m, Carried(new, a, m)
      PROVE  Carried(ch, a, m) \/ (a = p /\ \E j \in 1..Len(msgs) : msgs[j] = m)
  <2>1. PICK b \in Peers : \E i \in 1..Len(new[a][b]) : new[a][b][i] = m
    BY <1>4 DEF Carried
  <2>. QED  BY <2>1, <1>3
<1>. QED  BY <1>1, <1>4 DEF new, Channels

\* What the constructors of messages make.
LEMMA Messages ==
  /\ Hello \in Msgs /\ Finish \in Msgs /\ Start \in Msgs /\ \A b \in BOOLEAN : Ready(b) \in Msgs
  /\ \A q \in Peers, n \in Nat \ {0} : Place(q, n) \in Msgs
  /\ \A q, n : /\ Place(q, n) # Hello /\ Place(q, n) # Finish /\ Place(q, n) # Start
               /\ \A b : Place(q, n) # Ready(b)
  /\ \A q, r, n, m : Place(q, n) = Place(r, m) => q = r /\ n = m
BY DEF Msgs, Hello, Finish, Ready, Start, Place

\* A message is what its constructor makes of its fields.
LEMMA MessageIs ==
  ASSUME NEW m \in Msgs
  PROVE  /\ m.type = "place" => m.id \in Peers /\ m.place \in Nat \ {0} /\ m = Place(m.id, m.place)
         /\ m.type = "ready" => m.ready \in BOOLEAN
BY DEF Msgs, Place

\* Taking a message off a link adds none, and the message was there.
LEMMA TakenIs ==
  ASSUME PeerTypes, NEW p \in Peers, NEW q \in Peers, chan[q][p] # <<>>
  PROVE  /\ Taken(p, q) \in Channels
         /\ \A g \in Peers : \A m : Carried(Taken(p, q), g, m) => Carried(chan, g, m)
         /\ Head(chan[q][p]) \in Msgs /\ Carried(chan, q, Head(chan[q][p]))
<1>. DEFINE s == chan[q][p]
            new == Taken(p, q)
            row == [chan[q] EXCEPT ![p] = Tail(s)]
<1>1. /\ chan \in [Peers -> [Peers -> Seq(Msgs)]] /\ s \in Seq(Msgs) /\ s # <<>>
  BY DEF PeerTypes, Channels
<1>2. /\ Tail(s) \in Seq(Msgs) /\ Len(Tail(s)) = Len(s) - 1 /\ Len(s) \in Nat \ {0}
      /\ \A i \in 1..Len(Tail(s)) : Tail(s)[i] = s[i + 1]
      /\ Head(s) \in Msgs /\ Head(s) = s[1]
  <2>. HIDE DEF s
  <2>. QED  BY <1>1
<1>3. row \in [Peers -> Seq(Msgs)] /\ new = [chan EXCEPT ![q] = row]
  BY <1>1, <1>2 DEF Taken
<1>4. new \in Channels
  BY <1>1, <1>3 DEF Channels
<1>5. \A a, b \in Peers : new[a][b] = IF a = q /\ b = p THEN Tail(s) ELSE chan[a][b]
  BY <1>1 DEF Taken
<1>6. Carried(chan, q, Head(s))
  BY <1>2 DEF Carried
<1>7. \A i \in 1..Len(Tail(s)) : Carried(chan, q, Tail(s)[i])
  <2>. SUFFICES ASSUME NEW i \in 1..Len(Tail(s)) PROVE Carried(chan, q, Tail(s)[i])
    OBVIOUS
  <2>1. i + 1 \in 1..Len(s) /\ Tail(s)[i] = s[i + 1]
    BY <1>2
  <2>. QED  BY <2>1 DEF Carried
<1>. HIDE DEF s, new
<1>8. ASSUME NEW a \in Peers, NEW m, Carried(new, a, m) PROVE Carried(chan, a, m)
  <2>0. PICK b \in Peers : \E i \in 1..Len(new[a][b]) : new[a][b][i] = m
    BY <1>8 DEF Carried
  <2>1. PICK i \in 1..Len(new[a][b]) : new[a][b][i] = m
    BY <2>0
  <2>2. CASE a = q /\ b = p
    BY <2>1, <2>2, <1>5, <1>7
  <2>3. CASE ~(a = q /\ b = p)
    <3>1. new[a][b] = chan[a][b]
      BY <2>3, <1>5
    <3>. QED  BY <2>1, <3>1 DEF Carried
  <2>. QED  BY <2>2, <2>3
<1>. QED  BY <1>2, <1>4, <1>6, <1>8 DEF s, new

\* What is told after a step of p.
LEMMA TurnTells ==
  ASSUME PeerInv, NEW p \in Peers, NEW c, NEW t, Turn(p, c, t),
         NEW q \in Peers, NEW g \in Peers, NEW n \in Nat, Told(client', tracks', chan', q, n, g)
  PROVE  \/ Told(client, tracks, chan, q, n, g)
         \/ q = p /\ c.place = Given(n, g)
         \/ q \in DOMAIN t /\ t[q].place = Given(n, g)
         \/ Carried(chan', g, Place(q, n))
<1>1. /\ client'[p] = c /\ \A r \in Peers \ {p} : client'[r] = client[r]
      /\ tracks'[p] = t /\ \A r \in Peers \ {p} : tracks'[r] = tracks[r]
  BY DEF PeerInv, PeerTypes, Turn
<1>. QED  BY <1>1 DEF Told

\* What a step tells nobody new, while counts and lists of finishers only grow, keeps the awards.
LEMMA AwardsStay ==
  ASSUME PeerInv, PeerTypes',
         \A q, g \in Peers, n \in Nat :
           Told(client', tracks', chan', q, n, g) => Told(client, tracks, chan, q, n, g),
         \A g \in Peers : \/ client'[g].state = "gone"
                         \/ /\ client[g].state # "gone"
                            /\ client[g].finished \subseteq client'[g].finished
                            /\ client'[g].order = client[g].order,
         \A g \in Peers : client'[g].place.by = g => client'[g].place = client[g].place
  PROVE  Awards'
<1>1. /\ \A q, g \in Peers, n \in Nat : Told(client, tracks, chan, q, n, g) =>
           client[g].state = "gone" \/ (q \in client[g].finished /\ n \in 1..client[g].order)
      /\ \A q, r, g \in Peers, n, m \in Nat :
           Told(client, tracks, chan, q, n, g) /\ Told(client, tracks, chan, r, m, g) =>
             (n = m => q = r) /\ (q = r /\ q # g => n = m)
      /\ \A g \in Peers, n \in Nat :
           Told(client, tracks, chan, g, n, g) /\ client[g].place.by = g => n <= client[g].place.n
  BY DEF PeerInv, Awards
<1>2. \A q, g \in Peers, n \in Nat : Told(client', tracks', chan', q, n, g) =>
           client'[g].state = "gone" \/ (q \in client'[g].finished /\ n \in 1..client'[g].order)
  BY <1>1
<1>3. \A q, r, g \in Peers, n, m \in Nat :
           Told(client', tracks', chan', q, n, g) /\ Told(client', tracks', chan', r, m, g) =>
             (n = m => q = r) /\ (q = r /\ q # g => n = m)
  BY <1>1
<1>4. \A g \in Peers, n \in Nat :
           Told(client', tracks', chan', g, n, g) /\ client'[g].place.by = g => n <= client'[g].place.n
  BY <1>1
<1>. QED  BY <1>2, <1>3, <1>4 DEF Awards

\* A quiet step of one peer keeps the invariant.
LEMMA QuietKeeps ==
  ASSUME PeerInv, PeerTypes', Orderly', NEW p \in Peers, NEW c, NEW t, Turn(p, c, t), QuietTurn(p, c, t)
  PROVE  PeerInv'
<1>1. /\ client'[p] = c /\ \A r \in Peers \ {p} : client'[r] = client[r]
  BY DEF PeerInv, PeerTypes, Turn
<1>2. ASSUME NEW q \in Peers, NEW g \in Peers, NEW n \in Nat, Told(client', tracks', chan', q, n, g)
      PROVE  Told(client, tracks, chan, q, n, g)
  <2>1. n # 0
    BY <1>2 DEF Told
  <2>2. CASE q = p /\ c.place = Given(n, g)
    <3>1. CASE c.place = client[p].place
      BY <2>1, <2>2, <3>1 DEF Told
    <3>2. CASE c.place # client[p].place
      <4>1. PICK h \in Peers, k \in Nat : c.place = Given(k, h) /\ Told(client, tracks, chan, p, k, h)
        BY <2>1, <2>2, <3>2, PlaceIs DEF QuietTurn
      <4>2. n = k /\ g = h
        BY <2>2, <4>1 DEF Given
      <4>. QED  BY <2>2, <4>1, <4>2
    <3>. QED  BY <3>1, <3>2
  <2>3. CASE q \in DOMAIN t /\ t[q].place = Given(n, g)
    <3>1. CASE q \in DOMAIN tracks[p] /\ t[q].place = tracks[p][q].place
      BY <2>1, <2>3, <3>1 DEF Told
    <3>2. CASE ~(q \in DOMAIN tracks[p] /\ t[q].place = tracks[p][q].place)
      <4>1. PICK h \in Peers, k \in Nat : t[q].place = Given(k, h) /\ Told(client, tracks, chan, q, k, h)
        BY <2>1, <2>3, <3>2, PlaceIs DEF QuietTurn
      <4>2. n = k /\ g = h
        BY <2>3, <4>1 DEF Given
      <4>. QED  BY <2>3, <4>1, <4>2
    <3>. QED  BY <3>1, <3>2
  <2>4. CASE Carried(chan', g, Place(q, n))
    BY <2>1, <2>4 DEF Told, QuietTurn
  <2>. QED  BY <1>2, <2>2, <2>3, <2>4, TurnTells
<1>3. ASSUME NEW g \in Peers
      PROVE  \/ client'[g].state = "gone"
             \/ /\ client[g].state # "gone" /\ client[g].finished \subseteq client'[g].finished
                /\ client'[g].order = client[g].order
  BY <1>1 DEF Turn, QuietTurn
<1>4. ASSUME NEW g \in Peers, client'[g].place.by = g PROVE client'[g].place = client[g].place
  BY <1>1, <1>4, PlaceIs DEF QuietTurn
<1>5. Awards'
  BY <1>2, <1>3, <1>4, AwardsStay
<1>. QED  BY <1>5 DEF PeerInv

\* So does a step that gives out the next place.
LEMMA AwardKeeps ==
  ASSUME PeerInv, PeerTypes', Orderly', NEW p \in Peers, NEW c, NEW t, NEW x, Turn(p, c, t), AwardTurn(p, c, t, x)
  PROVE  PeerInv'
<1>1. /\ client'[p] = c /\ \A r \in Peers \ {p} : client'[r] = client[r]
      /\ client[p].order \in Nat /\ c.order = client[p].order + 1 /\ x \in Peers
      /\ c.finished = client[p].finished \cup {x} /\ client[p].state # "gone" /\ c.order \in Nat \ {0}
  BY DEF PeerInv, PeerTypes, Turn, AwardTurn, Clients
<1>. DEFINE Fresh(q, n, g) == g = p /\ q = x /\ n = c.order
<1>2. ASSUME NEW q \in Peers, NEW g \in Peers, NEW n \in Nat, Told(client', tracks', chan', q, n, g)
      PROVE  Told(client, tracks, chan, q, n, g) \/ Fresh(q, n, g)
  <2>1. n # 0
    BY <1>2 DEF Told
  <2>2. CASE q = p /\ c.place = Given(n, g)
    BY <2>1, <2>2, PlaceIs DEF Told, AwardTurn
  <2>3. CASE q \in DOMAIN t /\ t[q].place = Given(n, g)
    BY <2>1, <2>3, PlaceIs DEF Told, AwardTurn
  <2>4. CASE Carried(chan', g, Place(q, n))
    BY <2>1, <2>4 DEF Told, AwardTurn
  <2>. QED  BY <1>2, <2>2, <2>3, <2>4, TurnTells
<1>. HIDE DEF Fresh
<1>3. \A q, g \in Peers, n \in Nat : Told(client, tracks, chan, q, n, g) =>
        client[g].state = "gone" \/ (q \in client[g].finished /\ n \in 1..client[g].order)
  BY DEF PeerInv, Awards
<1>4. \A q \in Peers, n \in Nat : Told(client, tracks, chan, q, n, p) =>
        q \in client[p].finished /\ n \in 1..client[p].order /\ n < c.order
  BY <1>1, <1>3
<1>5. \A q, g \in Peers, n \in Nat : Told(client', tracks', chan', q, n, g) =>
        client'[g].state = "gone" \/ (q \in client'[g].finished /\ n \in 1..client'[g].order)
  <2>. SUFFICES ASSUME NEW q \in Peers, NEW g \in Peers, NEW n \in Nat, Told(client', tracks', chan', q, n, g)
                PROVE  client'[g].state = "gone" \/ (q \in client'[g].finished /\ n \in 1..client'[g].order)
    OBVIOUS
  <2>1. CASE g # p
    BY <1>1, <1>2, <1>3, <2>1 DEF Fresh
  <2>2. CASE g = p
    BY <1>1, <1>2, <1>4, <2>2 DEF Fresh
  <2>. QED  BY <2>1, <2>2
<1>6. \A q, r, g \in Peers, n, m \in Nat :
        Told(client', tracks', chan', q, n, g) /\ Told(client', tracks', chan', r, m, g) =>
          (n = m => q = r) /\ (q = r /\ q # g => n = m)
  <2>. SUFFICES ASSUME NEW q \in Peers, NEW r \in Peers, NEW g \in Peers, NEW n \in Nat, NEW m \in Nat,
                       Told(client', tracks', chan', q, n, g), Told(client', tracks', chan', r, m, g)
                PROVE  (n = m => q = r) /\ (q = r /\ q # g => n = m)
    OBVIOUS
  <2>1. CASE Told(client, tracks, chan, q, n, g) /\ Told(client, tracks, chan, r, m, g)
    BY <2>1 DEF PeerInv, Awards
  <2>2. CASE Fresh(q, n, g) /\ Fresh(r, m, g)
    BY <2>2 DEF Fresh
  <2>3. CASE Fresh(q, n, g) /\ Told(client, tracks, chan, r, m, g)
    BY <1>1, <1>4, <2>3 DEF Fresh, AwardTurn
  <2>4. CASE Told(client, tracks, chan, q, n, g) /\ Fresh(r, m, g)
    BY <1>1, <1>4, <2>4 DEF Fresh, AwardTurn
  <2>. QED  BY <1>2, <2>1, <2>2, <2>3, <2>4
<1>7. \A g \in Peers, n \in Nat :
        Told(client', tracks', chan', g, n, g) /\ client'[g].place.by = g => n <= client'[g].place.n
  <2>. SUFFICES ASSUME NEW g \in Peers, NEW n \in Nat, Told(client', tracks', chan', g, n, g), client'[g].place.by = g
                PROVE  n <= client'[g].place.n
    OBVIOUS
  <2>1. CASE g = p /\ x = p
    <3>1. client'[g].place.n = c.order
      BY <1>1, <2>1, PlaceIs DEF AwardTurn
    <3>. QED  BY <1>1, <1>2, <1>4, <2>1, <3>1 DEF Fresh
  <2>2. CASE ~(g = p /\ x = p)
    <3>1. client'[g].place = client[g].place
      BY <1>1, <2>2 DEF AwardTurn
    <3>2. Told(client, tracks, chan, g, n, g)
      BY <1>2, <2>2 DEF Fresh
    <3>. QED  BY <3>1, <3>2 DEF PeerInv, Awards
  <2>. QED  BY <2>1, <2>2
<1>8. Awards'
  BY <1>5, <1>6, <1>7 DEF Awards
<1>. QED  BY <1>8 DEF PeerInv

\* A steady step of one peer keeps the types and the order.
LEMMA TurnKeepsOrder ==
  ASSUME PeerInv, NEW p \in Peers, NEW c, NEW t, Turn(p, c, t), Steady(p, c)
  PROVE  PeerTypes' /\ Orderly'
<1>1. /\ client'[p] = c /\ \A r \in Peers \ {p} : client'[r] = client[r]
  BY DEF PeerInv, PeerTypes, Turn
<1>2. PeerTypes'
  BY DEF PeerInv, PeerTypes, Turn, Steady
<1>3. Orderly'
  BY <1>1 DEF PeerInv, Orderly, Settled, Steady
<1>. QED  BY <1>2, <1>3

\* So a steady step that gives out no place, or the next one, keeps the invariant.
LEMMA StepKeeps ==
  ASSUME PeerInv, NEW p \in Peers, NEW c, NEW t, Turn(p, c, t), Steady(p, c),
         QuietTurn(p, c, t) \/ \E x : AwardTurn(p, c, t, x)
  PROVE  PeerInv'
<1>1. PeerTypes' /\ Orderly'
  BY TurnKeepsOrder
<1>2. CASE QuietTurn(p, c, t)
  BY <1>1, <1>2, QuietKeeps
<1>3. CASE \E x : AwardTurn(p, c, t, x)
  <2>1. PICK x : AwardTurn(p, c, t, x)
    BY <1>3
  <2>. QED  BY <1>1, <2>1, AwardKeeps
<1>. QED  BY <1>2, <1>3

\* One message to everybody.
LEMMA BroadcastOne ==
  ASSUME NEW ch \in Channels, NEW p \in Peers, NEW m \in Msgs
  PROVE  /\ Broadcast(ch, p, <<m>>) \in Channels
         /\ \A g \in Peers : \A k : Carried(Broadcast(ch, p, <<m>>), g, k) => Carried(ch, g, k) \/ (g = p /\ k = m)
<1>1. <<m>> \in Seq(Msgs) /\ Len(<<m>>) = 1 /\ <<m>>[1] = m
  OBVIOUS
<1>2. \A i \in 1..Len(<<m>>) : <<m>>[i] = m
  BY <1>1
<1>. DEFINE one == <<m>>
<1>. HIDE DEF one
<1>3. one \in Seq(Msgs) /\ \A i \in 1..Len(one) : one[i] = m
  BY <1>1, <1>2 DEF one
<1>4. /\ Broadcast(ch, p, one) \in Channels
      /\ \A g \in Peers : \A k : Carried(Broadcast(ch, p, one), g, k) => Carried(ch, g, k) \/ (g = p /\ k = m)
  BY <1>3, BroadcastIs
<1>. QED  BY <1>4 DEF one

\* What p has of its own.
LEMMA OwnFields ==
  ASSUME PeerInv, NEW p \in Peers
  PROVE  /\ client[p] \in Clients /\ tracks[p] \in TrackMaps /\ chan \in Channels
         /\ DOMAIN tracks[p] \subseteq Peers
         /\ client = [client EXCEPT ![p] = client[p]]
         /\ tracks = [tracks EXCEPT ![p] = tracks[p]]
         /\ faults \in 0..MaxFaults /\ chan \in [Peers -> [Peers -> Seq(Msgs)]]
         /\ Settled(p, client[p])
BY DEF PeerInv, PeerTypes, Orderly, TrackMaps, Channels

\* The fields that the race and the service know of a client.
SameRace(c, d) == c.order = d.order /\ c.finished = d.finished /\ c.place = d.place
Same(c, d) == SameRace(c, d) /\ c.state = d.state /\ c.asks = d.asks /\ c.seen = d.seen

\* A step that touches none of these, and sends no place.
Plain(p, c) ==
    /\ c \in Clients /\ SameRace(c, client[p]) /\ Settled(p, c)
    /\ client[p].state = "gone" <=> c.state = "gone"
    /\ client' = [client EXCEPT ![p] = c] /\ UNCHANGED <<lobby, open, tracks, faults>>
    /\ chan' \in Channels
    /\ \A g, q \in Peers, n \in Nat : Carried(chan', g, Place(q, n)) => Carried(chan, g, Place(q, n))

LEMMA PlainKeeps ==
  ASSUME PeerInv, NEW p \in Peers, NEW c, Plain(p, c) PROVE PeerInv'
<1>. DEFINE t == tracks[p]
<1>1. t \in TrackMaps /\ tracks' = [tracks EXCEPT ![p] = t] /\ faults' \in 0..MaxFaults
  BY OwnFields DEF Plain
<1>2. Turn(p, c, t)
  BY <1>1 DEF Turn, Plain
<1>3. QuietTurn(p, c, t)
  BY DEF QuietTurn, SameRace, Plain
<1>4. Steady(p, c)
  BY <1>1 DEF Steady, Plain
<1>. HIDE DEF t
<1>. QED  BY <1>2, <1>3, <1>4, StepKeeps

\* connect, onReady: the service is asked for a lobby
LEMMA OpenKeeps ==
  ASSUME PeerInv, NEW p \in Peers, NEW b \in BOOLEAN, Open(p, b) PROVE PeerInv'
<1>. DEFINE k == IF b THEN "code" ELSE "quick"
            c == [client[p] EXCEPT !.state = "lobby", !.host = ~b, !.asks = k]
<1>0a. client[p] \in Clients
  BY OwnFields
<1>0b. k \in {"code", "quick"}
  OBVIOUS
<1>0c. (~b) \in BOOLEAN
  OBVIOUS
<1>0. client[p] \in Clients /\ k \in {"code", "quick"} /\ (~b) \in BOOLEAN
  BY <1>0a, <1>0b, <1>0c
<1>1. client' = [client EXCEPT ![p] = c]
  BY DEF Open
<1>. HIDE DEF k
<1>2. c \in Clients /\ SameRace(c, client[p]) /\ c.seen = client[p].seen /\ c.state = "lobby"
  BY <1>0 DEF Clients, SameRace
<1>. HIDE DEF c
<1>3. Settled(p, c) /\ client[p].state = "offline"
  BY <1>2, OwnFields DEF Settled, Open
<1>4. Plain(p, c)
  BY <1>1, <1>2, <1>3, OwnFields DEF Plain, Open
<1>. QED  BY <1>4, PlainKeeps

\* onReady: create instead
LEMMA FallBackKeeps ==
  ASSUME PeerInv, NEW p \in Peers, FallBack(p) PROVE PeerInv'
<1>. DEFINE c == [client[p] EXCEPT !.asks = "create"]
<1>0. client[p] \in Clients
  BY OwnFields
<1>1. client' = [client EXCEPT ![p] = c]
  BY DEF FallBack
<1>2. c \in Clients /\ SameRace(c, client[p]) /\ c.seen = client[p].seen /\ c.state = client[p].state
  BY <1>0 DEF Clients, SameRace
<1>. HIDE DEF c
<1>3. Settled(p, c)
  BY <1>2, OwnFields DEF Settled, FallBack
<1>4. Plain(p, c)
  BY <1>1, <1>2, <1>3, OwnFields DEF Plain, FallBack
<1>. QED  BY <1>4, PlainKeeps

\* onReady: no lobby
LEMMA FailKeeps ==
  ASSUME PeerInv, NEW p \in Peers, Fail(p) PROVE PeerInv'
<1>. DEFINE c == [client[p] EXCEPT !.state = "error", !.asks = "no"]
<1>0. client[p] \in Clients
  BY OwnFields
<1>1. client' = [client EXCEPT ![p] = c]
  BY DEF Fail
<1>2. c \in Clients /\ SameRace(c, client[p]) /\ c.seen = client[p].seen /\ c.state = "error" /\ c.asks = "no"
  BY <1>0 DEF Clients, SameRace
<1>. HIDE DEF c
<1>3. Settled(p, c) /\ client[p].state # "gone"
  BY <1>2, OwnFields DEF Settled, Fail
<1>4. Plain(p, c)
  BY <1>1, <1>2, <1>3, OwnFields DEF Plain, Fail
<1>. QED  BY <1>4, PlainKeeps

\* sendHelloAll
LEMMA AnnounceKeeps ==
  ASSUME PeerInv, NEW p \in Peers, Announce(p) PROVE PeerInv'
<1>. DEFINE c == [client[p] EXCEPT !.announce = FALSE]
<1>0. client[p] \in Clients
  BY OwnFields
<1>1. /\ chan' \in Channels
      /\ \A g, q \in Peers, n \in Nat : Carried(chan', g, Place(q, n)) => Carried(chan, g, Place(q, n))
  BY OwnFields, BroadcastOne, Messages DEF Announce
<1>2. client' = [client EXCEPT ![p] = c] /\ UNCHANGED <<lobby, open, tracks, faults>>
  BY DEF Announce
<1>3. c \in Clients /\ Same(c, client[p])
  BY <1>0 DEF Clients, Same, SameRace
<1>. HIDE DEF c
<1>4. Plain(p, c)
  BY <1>1, <1>2, <1>3, OwnFields DEF Plain, Same, Settled
<1>. QED  BY <1>4, PlainKeeps

\* onLeader, onLobby
LEMMA LeaderNewsKeeps ==
  ASSUME PeerInv, NEW p \in Peers, LeaderNews(p) PROVE PeerInv'
<1>. DEFINE leads == lobby.leader = p
            c == [client[p] EXCEPT !.host = leads]
<1>1. leads \in BOOLEAN /\ client[p] \in Clients
  BY OwnFields
<1>2. client' = [client EXCEPT ![p] = c] /\ UNCHANGED <<lobby, open, tracks, chan, faults>>
  BY DEF LeaderNews
<1>. HIDE DEF leads
<1>3. c \in Clients /\ Same(c, client[p])
  BY <1>1 DEF Clients, Same, SameRace
<1>. HIDE DEF c
<1>4. Plain(p, c)
  BY <1>2, <1>3, OwnFields DEF Plain, Same, Settled
<1>. QED  BY <1>4, PlainKeeps

\* tick: the heartbeat
LEMMA HeartbeatKeeps ==
  ASSUME PeerInv, NEW p \in Peers, Heartbeat(p) PROVE PeerInv'
<1>1. Ready(client[p].ready) \in Msgs
  BY OwnFields, Messages DEF Clients
<1>2. /\ chan' \in Channels
      /\ \A g, q \in Peers, n \in Nat : Carried(chan', g, Place(q, n)) => Carried(chan, g, Place(q, n))
  BY <1>1, OwnFields, BroadcastOne, Messages DEF Heartbeat
<1>3. client' = [client EXCEPT ![p] = client[p]] /\ UNCHANGED <<lobby, open, tracks, faults>>
  BY OwnFields DEF Heartbeat
<1>4. Plain(p, client[p])
  BY <1>2, <1>3, OwnFields DEF Plain, SameRace
<1>. QED  BY <1>4, PlainKeeps

\* Starting a race sends no place.
LEMMA LaunchIs ==
  ASSUME NEW ch \in Channels, NEW p \in Peers
  PROVE  /\ Launch(ch, p) \in Channels
         /\ \A g, q \in Peers, n \in Nat : Carried(Launch(ch, p), g, Place(q, n)) => Carried(ch, g, Place(q, n))
BY BroadcastOne, Messages DEF Launch

\* Racing changes nothing but the state.
LEMMA RacingIs ==
  ASSUME NEW c \in Clients
  PROVE  /\ Racing(c) \in Clients /\ SameRace(Racing(c), c) /\ Racing(c).state = "racing"
         /\ Racing(c).asks = c.asks /\ Racing(c).seen = c.seen
BY DEF Racing, Clients, SameRace

\* startNow
LEMMA StartNowKeeps ==
  ASSUME PeerInv, NEW p \in Peers, StartNow(p) PROVE PeerInv'
<1>. DEFINE c == Racing(client[p])
<1>1. /\ chan' \in Channels
      /\ \A g, q \in Peers, n \in Nat : Carried(chan', g, Place(q, n)) => Carried(chan, g, Place(q, n))
  BY OwnFields, LaunchIs DEF StartNow
<1>2. client' = [client EXCEPT ![p] = c] /\ UNCHANGED <<lobby, open, tracks, faults>>
  BY DEF StartNow
<1>3. /\ c \in Clients /\ SameRace(c, client[p]) /\ c.state = "racing" /\ c.asks = client[p].asks
      /\ c.seen = client[p].seen
  BY OwnFields, RacingIs
<1>4. client[p].state \in {"lobby", "racing"}
  BY DEF StartNow, Here
<1>. HIDE DEF c
<1>5. Settled(p, c)
  BY <1>3, <1>4, OwnFields DEF Settled
<1>6. Plain(p, c)
  BY <1>1, <1>2, <1>3, <1>4, <1>5 DEF Plain
<1>. QED  BY <1>6, PlainKeeps

\* sendReady
LEMMA SendReadyKeeps ==
  ASSUME PeerInv, NEW p \in Peers, NEW b \in BOOLEAN, SendReady(p, b) PROVE PeerInv'
<1>. DEFINE c == [client[p] EXCEPT !.ready = b, !.toggles = @ + 1]
            alone == c.host /\ b /\ DOMAIN tracks[p] = {}
            ch == Broadcast(chan, p, <<Ready(b)>>)
            d == IF alone THEN Racing(c) ELSE c
<1>1. /\ client' = [client EXCEPT ![p] = d] /\ chan' = IF alone THEN Launch(ch, p) ELSE ch
      /\ client[p].state = "lobby" /\ UNCHANGED <<lobby, open, tracks, faults>>
  BY DEF SendReady
<1>2. /\ ch \in Channels
      /\ \A g, q \in Peers, n \in Nat : Carried(ch, g, Place(q, n)) => Carried(chan, g, Place(q, n))
  BY OwnFields, BroadcastOne, Messages
<1>3. /\ chan' \in Channels
      /\ \A g, q \in Peers, n \in Nat : Carried(chan', g, Place(q, n)) => Carried(chan, g, Place(q, n))
  <2>. HIDE DEF ch, alone
  <2>. QED  BY <1>1, <1>2, LaunchIs
<1>4. c \in Clients /\ Same(c, client[p])
  <2>. DEFINE k == client[p].toggles + 1
  <2>1. client[p] \in Clients
    BY OwnFields
  <2>2. k \in Nat
    BY <2>1 DEF Clients
  <2>3. c = [client[p] EXCEPT !.ready = b, !.toggles = k]
    OBVIOUS
  <2>. HIDE DEF k, c
  <2>. QED  BY <2>1, <2>2, <2>3 DEF Clients, Same, SameRace
<1>. HIDE DEF c
<1>5. /\ d \in Clients /\ SameRace(d, client[p]) /\ d.state \in {"lobby", "racing"}
      /\ d.asks = client[p].asks /\ d.seen = client[p].seen
  BY <1>1, <1>4, RacingIs DEF Same, SameRace
<1>. HIDE DEF d, alone, ch
<1>6. Settled(p, d)
  BY <1>1, <1>5, OwnFields DEF Settled
<1>7. Plain(p, d)
  BY <1>1, <1>3, <1>5, <1>6 DEF Plain
<1>. QED  BY <1>7, PlainKeeps

\* sendFinish of a guest is quiet; a host's takes the next place.
LEMMA SendFinishKeeps ==
  ASSUME PeerInv, NEW p \in Peers, SendFinish(p) PROVE PeerInv'
<1>. DEFINE k == client[p].flights + 1
            g == [client[p] EXCEPT !.flights = k]
            n == client[p].order + 1
            x == [n |-> n, by |-> p]
            f == client[p].finished \cup {p}
            h == [g EXCEPT !.order = n, !.place = x, !.finished = f]
<1>0. client[p] \in Clients /\ client[p].state \in {"lobby", "racing"}
  BY OwnFields DEF SendFinish, Acts, Here
<1>1. n \in Nat \ {0} /\ k \in Nat /\ f \in SUBSET Peers
  BY <1>0 DEF Clients
<1>2. x = Given(n, p) /\ x \in Placings
  BY <1>1, PlaceIs DEF Given
<1>3. g \in Clients /\ Same(g, client[p])
  <2>. HIDE DEF k
  <2>. QED  BY <1>0, <1>1 DEF Clients, Same, SameRace
<1>4. CASE ~client[p].host
  <2>1. /\ client' = [client EXCEPT ![p] = g] /\ chan' = Broadcast(chan, p, <<Finish>>)
        /\ UNCHANGED <<lobby, open, tracks, faults>>
    BY <1>0, <1>4 DEF SendFinish, Clients
  <2>2. /\ chan' \in Channels
        /\ \A a, q \in Peers, m \in Nat : Carried(chan', a, Place(q, m)) => Carried(chan, a, Place(q, m))
    BY <2>1, OwnFields, BroadcastOne, Messages
  <2>. HIDE DEF g
  <2>3. Plain(p, g)
    BY <1>3, <2>1, <2>2, OwnFields DEF Plain, Same, Settled
  <2>. QED  BY <2>3, PlainKeeps
<1>5. CASE client[p].host
  <2>. DEFINE two == <<Place(p, n), Finish>>
  <2>1. /\ client' = [client EXCEPT ![p] = h] /\ chan' = Broadcast(chan, p, two)
        /\ UNCHANGED <<lobby, open, tracks, faults>>
    BY <1>0, <1>5 DEF SendFinish, Clients
  <2>2. two \in Seq(Msgs) /\ \A i \in 1..Len(two) : two[i] \in {Place(p, n), Finish}
    <3>. HIDE DEF n
    <3>. QED  BY <1>1, Messages
  <2>. HIDE DEF two, n
  <2>2a. /\ Broadcast(chan, p, two) \in Channels
         /\ \A a \in Peers : \A m : Carried(Broadcast(chan, p, two), a, m) =>
              Carried(chan, a, m) \/ (a = p /\ \E i \in 1..Len(two) : two[i] = m)
    BY <2>2, OwnFields, BroadcastIs
  <2>3. /\ chan' \in Channels
        /\ \A a \in Peers : \A m : Carried(chan', a, m) => Carried(chan, a, m) \/ (a = p /\ m \in {Place(p, n), Finish})
    BY <2>1, <2>2, <2>2a
  <2>4. /\ h \in Clients /\ h.order = n /\ h.place = Given(n, p) /\ h.finished = f
        /\ h.state = g.state /\ h.seen = g.seen /\ h.asks = g.asks
    <3>. HIDE DEF g, x, f
    <3>. QED  BY <1>1, <1>2, <1>3 DEF Clients
  <2>. HIDE DEF h, g, x
  <2>5. Turn(p, h, tracks[p])
    BY <1>3, <2>1, <2>3, <2>4, OwnFields DEF Turn, Same
  <2>6. Steady(p, h)
    BY <1>3, <2>1, <2>4, OwnFields DEF Steady, Same, Settled
  <2>7. \A a, q \in Peers, m \in Nat :
          Carried(chan', a, Place(q, m)) => Carried(chan, a, Place(q, m)) \/ (a = p /\ q = p /\ m = n)
    BY <2>3, Messages
  <2>8. AwardTurn(p, h, tracks[p], p)
    BY <1>0, <2>4, <2>7 DEF AwardTurn, n
  <2>. QED  BY <2>5, <2>6, <2>8, StepKeeps
<1>. QED  BY <1>4, <1>5

\* Appending to one link adds one message.
LEMMA AppendIs ==
  ASSUME NEW ch \in Channels, NEW p \in Peers, NEW q \in Peers, NEW m \in Msgs
  PROVE  LET new == [ch EXCEPT ![p][q] = Append(@, m)]
         IN  new \in Channels /\ \A g \in Peers : \A k : Carried(new, g, k) => Carried(ch, g, k) \/ k = m
<1>. DEFINE s == ch[p][q]
            more == Append(s, m)
            new == [ch EXCEPT ![p][q] = more]
<1>1. ch \in [Peers -> [Peers -> Seq(Msgs)]] /\ s \in Seq(Msgs)
  BY DEF Channels
<1>2. more \in Seq(Msgs) /\ \A i \in 1..Len(more) : more[i] = m \/ (i \in 1..Len(s) /\ more[i] = s[i])
  <2>. HIDE DEF s
  <2>. QED  BY <1>1
<1>3. \A i \in 1..Len(more) : more[i] = m \/ Carried(ch, p, more[i])
  BY <1>2 DEF Carried
<1>. HIDE DEF s, more
<1>4. /\ new \in [Peers -> [Peers -> Seq(Msgs)]]
      /\ \A a, b \in Peers : new[a][b] = IF a = p /\ b = q THEN more ELSE ch[a][b]
  BY <1>1, <1>2
<1>. HIDE DEF new
<1>5. ASSUME NEW a \in Peers, NEW k, Carried(new, a, k) PROVE Carried(ch, a, k) \/ k = m
  <2>1. PICK b \in Peers : \E i \in 1..Len(new[a][b]) : new[a][b][i] = k
    BY <1>5 DEF Carried
  <2>2. CASE a = p /\ b = q
    BY <2>1, <2>2, <1>3, <1>4
  <2>3. CASE ~(a = p /\ b = q)
    <3>1. new[a][b] = ch[a][b]
      BY <2>3, <1>4
    <3>. QED  BY <2>1, <3>1 DEF Carried
  <2>. QED  BY <2>2, <2>3
<1>. QED  BY <1>4, <1>5 DEF Channels, new, more, s

\* What p may take off a link is a message of somebody else.
LEMMA HeadIs ==
  ASSUME PeerInv, NEW p \in Peers, NEW q \in Peers, NEW type, Head1(p, q, type)
  PROVE  /\ client[p].state \in {"lobby", "racing"} /\ q # p /\ chan[q][p] # <<>>
         /\ Head(chan[q][p]) \in Msgs /\ Head(chan[q][p]).type = type
         /\ Carried(chan, q, Head(chan[q][p]))
         /\ Taken(p, q) \in Channels
         /\ \A g \in Peers : \A k : Carried(Taken(p, q), g, k) => Carried(chan, g, k)
BY OwnFields, TakenIs DEF Head1, Here, PeerInv, Settled

\* What p knows when it has heard of q: everybody's place as before.
LEMMA HeardIs ==
  ASSUME PeerInv, NEW p \in Peers, NEW q \in Peers
  PROVE  LET t == Tracked(tracks[p], {q})
         IN  /\ t \in TrackMaps /\ q \in DOMAIN t
             /\ \A r \in DOMAIN t : t[r].place = NoPlace \/ (r \in DOMAIN tracks[p] /\ t[r].place = tracks[p][r].place)
<1>1. tracks[p] \in TrackMaps /\ {q} \in SUBSET Peers
  BY OwnFields
<1>. DEFINE t == Tracked(tracks[p], {q})
<1>2. /\ t \in TrackMaps /\ DOMAIN t = DOMAIN tracks[p] \cup {q}
      /\ \A r \in DOMAIN tracks[p] : t[r] = tracks[p][r]
      /\ \A r \in {q} \ DOMAIN tracks[p] : t[r] = NewTrack
  BY <1>1, TrackedIs
<1>. HIDE DEF t
<1>3. \A r \in DOMAIN t : t[r].place = NoPlace \/ (r \in DOMAIN tracks[p] /\ t[r].place = tracks[p][r].place)
  BY <1>2 DEF NewTrack
<1>. QED  BY <1>1, <1>2, <1>3 DEF t

\* What p knows when it has dropped q: everybody else's place as before.
LEMMA UnheardIs ==
  ASSUME PeerInv, NEW p \in Peers, NEW q \in Peers
  PROVE  LET t == Untracked(tracks[p], q)
         IN  /\ t \in TrackMaps
             /\ \A r \in DOMAIN t : r \in DOMAIN tracks[p] /\ t[r].place = tracks[p][r].place
<1>. DEFINE s == tracks[p]
            t == Untracked(s, q)
<1>1. s \in TrackMaps
  BY OwnFields
<1>. HIDE DEF s
<1>2. /\ t \in TrackMaps /\ DOMAIN t = DOMAIN s \ {q}
      /\ \A r \in DOMAIN s \ {q} : t[r] = s[r]
  BY <1>1, UntrackedIs
<1>. HIDE DEF t
<1>3. \A r \in DOMAIN t : r \in DOMAIN s /\ t[r].place = s[r].place
  BY <1>2
<1>. QED  BY <1>2, <1>3 DEF s, t

\* Changing the place of a track leaves the other places alone.
LEMMA PlacedIs ==
  ASSUME NEW t \in TrackMaps, NEW q \in DOMAIN t, NEW x \in Placings, NEW u, u = [t EXCEPT ![q].place = x]
  PROVE  u \in TrackMaps /\ DOMAIN u = DOMAIN t /\ \A r \in DOMAIN t : u[r].place = IF r = q THEN x ELSE t[r].place
<1>1. PICK S \in SUBSET Peers : t \in [S -> Track]
  BY DEF TrackMaps
<1>2. u \in [S -> Track] /\ \A r \in S : u[r].place = IF r = q THEN x ELSE t[r].place
  BY <1>1 DEF Track
<1>. QED  BY <1>1, <1>2 DEF TrackMaps

\* A step that hears of peers, or drops some, and gives out no place.
Hears(p, c, t) ==
    /\ c \in Clients /\ SameRace(c, client[p]) /\ Settled(p, c)
    /\ client[p].state = "gone" <=> c.state = "gone"
    /\ t \in TrackMaps
    /\ \A r \in DOMAIN t : t[r].place = NoPlace \/ (r \in DOMAIN tracks[p] /\ t[r].place = tracks[p][r].place)
    /\ client' = [client EXCEPT ![p] = c] /\ tracks' = [tracks EXCEPT ![p] = t]
    /\ lobby' = lobby /\ open' = open /\ faults' \in 0..MaxFaults /\ chan' \in Channels
    /\ \A g, q \in Peers, n \in Nat : Carried(chan', g, Place(q, n)) => Carried(chan, g, Place(q, n))

LEMMA HearingKeeps ==
  ASSUME PeerInv, NEW p \in Peers, NEW c, NEW t, Hears(p, c, t) PROVE PeerInv'
<1>1. Turn(p, c, t)
  BY DEF Turn, Hears
<1>2. QuietTurn(p, c, t)
  BY DEF QuietTurn, SameRace, Hears
<1>3. Steady(p, c)
  BY DEF Steady, Hears
<1>. QED  BY <1>1, <1>2, <1>3, StepKeeps

\* onMessage: hello
LEMMA OnHelloKeeps ==
  ASSUME PeerInv, NEW p \in Peers, NEW q \in Peers, OnHello(p, q) PROVE PeerInv'
<1>. DEFINE f == client[p].greeted \cup {q}
            c == [client[p] EXCEPT !.greeted = f]
            t == Tracked(tracks[p], {q})
            ch == [Taken(p, q) EXCEPT ![p][q] = Append(@, Hello)]
<1>1. Taken(p, q) \in Channels /\ \A g \in Peers : \A k : Carried(Taken(p, q), g, k) => Carried(chan, g, k)
  BY HeadIs DEF OnHello
<1>2. ch \in Channels /\ \A g \in Peers : \A k : Carried(ch, g, k) => Carried(chan, g, k) \/ k = Hello
  BY <1>1, Messages, AppendIs
<1>3. chan' \in Channels /\ \A g \in Peers : \A k : Carried(chan', g, k) => Carried(chan, g, k) \/ k = Hello
  BY <1>1, <1>2 DEF OnHello
<1>3a. \A g, r \in Peers, n \in Nat : Carried(chan', g, Place(r, n)) => Carried(chan, g, Place(r, n))
  BY <1>3, Messages
<1>4. c \in Clients /\ Same(c, client[p])
  <2>1. client[p] \in Clients
    BY OwnFields
  <2>2. f \in SUBSET Peers
    BY <2>1 DEF Clients
  <2>. HIDE DEF f
  <2>. QED  BY <2>1, <2>2 DEF Clients, Same, SameRace
<1>5. /\ client' = [client EXCEPT ![p] = c] /\ tracks' = [tracks EXCEPT ![p] = t]
      /\ UNCHANGED <<lobby, open, faults>>
  BY OwnFields DEF OnHello, Clients
<1>6. /\ t \in TrackMaps
      /\ \A r \in DOMAIN t : t[r].place = NoPlace \/ (r \in DOMAIN tracks[p] /\ t[r].place = tracks[p][r].place)
  BY HeardIs
<1>. HIDE DEF c, t, ch
<1>7. Settled(p, c)
  BY <1>4, OwnFields DEF Same, Settled
<1>8. Hears(p, c, t)
  BY <1>3, <1>3a, <1>4, <1>5, <1>6, <1>7, OwnFields DEF Hears, Same
<1>. QED  BY <1>8, HearingKeeps

\* onMessage: start
LEMMA OnStartKeeps ==
  ASSUME PeerInv, NEW p \in Peers, NEW q \in Peers, OnStart(p, q) PROVE PeerInv'
<1>. DEFINE c == Racing(client[p])
<1>1. /\ client[p].state \in {"lobby", "racing"} /\ chan' \in Channels
      /\ \A g \in Peers : \A k : Carried(chan', g, k) => Carried(chan, g, k)
  BY HeadIs DEF OnStart
<1>2. client' = [client EXCEPT ![p] = c] /\ UNCHANGED <<lobby, open, tracks, faults>>
  BY DEF OnStart
<1>3. /\ c \in Clients /\ SameRace(c, client[p]) /\ c.state = "racing" /\ c.asks = client[p].asks
      /\ c.seen = client[p].seen
  BY OwnFields, RacingIs
<1>. HIDE DEF c
<1>4. Settled(p, c)
  BY <1>1, <1>3, OwnFields DEF Settled
<1>5. Plain(p, c)
  BY <1>1, <1>2, <1>3, <1>4 DEF Plain
<1>. QED  BY <1>5, PlainKeeps

\* onMessage: ready
LEMMA OnReadyKeeps ==
  ASSUME PeerInv, NEW p \in Peers, NEW q \in Peers, OnReady(p, q) PROVE PeerInv'
<1>. DEFINE m == Head(chan[q][p])
            b == IF client[p].state = "lobby" THEN m.ready ELSE Tracked(tracks[p], {q})[q].ready
            t == [Tracked(tracks[p], {q}) EXCEPT ![q].ready = b]
            go == client[p].host /\ client[p].state = "lobby" /\ AllReady(client[p], t)
            c == IF go THEN Racing(client[p]) ELSE client[p]
<1>1. /\ client[p].state \in {"lobby", "racing"} /\ Taken(p, q) \in Channels
      /\ \A g \in Peers : \A k : Carried(Taken(p, q), g, k) => Carried(chan, g, k)
      /\ m \in Msgs /\ m.type = "ready"
  BY HeadIs DEF OnReady
<1>2. m.ready \in BOOLEAN
  BY <1>1, MessageIs
<1>3. /\ client' = [client EXCEPT ![p] = c] /\ tracks' = [tracks EXCEPT ![p] = t]
      /\ chan' = IF go THEN Launch(Taken(p, q), p) ELSE Taken(p, q)
      /\ UNCHANGED <<lobby, open, faults>>
  BY OwnFields DEF OnReady
<1>4. /\ t \in TrackMaps
      /\ \A r \in DOMAIN t : t[r].place = NoPlace \/ (r \in DOMAIN tracks[p] /\ t[r].place = tracks[p][r].place)
  <2>. DEFINE u == Tracked(tracks[p], {q})
  <2>1. /\ u \in TrackMaps /\ q \in DOMAIN u
        /\ \A r \in DOMAIN u : u[r].place = NoPlace \/ (r \in DOMAIN tracks[p] /\ u[r].place = tracks[p][r].place)
    BY HeardIs
  <2>2. u[q].ready \in BOOLEAN
    <3>1. PICK S \in SUBSET Peers : u \in [S -> Track]
      BY <2>1 DEF TrackMaps
    <3>. HIDE DEF u
    <3>. QED  BY <2>1, <3>1 DEF Track
  <2>3. b \in BOOLEAN
    BY <1>2, <2>2
  <2>4. t = [u EXCEPT ![q].ready = b]
    OBVIOUS
  <2>. HIDE DEF u, b, t
  <2>5. /\ t \in TrackMaps /\ DOMAIN t = DOMAIN u /\ \A r \in DOMAIN u : t[r].place = u[r].place
    <3>1. PICK S \in SUBSET Peers : u \in [S -> Track]
      BY <2>1 DEF TrackMaps
    <3>2. t \in [S -> Track] /\ \A r \in S : t[r].place = u[r].place
      BY <2>1, <2>3, <2>4, <3>1 DEF Track
    <3>. QED  BY <3>1, <3>2 DEF TrackMaps
  <2>. QED  BY <2>1, <2>5
<1>. HIDE DEF m, b, t
<1>5. /\ c \in Clients /\ SameRace(c, client[p]) /\ c.seen = client[p].seen /\ c.asks = client[p].asks
      /\ c.state \in {"lobby", "racing"}
  <2>1. client[p] \in Clients
    BY OwnFields
  <2>. HIDE DEF go
  <2>. QED  BY <1>1, <2>1, RacingIs DEF SameRace
<1>. HIDE DEF go, c
<1>6. chan' \in Channels
      /\ \A g, r \in Peers, n \in Nat : Carried(chan', g, Place(r, n)) => Carried(chan, g, Place(r, n))
  BY <1>1, <1>3, LaunchIs
<1>7. Settled(p, c)
  BY <1>1, <1>5, OwnFields DEF Settled
<1>8. Hears(p, c, t)
  BY <1>1, <1>3, <1>4, <1>5, <1>6, <1>7, OwnFields DEF Hears
<1>. QED  BY <1>8, HearingKeeps

\* onMessage: finish.  A host's answer to the first finish of a peer gives out the next
\* place; any other finish is only noted.
LEMMA OnFinishKeeps ==
  ASSUME PeerInv, NEW p \in Peers, NEW q \in Peers, OnFinish(p, q) PROVE PeerInv'
<1>. DEFINE n == client[p].order + 1
            x == [n |-> n, by |-> p]
            new == q \notin client[p].finished
            told == new /\ client[p].host
            f == client[p].finished \cup {q}
            k == IF client[p].host THEN n ELSE client[p].order
            u == Tracked(tracks[p], {q})
            t == IF told THEN [u EXCEPT ![q].place = x] ELSE u
            c == IF ~new THEN client[p] ELSE [client[p] EXCEPT !.finished = f, !.order = k]
<1>0. client[p] \in Clients
  BY OwnFields
<1>1. /\ client[p].state \in {"lobby", "racing"} /\ Taken(p, q) \in Channels
      /\ \A g \in Peers : \A m : Carried(Taken(p, q), g, m) => Carried(chan, g, m)
  BY HeadIs DEF OnFinish
<1>2. n \in Nat \ {0} /\ f \in SUBSET Peers /\ k \in Nat
  BY <1>0 DEF Clients
<1>2a. x = Given(n, p) /\ x \in Placings
  BY <1>2, PlaceIs DEF Given
<1>3. /\ client' = [client EXCEPT ![p] = c] /\ tracks' = [tracks EXCEPT ![p] = t]
      /\ chan' = IF told THEN Broadcast(Taken(p, q), p, <<Place(q, n)>>) ELSE Taken(p, q)
      /\ UNCHANGED <<lobby, open, faults>>
  <2>1. client \in [Peers -> Clients]
    BY DEF PeerInv, PeerTypes
  <2>2. ~new => client' = [client EXCEPT ![p] = client[p]]
    BY <2>1 DEF OnFinish
  <2>3. new => client' = [client EXCEPT ![p] = [client[p] EXCEPT !.finished = f, !.order = k]]
    <3>1. new => client' = [client EXCEPT ![p].finished = f, ![p].order = k]
      BY <2>1 DEF OnFinish, Clients
    <3>. HIDE DEF new, f, k
    <3>. QED  BY <2>1, <3>1 DEF Clients
  <2>4. tracks' = [tracks EXCEPT ![p] = t]
    BY DEF OnFinish
  <2>5. chan' = IF told THEN Broadcast(Taken(p, q), p, <<Place(q, n)>>) ELSE Taken(p, q)
    BY DEF OnFinish
  <2>6. UNCHANGED <<lobby, open, faults>>
    BY DEF OnFinish
  <2>. QED  BY <2>2, <2>3, <2>4, <2>5, <2>6
<1>4. /\ u \in TrackMaps /\ q \in DOMAIN u
      /\ \A r \in DOMAIN u : u[r].place = NoPlace \/ (r \in DOMAIN tracks[p] /\ u[r].place = tracks[p][r].place)
  BY HeardIs
<1>5. /\ t \in TrackMaps /\ DOMAIN t = DOMAIN u
      /\ \A r \in DOMAIN u : t[r].place = IF told /\ r = q THEN x ELSE u[r].place
  <2>. HIDE DEF u, x, told
  <2>. QED  BY <1>2a, <1>4, PlacedIs
<1>6. /\ chan' \in Channels
      /\ \A g \in Peers : \A m : Carried(chan', g, m) => Carried(chan, g, m) \/ (told /\ g = p /\ m = Place(q, n))
  <2>1. Place(q, n) \in Msgs
    BY <1>2, Messages
  <2>. HIDE DEF told, n
  <2>. QED  BY <1>1, <1>3, <2>1, BroadcastOne
<1>7. /\ c \in Clients /\ c.seen = client[p].seen /\ c.state = client[p].state
      /\ c.asks = client[p].asks /\ c.place = client[p].place
      /\ c.finished = IF new THEN f ELSE client[p].finished
      /\ c.order = IF told THEN n ELSE client[p].order
  <2>1. k = IF client[p].host THEN n ELSE client[p].order
    OBVIOUS
  <2>. HIDE DEF n, new, f, k
  <2>. QED  BY <1>0, <1>2, <2>1 DEF Clients
<1>. HIDE DEF n, u, t, c, x, k
<1>8. Turn(p, c, t)
  BY <1>3, <1>5, <1>6, <1>7 DEF Turn
<1>9. Steady(p, c)
  BY <1>3, <1>7, OwnFields DEF Steady, Settled
<1>10. CASE told
  <2>1. \A r \in DOMAIN t : \/ t[r].place = NoPlace
                            \/ r \in DOMAIN tracks[p] /\ t[r].place = tracks[p][r].place
                            \/ r = q /\ t[r].place = Given(c.order, p)
    BY <1>2a, <1>4, <1>5, <1>7, <1>10
  <2>2. \A g, r \in Peers, m \in Nat : Carried(chan', g, Place(r, m)) =>
            Carried(chan, g, Place(r, m)) \/ (g = p /\ r = q /\ m = c.order)
    BY <1>6, <1>7, <1>10, Messages
  <2>3. q # p \/ c.place = Given(c.order, p)
    BY HeadIs DEF OnFinish
  <2>4. AwardTurn(p, c, t, q)
    BY <1>1, <1>7, <1>10, <2>1, <2>2, <2>3 DEF AwardTurn, n
  <2>. QED  BY <1>8, <1>9, <2>4, StepKeeps
<1>11. CASE ~told
  <2>1. \A r \in DOMAIN t : t[r].place = NoPlace \/ (r \in DOMAIN tracks[p] /\ t[r].place = tracks[p][r].place)
    BY <1>4, <1>5, <1>11
  <2>2. \A g, r \in Peers, m \in Nat : Carried(chan', g, Place(r, m)) => Carried(chan, g, Place(r, m))
    BY <1>6, <1>11
  <2>3. QuietTurn(p, c, t)
    BY <1>7, <1>11, <2>1, <2>2 DEF QuietTurn
  <2>. QED  BY <1>8, <1>9, <2>3, StepKeeps
<1>. QED  BY <1>10, <1>11

\* onMessage: place
LEMMA OnPlaceKeeps ==
  ASSUME PeerInv, NEW p \in Peers, NEW q \in Peers, OnPlace(p, q) PROVE PeerInv'
<1>. DEFINE m == Head(chan[q][p])
            x == [n |-> m.place, by |-> q]
            c == IF m.id = p THEN [client[p] EXCEPT !.place = x] ELSE client[p]
            t == IF m.id # p /\ m.id \in DOMAIN tracks[p] THEN [tracks[p] EXCEPT ![m.id].place = x]
                 ELSE tracks[p]
<1>1. /\ q # p /\ chan' \in Channels /\ \A g \in Peers : \A k : Carried(chan', g, k) => Carried(chan, g, k)
      /\ m \in Msgs /\ m.type = "place" /\ Carried(chan, q, m)
  BY HeadIs DEF OnPlace
<1>2. m.id \in Peers /\ m.place \in Nat \ {0} /\ m = Place(m.id, m.place)
  BY <1>1, MessageIs
<1>3. Told(client, tracks, chan, m.id, m.place, q)
  BY <1>1, <1>2 DEF Told
<1>4. /\ client' = [client EXCEPT ![p] = c] /\ tracks' = [tracks EXCEPT ![p] = t]
      /\ UNCHANGED <<lobby, open, faults>>
  BY OwnFields DEF OnPlace
<1>5. client[p] \in Clients /\ tracks[p] \in TrackMaps
  BY OwnFields
<1>6. x = Given(m.place, q) /\ x \in Placings
  BY <1>2, PlaceIs DEF Given
<1>. HIDE DEF m, x
<1>7. /\ c \in Clients /\ c.seen = client[p].seen /\ c.state = client[p].state /\ c.asks = client[p].asks
      /\ c.finished = client[p].finished /\ c.order = client[p].order
      /\ c.place = IF m.id = p THEN x ELSE client[p].place
  BY <1>5, <1>6 DEF Clients
<1>8. /\ t \in TrackMaps /\ DOMAIN t = DOMAIN tracks[p]
      /\ \A r \in DOMAIN t : t[r].place = tracks[p][r].place \/ (r = m.id /\ t[r].place = x)
  BY <1>5, <1>6, PlacedIs
<1>. HIDE DEF c, t
<1>9. Turn(p, c, t)
  BY <1>1, <1>4, <1>7, <1>8 DEF Turn
<1>10. QuietTurn(p, c, t)
  <2>1. c.place = client[p].place \/ (q \in Peers \ {p} /\ m.place \in Nat /\ c.place = Given(m.place, q)
                                      /\ Told(client, tracks, chan, p, m.place, q))
    BY <1>1, <1>2, <1>3, <1>6, <1>7
  <2>2. \A r \in DOMAIN t : \/ r \in DOMAIN tracks[p] /\ t[r].place = tracks[p][r].place
                            \/ /\ t[r].place = Given(m.place, q) /\ m.place \in Nat
                               /\ Told(client, tracks, chan, r, m.place, q)
    BY <1>2, <1>3, <1>6, <1>8
  <2>. QED  BY <1>1, <1>7, <2>1, <2>2 DEF QuietTurn
<1>11. Steady(p, c)
  BY <1>4, <1>7, OwnFields DEF Steady, Settled
<1>. QED  BY <1>9, <1>10, <1>11, StepKeeps

\* A flight state of a peer makes its track at most.
LEMMA OnStateKeeps ==
  ASSUME PeerInv, NEW p \in Peers, NEW q \in Peers, OnState(p, q) PROVE PeerInv'
<1>. DEFINE t == Tracked(tracks[p], {q})
<1>1. /\ tracks' = [tracks EXCEPT ![p] = t] /\ UNCHANGED <<lobby, open, client, chan, faults>>
  BY DEF OnState
<1>2. /\ t \in TrackMaps
      /\ \A r \in DOMAIN t : t[r].place = NoPlace \/ (r \in DOMAIN tracks[p] /\ t[r].place = tracks[p][r].place)
  BY HeardIs
<1>. HIDE DEF t
<1>3. /\ client[p] \in Clients /\ Settled(p, client[p]) /\ client' = [client EXCEPT ![p] = client[p]]
      /\ lobby' = lobby /\ open' = open /\ faults' \in 0..MaxFaults /\ chan' = chan /\ chan' \in Channels
  BY <1>1, OwnFields
<1>4. SameRace(client[p], client[p])
  BY DEF SameRace
<1>5. Hears(p, client[p], t)
  BY <1>1, <1>2, <1>3, <1>4 DEF Hears
<1>. QED  BY <1>5, HearingKeeps

\* tick: a stale track is dropped.
LEMMA StaleKeeps ==
  ASSUME PeerInv, NEW p \in Peers, NEW q \in Peers, Stale(p, q) PROVE PeerInv'
<1>. DEFINE t == Untracked(tracks[p], q)
<1>1. /\ tracks' = [tracks EXCEPT ![p] = t] /\ faults' \in 0..MaxFaults
      /\ UNCHANGED <<lobby, open, client, chan>>
  BY OwnFields, PeerAssumption DEF Stale, PeerAssumption
<1>2a. /\ t \in TrackMaps
       /\ \A r \in DOMAIN t : r \in DOMAIN tracks[p] /\ t[r].place = tracks[p][r].place
  BY UnheardIs
<1>. HIDE DEF t
<1>2. /\ t \in TrackMaps
      /\ \A r \in DOMAIN t : t[r].place = NoPlace \/ (r \in DOMAIN tracks[p] /\ t[r].place = tracks[p][r].place)
  BY <1>2a
<1>3. /\ client[p] \in Clients /\ Settled(p, client[p]) /\ client' = [client EXCEPT ![p] = client[p]]
      /\ lobby' = lobby /\ open' = open /\ faults' \in 0..MaxFaults /\ chan' = chan /\ chan' \in Channels
  BY <1>1, OwnFields
<1>4. SameRace(client[p], client[p])
  BY DEF SameRace
<1>5. Hears(p, client[p], t)
  BY <1>1, <1>2, <1>3, <1>4 DEF Hears
<1>. QED  BY <1>5, HearingKeeps

\* An emptied link carries nothing, and the other links what they carried.
LEMMA EmptiedIs ==
  ASSUME NEW ch \in Channels, NEW new,
         new \in [Peers -> [Peers -> Seq(Msgs)]],
         \A a, b \in Peers : new[a][b] = ch[a][b] \/ new[a][b] = <<>>
  PROVE  new \in Channels /\ \A g \in Peers : \A k : Carried(new, g, k) => Carried(ch, g, k)
<1>1. ASSUME NEW g \in Peers, NEW k, Carried(new, g, k) PROVE Carried(ch, g, k)
  <2>1. PICK b \in Peers : \E i \in 1..Len(new[g][b]) : new[g][b][i] = k
    BY <1>1 DEF Carried
  <2>2. new[g][b] = ch[g][b]
    BY <2>1
  <2>. QED  BY <2>1, <2>2 DEF Carried
<1>. QED  BY <1>1 DEF Channels

\* onDisconnected
LEMMA DisconnectedKeeps ==
  ASSUME PeerInv, NEW p \in Peers, NEW q \in Peers, Disconnected(p, q) PROVE PeerInv'
<1>. DEFINE s == client[p].seen \ {q}
            f == client[p].greeted \ {q}
            c == [client[p] EXCEPT !.seen = s, !.greeted = f]
            t == Untracked(tracks[p], q)
<1>0. client[p] \in Clients /\ client \in [Peers -> Clients] /\ chan \in [Peers -> [Peers -> Seq(Msgs)]]
  BY OwnFields DEF PeerInv, PeerTypes
<1>1. /\ client' = [client EXCEPT ![p] = c] /\ tracks' = [tracks EXCEPT ![p] = t]
      /\ chan' = [chan EXCEPT ![q][p] = <<>>]
      /\ UNCHANGED <<lobby, open, faults>>
  BY <1>0 DEF Disconnected, Clients
<1>2. chan' \in Channels /\ \A g \in Peers : \A k : Carried(chan', g, k) => Carried(chan, g, k)
  <2>1. /\ chan' \in [Peers -> [Peers -> Seq(Msgs)]]
        /\ \A a, b \in Peers : chan'[a][b] = chan[a][b] \/ chan'[a][b] = <<>>
    BY <1>0, <1>1
  <2>. QED  BY <2>1, EmptiedIs, OwnFields
<1>3. /\ c \in Clients /\ SameRace(c, client[p]) /\ c.state = client[p].state /\ c.asks = client[p].asks
      /\ c.seen = s
  <2>1. s \in SUBSET Peers /\ f \in SUBSET Peers
    BY <1>0 DEF Clients
  <2>. HIDE DEF s, f
  <2>. QED  BY <1>0, <2>1 DEF Clients, SameRace
<1>4. /\ t \in TrackMaps
      /\ \A r \in DOMAIN t : r \in DOMAIN tracks[p] /\ t[r].place = tracks[p][r].place
  BY UnheardIs
<1>. HIDE DEF c, t
<1>5. Settled(p, c)
  BY <1>3, OwnFields DEF Settled
<1>6. \A r \in DOMAIN t : t[r].place = NoPlace \/ (r \in DOMAIN tracks[p] /\ t[r].place = tracks[p][r].place)
  BY <1>4
<1>7. faults' \in 0..MaxFaults /\ lobby' = lobby /\ open' = open
  BY <1>1, OwnFields
<1>8. Hears(p, c, t)
  BY <1>1, <1>2, <1>3, <1>4, <1>5, <1>6, <1>7 DEF Hears
<1>. QED  BY <1>8, HearingKeeps

\* A step that tells nobody a place, and changes no count, order or list of finishers.
LEMMA UntoldKeeps ==
  ASSUME PeerInv, PeerTypes', Orderly',
         \A r \in Peers : SameRace(client'[r], client[r]) /\ (client[r].state = "gone" => client'[r].state = "gone"),
         \A g, q \in Peers, n \in Nat : Told(client', tracks', chan', q, n, g) => Told(client, tracks, chan, q, n, g)
  PROVE  PeerInv'
<1>1. Awards'
  BY AwardsStay DEF SameRace
<1>. QED  BY <1>1 DEF PeerInv

\* A step that leaves every client, track and message alone.
LEMMA SameKeeps ==
  ASSUME PeerInv, PeerTypes', Orderly', client' = client, tracks' = tracks, chan' = chan
  PROVE  PeerInv'
<1>1. \A r \in Peers : SameRace(client'[r], client[r]) /\ (client[r].state = "gone" => client'[r].state = "gone")
  BY DEF SameRace
<1>2. \A g, q \in Peers, n \in Nat : Told(client', tracks', chan', q, n, g) => Told(client, tracks, chan, q, n, g)
  BY DEF Told, Carried
<1>. QED  BY <1>1, <1>2, UntoldKeeps

\* A link that breaks changes nobody's fields.
LEMMA BreakKeeps ==
  ASSUME PeerInv, NEW p \in Peers, NEW q \in Peers, Break(p, q) PROVE PeerInv'
<1>1. /\ lobby' = lobby /\ client' = client /\ tracks' = tracks /\ chan' = chan
      /\ faults' \in 0..MaxFaults /\ \A l \in open' : l \in open
  BY OwnFields, PeerAssumption DEF Break, PeerAssumption
<1>2. PeerTypes'
  BY <1>1 DEF PeerInv, PeerTypes
<1>3. Orderly'
  BY <1>1 DEF PeerInv, Orderly, Settled
<1>. QED  BY <1>1, <1>2, <1>3, SameKeeps

\* open, onReady: create
LEMMA CreateKeeps ==
  ASSUME PeerInv, NEW p \in Peers, Create(p) PROVE PeerInv'
<1>. DEFINE c == [client[p] EXCEPT !.host = TRUE, !.asks = "no"]
<1>0. /\ client \in [Peers -> Clients] /\ client[p] \in Clients /\ client' = [client EXCEPT ![p] = c]
      /\ open' = open /\ tracks' = tracks /\ chan' = chan /\ faults' = faults
      /\ lobby' = [lobby EXCEPT !.in = {p}, !.leader = p] /\ lobby \in Lobbies
      /\ client[p].asks = "create"
  BY DEF Create, PeerInv, PeerTypes
<1>1. /\ c \in Clients /\ c.state = client[p].state /\ c.seen = client[p].seen /\ c.asks = "no"
      /\ SameRace(c, client[p])
  BY <1>0 DEF Clients, SameRace
<1>. HIDE DEF c
<1>2. client'[p] = c /\ \A r \in Peers \ {p} : client'[r] = client[r]
  BY <1>0
<1>3. lobby' \in Lobbies /\ lobby'.in = {p}
  BY <1>0 DEF Lobbies
<1>4. PeerTypes'
  BY <1>0, <1>1, <1>3 DEF PeerInv, PeerTypes
<1>5. client[p].state \notin {"offline", "gone"}
  BY <1>0, OwnFields DEF Settled
<1>6. Orderly'
  BY <1>1, <1>2, <1>3, <1>5 DEF PeerInv, Orderly, Settled
<1>7. \A r \in Peers : SameRace(client'[r], client[r]) /\ (client[r].state = "gone" => client'[r].state = "gone")
  BY <1>1, <1>2 DEF SameRace
<1>8. \A g, q \in Peers, n \in Nat : Told(client', tracks', chan', q, n, g) => Told(client, tracks, chan, q, n, g)
  BY <1>0, <1>7 DEF Told, Carried, SameRace
<1>. QED  BY <1>4, <1>6, <1>7, <1>8, UntoldKeeps

\* Two peers make a link.
LEMMA LinkIs ==
  ASSUME NEW p \in Peers, NEW q \in Peers \ {p} PROVE {p, q} \subseteq Peers /\ Cardinality({p, q}) = 2
<1>1. IsFiniteSet({p}) /\ Cardinality({p}) = 1
  BY FS_Singleton
<1>2. Cardinality({p} \cup {q}) = 2
  BY <1>1, FS_AddElement
<1>3. {p} \cup {q} = {p, q}
  OBVIOUS
<1>. QED  BY <1>2, <1>3

\* What links that come up change: who has seen whom, and tracks with no place.
Met(p, qs, c) ==
    /\ \A l \in open' : l \subseteq Peers /\ Cardinality(l) = 2
    /\ client' \in [Peers -> Clients] /\ tracks' \in [Peers -> TrackMaps] /\ chan' \in Channels
    /\ client'[p].state = c.state /\ client'[p].asks = c.asks
    /\ client'[p].seen = c.seen \cup qs /\ SameRace(client'[p], c)
    /\ \A r \in Peers : r # p => /\ client'[r].state = client[r].state /\ client'[r].asks = client[r].asks
                                 /\ SameRace(client'[r], client[r])
                                 /\ client'[r].seen \subseteq client[r].seen \cup {p}
    /\ \A g \in Peers : \A k : Carried(chan', g, k) => Carried(chan, g, k) \/ k = Hello
    /\ \A r \in Peers : \A x \in DOMAIN tracks'[r] :
         tracks'[r][x].place = NoPlace \/ (x \in DOMAIN tracks[r] /\ tracks'[r][x].place = tracks[r][x].place)

\* Links that come up change no more than that.
LEMMA LinkedIs ==
  ASSUME PeerInv, NEW p \in Peers, NEW qs, qs \subseteq Peers, p \notin qs, NEW c \in Clients, Linked(p, qs, c)
  PROVE  Met(p, qs, c)
<1>0. /\ client \in [Peers -> Clients] /\ tracks \in [Peers -> TrackMaps]
      /\ chan \in [Peers -> [Peers -> Seq(Msgs)]]
  BY OwnFields DEF PeerInv, PeerTypes
<1>1. \A l \in open' : l \subseteq Peers /\ Cardinality(l) = 2
  BY LinkIs DEF Linked, PeerInv, PeerTypes
<1>2. /\ client' \in [Peers -> Clients]
      /\ client'[p] = [c EXCEPT !.seen = c.seen \cup qs]
      /\ \A r \in qs : client'[r] = [client[r] EXCEPT !.seen = client[r].seen \cup {p}]
      /\ \A r \in Peers : r # p /\ r \notin qs => client'[r] = client[r]
  <2>. DEFINE to(r) == IF r = p THEN [c EXCEPT !.seen = c.seen \cup qs]
                       ELSE IF r \in qs THEN [client[r] EXCEPT !.seen = client[r].seen \cup {p}]
                       ELSE client[r]
  <2>1. client' = [r \in Peers |-> to(r)]
    BY <1>0 DEF Linked, Clients
  <2>2. \A r \in Peers : to(r) \in Clients
    <3>1. [c EXCEPT !.seen = c.seen \cup qs] \in Clients
      BY DEF Clients
    <3>2. \A r \in Peers : [client[r] EXCEPT !.seen = client[r].seen \cup {p}] \in Clients
      BY <1>0 DEF Clients
    <3>. QED  BY <1>0, <3>1, <3>2
  <2>3. /\ to(p) = [c EXCEPT !.seen = c.seen \cup qs]
        /\ \A r \in qs : to(r) = [client[r] EXCEPT !.seen = client[r].seen \cup {p}]
        /\ \A r \in Peers : r # p /\ r \notin qs => to(r) = client[r]
    OBVIOUS
  <2>. HIDE DEF to
  <2>. QED  BY <2>1, <2>2, <2>3
<1>3. chan' \in Channels /\ \A g \in Peers : \A k : Carried(chan', g, k) => Carried(chan, g, k) \/ k = Hello
  <2>1. CASE ~Greeting
    BY <2>1, <1>0 DEF Linked, Channels
  <2>2. CASE Greeting
    <3>1. <<Hello>> \in Seq(Msgs) /\ Len(<<Hello>>) = 1 /\ <<Hello>>[1] = Hello
      BY Messages
    <3>. DEFINE one == <<Hello>>
    <3>2. /\ chan' = [r \in Peers |-> [s \in Peers |->
                        IF (r = p /\ s \in qs) \/ (s = p /\ r \in qs) THEN one ELSE chan[r][s]]]
      BY <2>2 DEF Linked
    <3>3. one \in Seq(Msgs) /\ \A i \in 1..Len(one) : one[i] = Hello
      BY <3>1
    <3>. HIDE DEF one
    <3>4. /\ chan' \in [Peers -> [Peers -> Seq(Msgs)]]
          /\ \A a, b \in Peers : chan'[a][b] = one \/ chan'[a][b] = chan[a][b]
      BY <1>0, <3>2, <3>3
    <3>5. ASSUME NEW a \in Peers, NEW k, Carried(chan', a, k) PROVE Carried(chan, a, k) \/ k = Hello
      <4>1. PICK b \in Peers : \E i \in 1..Len(chan'[a][b]) : chan'[a][b][i] = k
        BY <3>5 DEF Carried
      <4>2. CASE chan'[a][b] = one
        BY <4>1, <4>2, <3>3
      <4>3. CASE chan'[a][b] = chan[a][b]
        BY <4>1, <4>3 DEF Carried
      <4>. QED  BY <3>4, <4>2, <4>3
    <3>. QED  BY <3>4, <3>5 DEF Channels
  <2>. QED  BY <2>1, <2>2
<1>4. /\ tracks' \in [Peers -> TrackMaps]
      /\ \A r \in Peers : \A x \in DOMAIN tracks'[r] :
           tracks'[r][x].place = NoPlace \/ (x \in DOMAIN tracks[r] /\ tracks'[r][x].place = tracks[r][x].place)
  <2>1. CASE Greeting
    BY <2>1, <1>0 DEF Linked
  <2>2. CASE ~Greeting
    <3>. DEFINE met(r) == IF r = p THEN qs ELSE {p}
                to(r) == IF r = p \/ r \in qs THEN Tracked(tracks[r], met(r)) ELSE tracks[r]
    <3>1. tracks' = [r \in Peers |-> to(r)]
      BY <2>2, <1>0 DEF Linked
    <3>2. ASSUME NEW r \in Peers
          PROVE  /\ to(r) \in TrackMaps
                 /\ \A x \in DOMAIN to(r) :
                      to(r)[x].place = NoPlace \/ (x \in DOMAIN tracks[r] /\ to(r)[x].place = tracks[r][x].place)
      <4>. DEFINE s == tracks[r]
                  u == Tracked(s, met(r))
      <4>1. met(r) \in SUBSET Peers
        OBVIOUS
      <4>2. s \in TrackMaps
        BY <1>0
      <4>. HIDE DEF s, met
      <4>3. /\ u \in TrackMaps /\ DOMAIN u = DOMAIN s \cup met(r)
            /\ \A x \in DOMAIN s : u[x] = s[x]
            /\ \A x \in met(r) \ DOMAIN s : u[x] = NewTrack
        BY <4>1, <4>2, TrackedIs
      <4>4. to(r) \in {s, u}
        BY DEF s
      <4>. HIDE DEF u, to
      <4>5. CASE to(r) = s
        BY <4>2, <4>5 DEF s
      <4>6. CASE to(r) = u
        BY <4>1, <4>2, <4>3, <4>6 DEF s, NewTrack
      <4>. QED  BY <4>4, <4>5, <4>6
    <3>. HIDE DEF to
    <3>. QED  BY <3>1, <3>2
  <2>. QED  BY <2>1, <2>2
<1>5. \A r \in Peers : r # p => /\ client'[r].state = client[r].state /\ client'[r].asks = client[r].asks
                               /\ SameRace(client'[r], client[r])
                               /\ client'[r].seen \subseteq client[r].seen \cup {p}
  <2>. SUFFICES ASSUME NEW r \in Peers, r # p
                PROVE  /\ client'[r].state = client[r].state /\ client'[r].asks = client[r].asks
                       /\ SameRace(client'[r], client[r])
                       /\ client'[r].seen \subseteq client[r].seen \cup {p}
    OBVIOUS
  <2>1. client[r] \in Clients
    BY <1>0
  <2>2. CASE r \in qs
    <3>. DEFINE d == client[r]
                e == [d EXCEPT !.seen = d.seen \cup {p}]
    <3>1. d \in Clients /\ client'[r] = e
      BY <1>2, <2>1, <2>2
    <3>2. e.state = d.state /\ e.asks = d.asks /\ SameRace(e, d) /\ e.seen = d.seen \cup {p}
      <4>. HIDE DEF d
      <4>. QED  BY <3>1 DEF Clients, SameRace
    <3>. HIDE DEF e
    <3>. QED  BY <3>1, <3>2
  <2>3. CASE r \notin qs
    BY <1>2, <2>3 DEF SameRace
  <2>. QED  BY <2>2, <2>3
<1>6. /\ client'[p].state = c.state /\ client'[p].asks = c.asks
      /\ client'[p].seen = c.seen \cup qs /\ SameRace(client'[p], c)
  BY <1>2 DEF Clients, SameRace
<1>. QED  BY <1>1, <1>2, <1>3, <1>4, <1>5, <1>6 DEF Met

\* Peers who are here meet one who is in the lobby, or enters it.
LEMMA MetKeeps ==
  ASSUME PeerInv, NEW p \in Peers, NEW qs, NEW c, Met(p, qs, c), SameRace(c, client[p]),
         c.asks = "no", c.state # "offline", client[p].state = "gone" => c.state = "gone",
         p \notin c.seen, p \notin qs,
         lobby' \in Lobbies, lobby'.in = lobby.in \cup {p}, faults' \in 0..MaxFaults
  PROVE  PeerInv'
<1>1. PeerTypes'
  BY DEF Met, PeerTypes
<1>2. Orderly'
  <2>1. Settled(p, client[p])'
    BY DEF Settled, Met
  <2>2. ASSUME NEW r \in Peers \ {p} PROVE Settled(r, client[r])'
    BY OwnFields DEF Settled, Met
  <2>. QED  BY <2>1, <2>2 DEF Orderly
<1>3. \A r \in Peers : SameRace(client'[r], client[r]) /\ (client[r].state = "gone" => client'[r].state = "gone")
  BY DEF Met, SameRace
<1>4. ASSUME NEW g \in Peers, NEW q \in Peers, NEW n \in Nat, Told(client', tracks', chan', q, n, g)
      PROVE  Told(client, tracks, chan, q, n, g)
  <2>1. n # 0
    BY <1>4 DEF Told
  <2>2. client'[q].place = client[q].place
    BY <1>3 DEF SameRace
  <2>3. ASSUME Carried(chan', g, Place(q, n)) PROVE Carried(chan, g, Place(q, n))
    BY <2>3, Messages DEF Met
  <2>4. ASSUME NEW r \in Peers, q \in DOMAIN tracks'[r], tracks'[r][q].place = Given(n, g)
        PROVE  q \in DOMAIN tracks[r] /\ tracks[r][q].place = Given(n, g)
    BY <2>1, <2>4, PlaceIs DEF Met
  <2>. QED  BY <1>4, <2>1, <2>2, <2>3, <2>4 DEF Told
<1>. QED  BY <1>1, <1>2, <1>3, <1>4, UntoldKeeps

\* open, onReady: join
LEMMA JoinKeeps ==
  ASSUME PeerInv, NEW p \in Peers, Join(p) PROVE PeerInv'
<1>. DEFINE qs == IF Greeting THEN {} ELSE lobby.in
            g == Greeting
            c == [client[p] EXCEPT !.state = "lobby", !.host = FALSE, !.asks = "no", !.announce = g]
<1>0. /\ client[p] \in Clients /\ Linked(p, qs, c)
      /\ faults' = faults /\ lobby' = [lobby EXCEPT !.in = @ \cup {p}]
      /\ client[p].asks # "no" /\ faults \in 0..MaxFaults /\ lobby \in Lobbies
  BY DEF Join, PeerInv, PeerTypes
<1>1. c \in Clients /\ c.state = "lobby" /\ c.asks = "no" /\ c.seen = client[p].seen /\ SameRace(c, client[p])
  <2>1. g \in BOOLEAN
    BY DEF Greeting
  <2>. HIDE DEF g
  <2>. QED  BY <1>0, <2>1 DEF Clients, SameRace
<1>2. /\ p \notin lobby.in /\ p \notin client[p].seen /\ client[p].state # "gone"
  BY <1>0, OwnFields DEF Settled
<1>3. qs \subseteq Peers /\ p \notin qs
  BY <1>0, <1>2 DEF Lobbies
<1>4. lobby' \in Lobbies /\ lobby'.in = lobby.in \cup {p} /\ faults' \in 0..MaxFaults
  BY <1>0 DEF Lobbies
<1>. HIDE DEF c, qs
<1>5. Met(p, qs, c)
  BY <1>0, <1>1, <1>3, LinkedIs
<1>. QED  BY <1>1, <1>2, <1>3, <1>4, <1>5, MetKeeps

\* onConnected
LEMMA ConnectKeeps ==
  ASSUME PeerInv, NEW p \in Peers, NEW q \in Peers, Connect(p, q) PROVE PeerInv'
<1>0. /\ Linked(p, {q}, client[p]) /\ p # q /\ p \in lobby.in
      /\ lobby' = lobby /\ faults' \in 0..MaxFaults /\ lobby \in Lobbies
  BY DEF Connect, PeerInv, PeerTypes
<1>. DEFINE qs == {q}
<1>1. qs \subseteq Peers /\ p \notin qs
  BY <1>0
<1>. HIDE DEF qs
<1>2. Met(p, qs, client[p])
  BY <1>0, <1>1, OwnFields, LinkedIs DEF qs
<1>3. SameRace(client[p], client[p])
  BY DEF SameRace
<1>4. client[p].asks = "no" /\ client[p].state # "offline" /\ p \notin client[p].seen
  BY <1>0, OwnFields DEF Settled
<1>5. lobby' \in Lobbies /\ lobby'.in = lobby.in \cup {p}
  BY <1>0
<1>. QED  BY <1>0, <1>1, <1>2, <1>3, <1>4, <1>5, MetKeeps

\* What nobody knows anybody with is a map of tracks.
LEMMA NoTracksIs == NoTracks \in TrackMaps /\ DOMAIN NoTracks = {}
<1>1. NoTracks \in [{} -> Track] /\ {} \in SUBSET Peers
  BY DEF NoTracks
<1>. QED  BY <1>1 DEF TrackMaps

\* disconnect: whoever leaves forgets what it gave out; the others do not.
LEMMA LeaveKeeps ==
  ASSUME PeerInv, NEW p \in Peers, Leave(p) PROVE PeerInv'
<1>. DEFINE c == [client[p] EXCEPT !.state = "gone", !.ready = FALSE, !.host = FALSE,
                    !.order = 0, !.finished = {}, !.place = NoPlace, !.seen = {},
                    !.greeted = {}, !.announce = FALSE]
<1>0. /\ client \in [Peers -> Clients] /\ client[p] \in Clients /\ client' = [client EXCEPT ![p] = c]
      /\ tracks \in [Peers -> TrackMaps] /\ tracks' = [tracks EXCEPT ![p] = NoTracks]
      /\ chan \in [Peers -> [Peers -> Seq(Msgs)]]
      /\ chan' = [q \in Peers |-> [chan[q] EXCEPT ![p] = <<>>]]
      /\ open' = {l \in open : p \notin l} /\ faults' = faults + 1 /\ faults < MaxFaults
      /\ p \in lobby.in /\ faults \in 0..MaxFaults
  BY OwnFields DEF Leave, PeerInv, PeerTypes
<1>1. /\ c \in Clients /\ c.state = "gone" /\ c.finished = {} /\ c.place = NoPlace /\ c.seen = {}
      /\ c.asks = "no"
  BY <1>0, PlaceIs, OwnFields DEF Clients, Settled
<1>. HIDE DEF c
<1>2. /\ client'[p] = c /\ \A r \in Peers \ {p} : client'[r] = client[r]
      /\ tracks'[p] = NoTracks /\ \A r \in Peers \ {p} : tracks'[r] = tracks[r]
  BY <1>0
<1>3. chan' \in Channels /\ \A g \in Peers : \A k : Carried(chan', g, k) => Carried(chan, g, k)
  <2>1. /\ chan' \in [Peers -> [Peers -> Seq(Msgs)]]
        /\ \A a, b \in Peers : chan'[a][b] = chan[a][b] \/ chan'[a][b] = <<>>
    BY <1>0
  <2>. QED  BY <2>1, EmptiedIs, OwnFields
<1>4. lobby \in Lobbies /\ lobby' \in Lobbies /\ lobby'.in = lobby.in \ {p}
  <2>1. lobby \in Lobbies
    BY DEF PeerInv, PeerTypes
  <2>2. PICK l \in (IF lobby.leader # p THEN {lobby.leader}
                    ELSE IF lobby.in = {p} THEN {None} ELSE lobby.in \ {p}) :
          lobby' = [lobby EXCEPT !.in = @ \ {p}, !.leader = l]
    BY DEF Leave
  <2>3. l \in Peers \cup {None}
    BY <2>1, <2>2 DEF Lobbies
  <2>. QED  BY <2>1, <2>2, <2>3 DEF Lobbies
<1>5. PeerTypes'
  BY <1>0, <1>1, <1>3, <1>4, NoTracksIs, PeerAssumption DEF PeerInv, PeerTypes, PeerAssumption
<1>6. Orderly'
  BY <1>1, <1>2, <1>4 DEF PeerInv, Orderly, Settled
<1>7. ASSUME NEW g \in Peers, NEW q \in Peers, NEW n \in Nat, Told(client', tracks', chan', q, n, g)
      PROVE  Told(client, tracks, chan, q, n, g)
  <2>1. n # 0
    BY <1>7 DEF Told
  <2>2. client'[q].place = Given(n, g) => client[q].place = Given(n, g)
    BY <1>1, <1>2, <2>1, PlaceIs
  <2>3. \A r \in Peers : q \in DOMAIN tracks'[r] => r # p /\ tracks'[r] = tracks[r]
    BY <1>2, NoTracksIs
  <2>. QED  BY <1>3, <1>7, <2>1, <2>2, <2>3 DEF Told
<1>8. \A g \in Peers : \/ client'[g].state = "gone"
                       \/ /\ client[g].state # "gone" /\ client[g].finished \subseteq client'[g].finished
                          /\ client'[g].order = client[g].order
  BY <1>1, <1>2
<1>9. \A g \in Peers : client'[g].place.by = g => client'[g].place = client[g].place
  BY <1>1, <1>2, PlaceIs
<1>10. Awards'
  BY <1>5, <1>7, <1>8, <1>9, AwardsStay
<1>. QED  BY <1>5, <1>6, <1>10 DEF PeerInv

\* The invariant holds before the first peer opens a room.
LEMMA PeersInit == Init => PeerInv
<1>. SUFFICES ASSUME Init PROVE PeerInv
  OBVIOUS
<1>. DEFINE c == [state |-> "offline", ready |-> FALSE, host |-> FALSE, asks |-> "no", order |-> 0,
          finished |-> {}, place |-> NoPlace, flights |-> 0, seen |-> {}, greeted |-> {},
          announce |-> FALSE, toggles |-> 0]
<1>1. /\ client = [p \in Peers |-> c] /\ tracks = [p \in Peers |-> NoTracks]
      /\ chan = [p \in Peers |-> [q \in Peers |-> <<>>]] /\ open = {} /\ faults = 0
      /\ lobby \in Lobbies /\ lobby.in = {}
  <2>1. PICK S \in Scopes : lobby = [in |-> {}, leader |-> None, scope |-> S]
    BY DEF Init
  <2>. QED  BY <2>1 DEF Init, Lobbies
<1>2. c \in Clients /\ c.state = "offline" /\ c.place = NoPlace /\ c.seen = {} /\ c.asks = "no"
  BY PlaceIs DEF Clients
<1>. HIDE DEF c
<1>3. PeerTypes
  <2>1. chan \in Channels
    BY <1>1 DEF Channels
  <2>2. client \in [Peers -> Clients] /\ tracks \in [Peers -> TrackMaps]
    BY <1>1, <1>2, NoTracksIs
  <2>3. faults \in 0..MaxFaults
    BY <1>1, PeerAssumption DEF PeerAssumption
  <2>. QED  BY <1>1, <2>1, <2>2, <2>3 DEF PeerTypes
<1>4. Orderly
  BY <1>1, <1>2 DEF Orderly, Settled
<1>5. \A g \in Peers : \A k : ~Carried(chan, g, k)
  BY <1>1 DEF Carried
<1>6. \A q, g \in Peers, n \in Nat : ~Told(client, tracks, chan, q, n, g)
  BY <1>1, <1>2, <1>5, NoTracksIs, PlaceIs DEF Told
<1>7. Awards
  BY <1>6 DEF Awards
<1>. QED  BY <1>3, <1>4, <1>7 DEF PeerInv

\* Every step of a peer, a link or a fault keeps the invariant: one case per handler.
LEMMA PeersNext ==
  ASSUME PeerInv, [Next]_vars PROVE PeerInv'
<1>1. ASSUME NEW p \in Peers, FallBack(p) \/ Fail(p) \/ Create(p) \/ Join(p) PROVE PeerInv'
  BY <1>1, FallBackKeeps, FailKeeps, CreateKeeps, JoinKeeps
<1>2. ASSUME NEW p \in Peers, Announce(p) \/ LeaderNews(p) \/ Leave(p) PROVE PeerInv'
  BY <1>2, AnnounceKeeps, LeaderNewsKeeps, LeaveKeeps
<1>3. ASSUME NEW p \in Peers, StartNow(p) \/ Heartbeat(p) \/ SendFinish(p) PROVE PeerInv'
  BY <1>3, StartNowKeeps, HeartbeatKeeps, SendFinishKeeps
<1>4. ASSUME NEW p \in Peers, NEW b \in BOOLEAN, Open(p, b) \/ SendReady(p, b) PROVE PeerInv'
  BY <1>4, OpenKeeps, SendReadyKeeps
<1>5. ASSUME NEW p \in Peers, NEW q \in Peers, Connect(p, q) \/ Break(p, q) \/ Disconnected(p, q)
      PROVE  PeerInv'
  BY <1>5, ConnectKeeps, BreakKeeps, DisconnectedKeeps
<1>6. ASSUME NEW p \in Peers, NEW q \in Peers,
             OnHello(p, q) \/ OnReady(p, q) \/ OnStart(p, q) \/ OnFinish(p, q) \/ OnPlace(p, q)
      PROVE  PeerInv'
  BY <1>6, OnHelloKeeps, OnReadyKeeps, OnStartKeeps, OnFinishKeeps, OnPlaceKeeps
<1>7. ASSUME NEW p \in Peers, NEW q \in Peers, OnState(p, q) \/ Stale(p, q) PROVE PeerInv'
  BY <1>7, OnStateKeeps, StaleKeeps
<1>8. CASE UNCHANGED vars
  <2>1. /\ lobby' = lobby /\ open' = open /\ client' = client /\ tracks' = tracks /\ chan' = chan
        /\ faults' = faults
    BY <1>8 DEF vars
  <2>2. PeerTypes' /\ Orderly'
    BY <2>1 DEF PeerInv, PeerTypes, Orderly, Settled
  <2>. QED  BY <2>1, <2>2, SameKeeps
<1>. QED
  BY <1>1, <1>2, <1>3, <1>4, <1>5, <1>6, <1>7, <1>8 DEF Next

\* The inductive invariant of the rooms of peers, whoever leads, comes and leaves: whoever
\* gives places knows whom it gave one, counts them, and gives no two pilots the same
\* (PokiNetlib finishOrder, finished).
THEOREM PeersInductive == Spec => []PeerInv
BY PeersInit, PeersNext, PTL DEF Spec

\* What the invariant says of the screens: types, places and rosters.
LEMMA PeersImplies == PeerInv => TypeOK /\ PlacesOfOneLeader /\ RostersAgree
<1>. SUFFICES ASSUME PeerInv PROVE TypeOK /\ PlacesOfOneLeader /\ RostersAgree
  OBVIOUS
<1>0. /\ client \in [Peers -> Clients] /\ tracks \in [Peers -> TrackMaps]
      /\ chan \in [Peers -> [Peers -> Seq(Msgs)]] /\ lobby \in Lobbies
  BY DEF PeerInv, PeerTypes, Channels
<1>1. TypeOK
  <2>1. ASSUME NEW p \in Peers
        PROVE  DOMAIN tracks[p] \subseteq Peers /\ \A q \in DOMAIN tracks[p] : tracks[p][q] \in Track
    <3>1. PICK S \in SUBSET Peers : tracks[p] \in [S -> Track]
      BY <1>0 DEF TrackMaps
    <3>. QED  BY <3>1
  <2>2. ASSUME NEW p \in Peers, NEW q \in Peers, NEW i \in 1..Len(chan[p][q])
        PROVE  chan[p][q][i] \in Msgs
    <3>. DEFINE s == chan[p][q]
    <3>1. s \in Seq(Msgs)
      BY <1>0
    <3>2. i \in 1..Len(s)
      OBVIOUS
    <3>. HIDE DEF s
    <3>3. s[i] \in Msgs
      BY <3>1, <3>2
    <3>. QED  BY <3>3 DEF s
  <2>. QED  BY <1>0, <2>1, <2>2 DEF TypeOK, PeerInv, PeerTypes, Lobbies
<1>2. \A p \in Peers : client[p].place \in Placings
  BY <1>0 DEF Clients
<1>3. \A p \in Peers : \A q \in DOMAIN tracks[p] : q \in Peers /\ tracks[p][q].place \in Placings
  BY <1>1 DEF TypeOK, Track
<1>. DEFINE Shown(q) == {client[q].place} \cup {tracks[r][q].place : r \in Knows(q)}
<1>4. ASSUME NEW q \in Peers, NEW x \in Shown(q), x # NoPlace
      PROVE  \E n \in Nat, g \in Peers : x = Given(n, g) /\ Told(client, tracks, chan, q, n, g)
  <2>1. x \in Placings /\ (x = client[q].place \/ \E r \in Peers : q \in DOMAIN tracks[r] /\ x = tracks[r][q].place)
    BY <1>2, <1>3 DEF Knows
  <2>. HIDE DEF Shown
  <2>2. PICK n \in Nat \ {0}, g \in Peers : x = Given(n, g)
    BY <1>4, <2>1, PlaceIs
  <2>. QED  BY <2>1, <2>2 DEF Told
<1>5. \A q, r, g \in Peers, n, m \in Nat :
         Told(client, tracks, chan, q, n, g) /\ Told(client, tracks, chan, r, m, g) =>
           (n = m => q = r) /\ (q = r /\ q # g => n = m)
  BY DEF PeerInv, Awards
<1>6. PlacesOfOneLeader
  <2>. SUFFICES ASSUME NEW p \in Peers, NEW q \in Peers, NEW x \in Shown(p), x \in Shown(q), p # q, x # NoPlace
                PROVE  FALSE
    BY DEF PlacesOfOneLeader
  <2>1. PICK n \in Nat, g \in Peers : x = Given(n, g) /\ Told(client, tracks, chan, p, n, g)
    BY <1>4
  <2>2. PICK m \in Nat, h \in Peers : x = Given(m, h) /\ Told(client, tracks, chan, q, m, h)
    BY <1>4
  <2>3. n = m /\ g = h
    BY <2>1, <2>2 DEF Given
  <2>. QED  BY <1>5, <2>1, <2>2, <2>3
<1>7. RostersAgree
  <2>. SUFFICES ASSUME NEW p \in Peers, NEW q \in Peers, q \in DOMAIN tracks[p],
                       tracks[p][q].place.by = client[q].place.by
                PROVE  \/ tracks[p][q].place.n = client[q].place.n
                       \/ client[q].place.by = q /\ tracks[p][q].place.n < client[q].place.n
    BY DEF RostersAgree
  <2>. DEFINE x == tracks[p][q].place
              y == client[q].place
  <2>1. x \in Shown(q) /\ y \in Shown(q) /\ x \in Placings /\ y \in Placings /\ x.by = y.by
    BY <1>2, <1>3 DEF Knows
  <2>. HIDE DEF Shown
  <2>2. CASE x = NoPlace \/ y = NoPlace
    <3>1. x = NoPlace /\ y = NoPlace
      BY <2>1, <2>2, PlaceIs
    <3>. QED  BY <3>1
  <2>3. CASE x # NoPlace /\ y # NoPlace
    <3>1. PICK n \in Nat, g \in Peers : x = Given(n, g) /\ Told(client, tracks, chan, q, n, g)
      BY <1>4, <2>1, <2>3
    <3>2. PICK m \in Nat, h \in Peers : y = Given(m, h) /\ Told(client, tracks, chan, q, m, h)
      BY <1>4, <2>1, <2>3
    <3>3. g = h /\ x.n = n /\ y.n = m /\ y.by = g
      BY <2>1, <3>1, <3>2, PlaceIs
    <3>4. CASE q # g
      BY <1>5, <3>1, <3>2, <3>3, <3>4
    <3>5. CASE q = g
      <4>1. n <= client[q].place.n
        BY <3>1, <3>3, <3>5 DEF PeerInv, Awards
      <4>. QED  BY <3>3, <3>5, <4>1
    <3>. QED  BY <3>4, <3>5
  <2>. QED  BY <2>2, <2>3
<1>. QED  BY <1>1, <1>6, <1>7

\* Every field of every client, every track and every message has its type, whatever peers
\* come, go, and lose their links (PokiNetlib).
THEOREM PeersTypeCorrect == Spec => []TypeOK
BY PeersInductive, PeersImplies, PTL

\* No leader gives two pilots one place, on any screen, whatever finishes come late or twice,
\* whoever leads next, and whether or not the leader flies again (PokiNetlib sendFinish, the
\* "finish" message).
THEOREM PlacesOfLeadersAreUnique == Spec => []PlacesOfOneLeader
BY PeersInductive, PeersImplies, PTL

\* What a roster and the pilot have of one leader is the same place, or the roster has yet to
\* hear of the leader's own next flight (PokiNetlib, the "place" message).
THEOREM RostersDoAgree == Spec => []RostersAgree
BY PeersInductive, PeersImplies, PTL
=============================================================================
