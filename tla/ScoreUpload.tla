---------------------------- MODULE ScoreUpload ----------------------------
(***************************************************************************)
(* How a finished run reaches the global ladder from an unreliable phone:  *)
(* Leaderboard.submit and uploadBest (src/src/game/Leaderboard.ts) over    *)
(* the durable outbox (src/src/game/resilience/OfflineOutbox.ts).          *)
(*                                                                         *)
(* One page, one thread: the code between two awaits is one step.  Posts   *)
(* are answered in any order, may fail, and may fail after the server took *)
(* them; drains of the outbox overlap; the page may be reloaded at any     *)
(* time, and storage may refuse a write.                                   *)
(*                                                                         *)
(* Abstractions.  One device, one day and one metric: a run is its         *)
(* distance.  The retries inside fetchJson are one post.  Signing always   *)
(* works.  An entry is what `OutboxEntry' calls id, payload and seq; at    *)
(* orders as seq does, and whether the TTL has passed is kept apart.       *)
(***************************************************************************)
EXTENDS Integers, Sequences, FiniteSets, Functions

CONSTANTS
  MaxDistance,  \* runs have distances 1..MaxDistance
  Bench,        \* the longest practice benchmark on the local board
  Cap,          \* cap: entries the outbox holds
  MaxTries,     \* maxTries of drain
  Drains,       \* uploadBest calls that may be under way at once
  MaxSeq        \* bound: entries ever queued

ASSUME UploadAssumption ==
  /\ MaxDistance \in Nat /\ Bench \in Nat /\ Cap \in Nat \ {0}
  /\ MaxTries \in Nat \ {0} /\ MaxSeq \in Nat /\ IsFiniteSet(Drains)

VARIABLES
  local,      \* today's own row on the local board, 0 before the first run
  queue,      \* entries: the outbox in memory
  tries,      \* tries of each entry object
  seq,        \* enqueue counter
  old,        \* seqs of entries past the TTL
  stored,     \* the outbox in storage
  unsaved,    \* whether the last persist failed
  posts,      \* direct posts under way: <<outbox id on failure, distance>>
  drains,     \* drain loops: the entry being sent and those still to come
  ladder,     \* the device's best row on the server
  published,  \* distances submitted to AUDS
  flown       \* history: the longest run of the day

outbox == <<queue, tries, seq, old, stored, unsaved>>
uploadVars ==
  <<local, queue, tries, seq, old, stored, unsaved, posts, drains, ladder, published, flown>>

Ids       == {"run", "best"}     \* score:<date>:<device>, score:best:<date>:<device>
Distances == 1..MaxDistance
Entry     == [id : Ids, val : Distances, seq : 1..MaxSeq]
NoTries   == [s \in 1..MaxSeq |-> 0]
Idle      == [now |-> {}, rest |-> {}]

Larger(a, b) == IF a > b THEN a ELSE b
Queued == Range(queue)

UploadInit ==
  /\ local = 0 /\ queue = <<>> /\ tries = NoTries /\ seq = 0 /\ old = {}
  /\ stored = <<>> /\ unsaved = FALSE
  /\ posts = {} /\ drains = [k \in Drains |-> Idle]
  /\ ladder = 0 /\ published = {} /\ flown = 0
----------------------------------------------------------------------------
(* The outbox                                                              *)

\* What storage holds of a queue: its entries, each with its tries.
Written(q, tr) == [i \in DOMAIN q |-> <<q[i], tr[q[i].seq]>>]

\* persist: best effort; the memory copy stands whatever storage says.
Persist ==
  \/ stored' = Written(queue', tries') /\ unsaved' = FALSE
  \/ stored' = stored /\ unsaved' = TRUE

\* filter: the entries of q that stand at positions I, in their order.
Standing(I, i) == {j \in I : j <= i}
At(q, I) == [k \in 1..Cardinality(I) |-> q[CHOOSE i \in I : Cardinality(Standing(I, i)) = k]]

Pruned(q) == At(q, {i \in DOMAIN q : q[i].seq \notin old})

Places(q, id) == {i \in DOMAIN q : q[i].id = id}

\* Mutant: an entry with the id of a queued one is queued beside it.
Beside(q, e) == IF Len(q) >= Cap THEN Append(Tail(q), e) ELSE Append(q, e)

\* Newest wins for one id; a full queue loses its first entry.
Put(q, e) ==
  IF Places(q, e.id) # {}
  THEN [i \in DOMAIN q |-> IF i \in Places(q, e.id) THEN e ELSE q[i]]
  ELSE IF Len(q) >= Cap THEN Append(Tail(q), e) ELSE Append(q, e)

Enqueue(id, val) ==
  /\ seq < MaxSeq /\ seq' = seq + 1
  /\ queue' = Put(Pruned(queue), [id |-> id, val |-> val, seq |-> seq'])
  /\ tries' = [tries EXCEPT ![seq'] = 0]
  /\ old' = old \ {seq'}
  /\ \/ Persist
     \/ /\ Pruned(queue) # queue      \* prune's write went through, this one not
        /\ stored' = Written(Pruned(queue), tries) /\ unsaved' = TRUE

\* Mutant: the give-up count is one off.
TiredLater(e, tr) == tr[e.seq] > MaxTries
Tired(e, tr)      == tr[e.seq] >= MaxTries

\* The loop of drain: newest first, past the entries that failed too often.
Newest(S) == CHOOSE e \in S : \A f \in S : f.seq <= e.seq
Loop(S, tr) ==
  LET left == {e \in S : ~Tired(e, tr)}
  IN IF left = {} THEN Idle
     ELSE [now |-> {Newest(left)}, rest |-> {e \in S : e.seq < Newest(left).seq}]

\* What stays queued when e was delivered.
Kept(e) == At(queue, {i \in DOMAIN queue : queue[i].id # e.id})

\* Mutant: a delivery is not written to storage.
SkipPersist(ok) == IF ok THEN UNCHANGED <<stored, unsaved>> ELSE Persist
PersistAfter(ok) == Persist
----------------------------------------------------------------------------
(* The leaderboard                                                         *)

\* AUDS gets a run that beats the board as it is after the run was written.
SetsBest(d) == d > Larger(local', Bench)

\* submit: today's row is replaced, and the run posted.
Submit(d) ==
  /\ local' = d /\ flown' = Larger(flown, d)
  /\ posts' = posts \cup {<<"run", d>>}
  /\ published' = IF SetsBest(d) THEN published \cup {d} ELSE published
  /\ UNCHANGED <<outbox, drains, ladder>>

\* uploadBest, on `online' or when a board is opened: drain, then post the
\* best local row.
UploadBest(k) ==
  /\ drains[k] = Idle
  /\ queue' = Pruned(queue)
  /\ drains' = [drains EXCEPT ![k] = Loop(Range(queue'), tries)]
  /\ posts' = IF local = 0 THEN posts ELSE posts \cup {<<"best", local>>}
  /\ IF queue' # queue THEN UNCHANGED tries /\ Persist
     ELSE UNCHANGED <<tries, stored, unsaved>>
  /\ UNCHANGED <<local, seq, old, ladder, published, flown>>

\* The answer to a direct post; a failed one is queued.
Posted(p, ok, taken) ==
  /\ p \in posts /\ (ok => taken)
  /\ posts' = posts \ {p}
  /\ ladder' = IF taken THEN Larger(ladder, p[2]) ELSE ladder
  /\ IF ok THEN UNCHANGED outbox ELSE Enqueue(p[1], p[2])
  /\ UNCHANGED <<local, drains, published, flown>>

\* The answer to a drain's post: one more try; a delivered entry goes, and
\* the loop goes on; a failure ends it.
Drained(k, ok, taken) ==
  /\ ok => taken
  /\ \E e \in drains[k].now :
       /\ tries' = [tries EXCEPT ![e.seq] = @ + 1]
       /\ ladder' = IF taken THEN Larger(ladder, e.val) ELSE ladder
       /\ queue' = IF ok THEN Kept(e) ELSE queue
  /\ drains' = [drains EXCEPT ![k] = IF ok THEN Loop(drains[k].rest, tries') ELSE Idle]
  /\ PersistAfter(ok)
  /\ UNCHANGED <<local, seq, old, posts, published, flown>>

\* Mutant: a page counts from zero again, whatever it loads.
ResumedAtZero(q) == 0

\* "Resume the sequence above anything loaded from storage."
Resumed(q) == IF q = <<>> THEN 0 ELSE Newest(Range(q)).seq

\* The page goes away with all it had in memory; keepalive posts may or may
\* not have arrived.  The next page loads the outbox from storage.
Reload ==
  /\ posts' = {} /\ drains' = [k \in Drains |-> Idle]
  /\ \E v \in {ladder} \cup {p[2] : p \in posts} : ladder' = Larger(ladder, v)
  /\ queue' = [i \in DOMAIN stored |-> stored[i][1]] /\ unsaved' = FALSE
  /\ tries' = [s \in 1..MaxSeq |->
                 IF \E w \in Range(stored) : w[1].seq = s
                 THEN (CHOOSE w \in Range(stored) : w[1].seq = s)[2] ELSE 0]
  /\ seq' = Resumed(queue')
  /\ old' = old \cap 1..seq'
  /\ UNCHANGED <<local, stored, published, flown>>

\* Seven days pass for the entries up to number n.
Age(n) ==
  /\ n \in 1..seq /\ n \notin old
  /\ old' = old \cup 1..n
  /\ UNCHANGED <<local, queue, tries, seq, stored, unsaved, posts, drains, ladder,
                 published, flown>>

UploadNext ==
  \/ \E d \in Distances : Submit(d)
  \/ \E k \in Drains : UploadBest(k)
  \/ \E p \in posts, ok, taken \in BOOLEAN : Posted(p, ok, taken)
  \/ \E k \in Drains, ok, taken \in BOOLEAN : Drained(k, ok, taken)
  \/ Reload
  \/ \E n \in 1..MaxSeq : Age(n)

UploadSpec == UploadInit /\ [][UploadNext]_uploadVars
----------------------------------------------------------------------------
(* Properties                                                              *)

UploadTypeOK ==
  /\ local \in 0..MaxDistance /\ ladder \in 0..MaxDistance /\ flown \in 0..MaxDistance
  /\ Queued \subseteq Entry /\ Len(queue) <= Cap
  /\ tries \in [1..MaxSeq -> 0..(MaxTries + Cardinality(Drains) - 1)]
  /\ seq \in 0..MaxSeq /\ old \subseteq 1..MaxSeq /\ unsaved \in BOOLEAN
  /\ Range(stored) \subseteq Entry \X Nat
  /\ posts \subseteq Ids \X Distances /\ published \subseteq Distances
  /\ \A k \in Drains : drains[k].now \cup drains[k].rest \subseteq Entry

\* "per-key dedup" and "Monotonic enqueue counter" (OfflineOutbox): no id is
\* queued twice and no number is used twice, also when the counter starts
\* again from what a reload found in storage.
OneEntryPerKey ==
  \A i, j \in DOMAIN queue :
    (queue[i].id = queue[j].id \/ queue[i].seq = queue[j].seq) => i = j

\* What a reload would find is what the page has: unless storage refused the
\* last write, no delivered entry comes back and no queued one is lost.
StorageMirrorsQueue ==
  ~unsaved => stored = Written(queue, tries)

\* "success removes" the entry that was sent (OfflineOutbox): a newer run
\* that was queued for the same key meanwhile is still to be delivered.
NewerEntrySurvives ==
  [][\A k \in Drains, ok, taken \in BOOLEAN :
       Drained(k, ok, taken) =>
         \A e \in Queued : (\A f \in drains[k].now : f.seq < e.seq) => e \in Range(queue')]_uploadVars

\* "a run finished offline still reaches the global ladder" (uploadBest): the
\* day's best run is on the ladder, on the way, or where the next upload will
\* find it.  Runs lost to age, to a full queue, to storage or to a reload
\* are not counted here: the local row remembers.
BestIsRemembered ==
  \/ flown <= Larger(ladder, local)
  \/ \E p \in posts : p[2] = flown
  \/ \E e \in Queued : e.val = flown
  \/ \E k \in Drains : \E e \in drains[k].now \cup drains[k].rest : e.val = flown

\* "Publish each metric the run actually set a new personal best for"
\* (submit): a run longer than every earlier one and every benchmark goes to
\* AUDS.
NewBestsArePublished ==
  [][\A d \in Distances : (Submit(d) /\ d > flown /\ d > Bench) => d \in published']_uploadVars
=============================================================================
