-------------------------------- MODULE Cups --------------------------------
(***************************************************************************)
(* LeaderboardService and TournamentService over the pilots and squads of  *)
(* the Node service: verified and quarantined runs, rollbacks, cups from   *)
(* registration to standings and prizes, and the season's snapshot.        *)
(*                                                                         *)
(* A run has one value, which stands for its metrics.  A cup's tier t is   *)
(* cut at the value t.  Dates and places of boards are computed at read    *)
(* time and are left out, but for who is on them.                          *)
(***************************************************************************)
EXTENDS Squads

CONSTANTS
    Runs,        \* run ids
    Values,      \* what a run is worth
    Tiers,       \* the tiers of a cup, by their cuts
    MaxCups,     \* bound: cups
    MaxEntries   \* a cup's maxEntries

NoRun == "none"

ASSUME CupsAssumption ==
    /\ Values \subseteq Nat \ {0} /\ Tiers \subseteq Nat \ {0}
    /\ MaxCups \in Nat /\ MaxEntries \in Nat /\ NoRun \notin Runs

VARIABLES
    scores,  \* the rows, oldest first
    index,   \* scoreIndex: run -> row, or the tombstone 0
    cups,
    season   \* the season's snapshot: the rows that were visible

cupVars == <<scores, index, cups, season>>

Phases == {"registration", "active", "finished", "canceled"}

CupsTypeOK ==
    /\ \A i \in DOMAIN scores : scores[i] \in [run : Runs, pilot : Ids, value : Values, at : 0..MaxDay,
                                               status : {"active", "quarantined", "invalidated"}]
    /\ DOMAIN index \subseteq Runs /\ \A r \in DOMAIN index : index[r] \in 0..Len(scores)
    /\ DOMAIN cups \subseteq 1..MaxCups
    /\ \A c \in DOMAIN cups :
         /\ cups[c].phase \in Phases /\ cups[c].opens \in Nat
         /\ \A p \in DOMAIN cups[c].entries :
              cups[c].entries[p] \in [best : Nat, run : Runs \cup {NoRun}, claimed : Nat]
         /\ cups[c].ledger \subseteq [pilot : Ids, tier : Tiers, best : Nat, handed : BOOLEAN]

CupsInit == scores = <<>> /\ index = <<>> /\ cups = <<>> /\ season = {}

Extend(f, x, v) == [y \in DOMAIN f \cup {x} |-> IF y = x THEN v ELSE f[y]]

-----------------------------------------------------------------------------
(* The boards.                                                             *)

\* visibleRows, global: the rows that count; the status of their pilot in f is read as it stands
Visible(f) == {scores[i] : i \in {j \in DOMAIN scores :
              /\ scores[j].status = "active" /\ scores[j].pilot \in DOMAIN f
              /\ f[scores[j].pilot].status # "suspended"}}

Best(p) == LET mine == {scores[i].value : i \in {j \in DOMAIN scores : scores[j].pilot = p /\ scores[j].status = "active"}}
           IN  IF mine = {} THEN 0 ELSE Max(mine)

Row(p, run, v, status) == [run |-> run, pilot |-> p, value |-> v, at |-> day, status |-> status]

\* submit: a plausible run counts and feeds the squad, another one waits for a moderator
Submit(p, run, v) ==
    /\ ~Suspended(p) /\ profiles' = Healed({p})
    /\ run \notin DOMAIN index /\ index' = Extend(index, run, Len(scores) + 1)
    /\ \/ scores' = Append(scores, Row(p, run, v, "active")) /\ RecordContribution(p, run) /\ UNCHANGED cases
       \/ /\ scores' = Append(scores, Row(p, run, v, "quarantined")) /\ UNCHANGED squadVars
          /\ cases' = Append(cases, Case(None))
    /\ UNCHANGED <<cups, season>>

\* submitLegacy, for a device that has its pilot: suspended or not, and for no squad
SubmitLegacy(d, run, v) ==
    /\ guestLinks[d] \in Live /\ run \notin DOMAIN index /\ index' = Extend(index, run, Len(scores) + 1)
    /\ \/ scores' = Append(scores, Row(guestLinks[d], run, v, "active")) /\ UNCHANGED cases
       \/ scores' = Append(scores, Row(guestLinks[d], run, v, "quarantined")) /\ cases' = Append(cases, Case(None))
    /\ UNCHANGED <<profiles, squadVars, cups, season>>

InvalidateScore(run) ==
    /\ run \in DOMAIN index /\ index[run] # 0
    /\ scores' = [scores EXCEPT ![index[run]].status = "invalidated"]

InvalidateAll(p) ==
    scores' = [i \in DOMAIN scores |-> IF scores[i].pilot = p THEN [scores[i] EXCEPT !.status = "invalidated"] ELSE scores[i]]

\* snapshotSeason: whatever snapshot was there is replaced
Snapshot(f) == season' = Visible(f)

RollBack ==
    /\ \/ (\E run \in Runs : InvalidateScore(run)) /\ UNCHANGED season
       \/ (\E p \in born : InvalidateAll(p)) /\ UNCHANGED season
       \/ Snapshot(profiles) /\ UNCHANGED scores
    /\ UNCHANGED <<index, cups>>

-----------------------------------------------------------------------------
(* Cups.                                                                   *)

SetCup(c, q) == cups' = [cups EXCEPT ![c] = q]

CreateCup(opens) ==
    /\ Cardinality(DOMAIN cups) < MaxCups
    /\ cups' = Extend(cups, 1 + Cardinality(DOMAIN cups),
                      [phase |-> "registration", opens |-> opens, entries |-> <<>>, ledger |-> {}, standings |-> {}])

\* closeRegistration; start also waits for the day
CloseRegistration(c) == cups[c].phase = "registration" /\ SetCup(c, [cups[c] EXCEPT !.phase = "active"])
Start(c) == day >= cups[c].opens /\ CloseRegistration(c)
Cancel(c) == cups[c].phase \notin {"finished", "canceled"} /\ SetCup(c, [cups[c] EXCEPT !.phase = "canceled"])

\* who stands where: a pilot's best, which gives his rank and tier
Standings(q) == {<<p, q.entries[p].best>> : p \in DOMAIN q.entries}

\* finish: standings() looks at every entrant's profile, then the season is frozen
Finish(c) ==
    /\ cups[c].phase = "active"
    /\ profiles' = Healed(DOMAIN cups[c].entries) /\ Snapshot(profiles')
    /\ SetCup(c, [cups[c] EXCEPT !.phase = "finished", !.standings = Standings(cups[c])])

Open(c) == cups[c].phase \in {"active", "finished"}

Entry == [best |-> 0, run |-> NoRun, claimed |-> 0]

Register(c, p) ==
    /\ ~Suspended(p) /\ profiles' = Healed({p})
    /\ cups[c].phase = "registration" /\ Cardinality(DOMAIN cups[c].entries) < MaxEntries
    /\ p \notin DOMAIN cups[c].entries
    /\ SetCup(c, [cups[c] EXCEPT !.entries = Extend(@, p, Entry)])

\* what a result does to an entry
Improved(e, run, v) == IF v > e.best THEN [e EXCEPT !.best = v, !.run = run] ELSE e

\* (mutant) the run is not remembered
Unmarked(run) == index
\* a result's run leaves a tombstone, so that no board and no cup takes it again
Tombstoned(run) == IF run = NoRun THEN index ELSE Extend(index, run, 0)

\* (mutant) results are taken after the end
TakesLateResults(c) == Open(c)
TakesResults(c) == cups[c].phase = "active"

\* submitResult: with or without a run id, registered or not, full or not
SubmitResult(c, p, run, v) ==
    /\ ~Suspended(p) /\ profiles' = Healed({p}) /\ TakesResults(c)
    /\ run \notin DOMAIN index /\ index' = Tombstoned(run)
    /\ LET e == IF p \in DOMAIN cups[c].entries THEN cups[c].entries[p] ELSE Entry
       IN  SetCup(c, [cups[c] EXCEPT !.entries = Extend(@, p, Improved(e, run, v))])

\* the tier p reached that is above the best he was paid for and not in the ledger
Due(q, p, t) == /\ q.entries[p].best >= t /\ t > q.entries[p].claimed
                /\ \A g \in q.ledger : <<g.pilot, g.tier>> # <<p, t>>

Grants(q, due, handed) ==
    {[pilot |-> d[1], tier |-> d[2], best |-> q.entries[d[1]].best, handed |-> handed] : d \in due}

\* (mutant) the best is not banked with the tier
PaidUnbanked(q, due, handed) == [q EXCEPT !.ledger = @ \cup Grants(q, due, handed)]

\* he was paid for his best
Banked(e) == [e EXCEPT !.claimed = IF e.claimed > e.best THEN e.claimed ELSE e.best]

\* the tiers that are due to pilots, and whether they were handed the prizes
Paid(q, due, handed) ==
    [q EXCEPT !.ledger = @ \cup Grants(q, due, handed),
              !.entries = [p \in DOMAIN @ |-> IF \E d \in due : d[1] = p THEN Banked(@[p]) ELSE @[p]]]

Highest(T) == {t \in T : \A u \in T : u <= t}

\* the highest tier that is due
ClaimReward(c, p) ==
    /\ Open(c) /\ p \in DOMAIN cups[c].entries
    /\ \E t \in Highest({u \in Tiers : Due(cups[c], p, u)}) : SetCup(c, Paid(cups[c], {<<p, t>>}, TRUE))

\* every pilot's own tier, if it is due
Distribute(c) ==
    /\ Open(c)
    /\ LET q   == cups[c]
           due == {d \in (DOMAIN q.entries) \X Tiers :
                     /\ d[2] \in Highest({t \in Tiers : q.entries[d[1]].best >= t})
                     /\ Due(q, d[1], d[2])}
       IN  SetCup(c, Paid(q, due, FALSE))

Post == /\ \E run \in Runs, v \in Values : (\E p \in born : Submit(p, run, v)) \/ (\E d \in Devices : SubmitLegacy(d, run, v))
        /\ UNCHANGED <<day, born, guestLinks, platformLinks, blocks, friendships, requests>>

Organise ==
    \/ \E c \in DOMAIN cups : Finish(c)
    \/ /\ UNCHANGED <<profiles, season>>
       /\ \/ \E opens \in 0..1 : CreateCup(opens)
          \/ \E c \in DOMAIN cups : CloseRegistration(c) \/ Start(c) \/ Cancel(c) \/ Distribute(c)
                                    \/ \E p \in born : ClaimReward(c, p)

Compete ==
    \E c \in DOMAIN cups, p \in born :
       \/ Register(c, p) /\ UNCHANGED index
       \/ \E run \in Runs \cup {NoRun}, v \in Values : SubmitResult(c, p, run, v)

-----------------------------------------------------------------------------
(* Properties.                                                             *)

\* "A run cannot be replayed across leaderboards and tournaments": each stands in one row of
\* the board or is the best of one entry of one cup.
RunsCountOnce ==
    \A r \in Runs :
      Cardinality({i \in DOMAIN scores : scores[i].run = r})
      + Cardinality({x \in (DOMAIN cups) \X Ids : x[2] \in DOMAIN cups[x[1]].entries /\ cups[x[1]].entries[x[2]].run = r}) <= 1

\* "One run must never be double-banked across tiers": of two tiers a pilot was granted, one
\* lies above the best that the other was granted for.
OneTierPerBest ==
    \A c \in DOMAIN cups : \A g, h \in cups[c].ledger :
      g.pilot = h.pilot /\ g # h => g.tier > h.best \/ h.tier > g.best

\* A cup that is finished keeps the standings it was finished with: what is claimed,
\* distributed or handed in afterwards moves nobody.
StandingsAreFinal ==
    \A c \in DOMAIN cups : cups[c].phase = "finished" => cups[c].standings = Standings(cups[c])

\* A cup takes no more entries than it has room for.
CupsNeverOverfull == \A c \in DOMAIN cups : Cardinality(DOMAIN cups[c].entries) <= MaxEntries

\* A granted prize reaches its pilot: it was handed to him, or claiming still hands it out.
PrizesAreHanded ==
    \A c \in DOMAIN cups : \A g \in cups[c].ledger : g.handed \/ Due(cups[c], g.pilot, g.tier)

\* "The incoming profile's progress is merged": what a device's pilot reached on the board is
\* his after a merge too, unless a moderator took it.
MergesKeepScores ==
    [][\A d \in Devices : scores' = scores /\ guestLinks[d] \in Live => Best(guestLinks'[d]) >= Best(guestLinks[d])]_guestLinks

\* "Inactive owners": who lost a squad had flown no run for as long as an owner may be silent.
ActiveOwnersStay ==
    [][\A s \in DOMAIN squads \cap DOMAIN squads' : squads'[s].ownerId # squads[s].ownerId =>
         \A i \in DOMAIN scores : scores[i].pilot = squads[s].ownerId /\ scores[i].status = "active" => day - scores[i].at >= OwnerInactive]_squadVars
=============================================================================
