------------------------------- MODULE Squads -------------------------------
(***************************************************************************)
(* SquadService: squads with an owner, admins, members and pilots on       *)
(* probation; joining by kind of squad; the weekly goal that verified runs *)
(* feed; and the housekeeping timer that ends probations and replaces      *)
(* owners who were silent too long.                                        *)
(*                                                                         *)
(* Cooldowns of seconds and minutes are over by the next request: a tick   *)
(* is a day.  Mutes, shown shouts, reports and texts are left out.         *)
(***************************************************************************)
EXTENDS Pilots

CONSTANTS
    MaxSquads,     \* bound: squads ever founded
    Cap,           \* CAP, members of a squad
    MaxPerPilot,   \* MAX_SQUADS_PER_PLAYER
    Probation,     \* the days of a probation
    OwnerInactive, \* OWNER_INACTIVE_MS in days
    WeekDays,      \* days of a weekKey
    Target         \* the goal, in runs

ASSUME SquadsAssumption ==
    /\ MaxSquads \in Nat /\ Cap \in Nat \ {0} /\ MaxPerPilot \in Nat \ {0}
    /\ Probation \in Nat /\ OwnerInactive \in Nat \ {0}
    /\ WeekDays \in Nat \ {0} /\ Target \in Nat \ {0}

VARIABLES
    squads,   \* squads by number, in the order they were founded
    founded   \* how many ever were

squadVars == <<squads, founded>>

Roles == {"owner", "admin", "member", "probation"}
Week(d) == d \div WeekDays

Members == UNION {[M -> [role : Roles, until : 0..(MaxDay + Probation), seen : 0..MaxDay, since : 0..MaxDay]] : M \in SUBSET Ids}

SquadsTypeOK ==
    /\ founded \in 0..MaxSquads /\ DOMAIN squads \subseteq 1..founded
    /\ \A s \in DOMAIN squads :
         LET q == squads[s] IN
         /\ q.kind \in {"public", "invite", "private"} /\ q.ownerId \in Ids /\ DOMAIN q.members \subseteq Ids
         /\ q.pending \subseteq Ids /\ q.blocked \subseteq Ids
         /\ q.goal \in [week : Nat, progress : Nat, claimed : BOOLEAN]

\* probationUntil is 0 when there is none
Seat(role) == [role |-> role, until |-> IF role = "probation" THEN day + Probation ELSE 0, seen |-> day, since |-> day]

SquadsInit == squads = <<>> /\ founded = 0

-----------------------------------------------------------------------------

In(p, s) == s \in DOMAIN squads /\ p \in DOMAIN squads[s].members
SquadsOf(p) == {s \in DOMAIN squads : In(p, s)}
Role(p, s) == squads[s].members[p].role
Leads(p, s) == In(p, s) /\ Role(p, s) \in {"admin", "owner"}   \* requireRole admin
Owns(p, s) == In(p, s) /\ Role(p, s) = "owner"

With(q, p, role) == [q EXCEPT !.members = [m \in DOMAIN q.members \cup {p} |-> IF m = p THEN Seat(role) ELSE q.members[m]]]
Without(q, P) == [q EXCEPT !.members = Restrict(@, DOMAIN @ \ P)]
\* touchMember
Seen(q, p) == [q EXCEPT !.members[p].seen = day]

Update(s, q) == squads' = [squads EXCEPT ![s] = q] /\ UNCHANGED founded

-----------------------------------------------------------------------------
(* Founding, joining, leaving.                                             *)

Create(p, kind) ==
    /\ ~Suspended(p) /\ profiles' = Healed({p})
    /\ Cardinality(SquadsOf(p)) < MaxPerPilot /\ founded < MaxSquads
    /\ founded' = founded + 1
    /\ LET new == With([kind |-> kind, ownerId |-> p, members |-> <<>>, pending |-> {}, blocked |-> {},
                        goal |-> [week |-> Week(day), progress |-> 0, claimed |-> FALSE],
                        counted |-> <<>>], p, "owner")
       IN  squads' = [s \in DOMAIN squads \cup {founded + 1} |-> IF s \in DOMAIN squads THEN squads[s] ELSE new]

Disbanded(s) == squads' = Restrict(squads, DOMAIN squads \ {s}) /\ UNCHANGED founded
Disband(p, s) == Owns(p, s) /\ Disbanded(s)
DisbandByModerator(s) == s \in DOMAIN squads /\ Disbanded(s)

Leave(p, s) == In(p, s) /\ Role(p, s) # "owner" /\ Update(s, Without(squads[s], {p}))

\* the old route leaves them all, in order, up to the first that he owns
LeaveAll(p) ==
    LET owned == {s \in SquadsOf(p) : Owns(p, s)}
        left  == {s \in SquadsOf(p) : \A o \in owned : s < o}
    IN  squads' = [s \in DOMAIN squads |-> IF s \in left THEN Without(squads[s], {p}) ELSE squads[s]]
        /\ UNCHANGED founded

\* with the invite code, where one is asked for
Join(p, s) ==
    /\ ~Suspended(p) /\ profiles' = Healed({p})
    /\ s \in DOMAIN squads
    /\ LET q == squads[s] IN
       /\ p \notin DOMAIN q.members \cup q.pending \cup q.blocked /\ Cardinality(DOMAIN q.members) < Cap
       /\ Update(s, CASE q.kind = "public" -> With(q, p, "member")
                      [] q.kind = "invite" -> With(q, p, "probation")
                      [] q.kind = "private" -> [q EXCEPT !.pending = @ \cup {p}])

Approve(a, s, p) ==
    /\ Leads(a, s) /\ p \in squads[s].pending /\ Cardinality(DOMAIN squads[s].members) < Cap
    /\ Update(s, With([squads[s] EXCEPT !.pending = @ \ {p}], p, "probation"))

Reject(a, s, p) == Leads(a, s) /\ p \in squads[s].pending /\ Update(s, [squads[s] EXCEPT !.pending = @ \ {p}])

\* (mutant) the request of a blocked pilot stays pending
BlockLater(a, s, p) == Leads(a, s) /\ Update(s, [squads[s] EXCEPT !.blocked = @ \cup {p}])

BlockJoiner(a, s, p) ==
    Leads(a, s) /\ Update(s, [squads[s] EXCEPT !.blocked = @ \cup {p}, !.pending = @ \ {p}])

UnblockJoiner(a, s, p) == Leads(a, s) /\ Update(s, [squads[s] EXCEPT !.blocked = @ \ {p}])

Kick(a, s, p) ==
    /\ In(a, s) /\ In(p, s)
    /\ IF Owns(a, s) THEN ~Owns(p, s) ELSE Role(a, s) = "admin" /\ Role(p, s) = "probation"
    /\ Update(s, Without(squads[s], {p}))

-----------------------------------------------------------------------------
(* Roles, and who keeps the squad.                                         *)

SetRole(a, s, p, role) ==
    /\ In(a, s) /\ In(p, s) /\ role # "owner"
    /\ Owns(a, s) \/ (Role(a, s) = "admin" /\ role = "member" /\ Role(p, s) = "probation")
    /\ Update(s, [squads[s] EXCEPT !.members[p].role = role, !.members[p].until = Seat(role).until])

\* an emote: what keeps an owner active
Shout(p, s) == In(p, s) /\ Update(s, Seen(squads[s], p))

\* sweepProbation
Graduated(q) ==
    LET m == q.members
    IN  [q EXCEPT !.members = [p \in DOMAIN m |->
            IF m[p].until # 0 /\ day > m[p].until
            THEN [m[p] EXCEPT !.until = 0, !.role = IF m[p].role = "probation" THEN "member" ELSE m[p].role]
            ELSE m[p]]]

\* who sweepSuccession may put in the owner's place: the candidates seen last, then those
\* who joined first; the owner himself when nothing is to be done
Heirs(q) ==
    LET m    == q.members
        free == {p \in DOMAIN m \ {q.ownerId} : m[p].until = 0}
        last == {p \in free : \A o \in free : m[p].seen >= m[o].seen}
    IN  IF q.ownerId \in DOMAIN m /\ free # {}
        THEN IF day - m[q.ownerId].seen >= OwnerInactive
             THEN {p \in last : \A o \in last : m[p].since <= m[o].since} ELSE {q.ownerId}
        ELSE {q.ownerId}

\* (mutant) the old owner keeps the role
CrownedToo(q, p) == IF p = q.ownerId THEN q ELSE [q EXCEPT !.ownerId = p, !.members[p].role = "owner"]

Crowned(q, p) == IF p = q.ownerId THEN q
                 ELSE [q EXCEPT !.ownerId = p, !.members[q.ownerId].role = "member", !.members[p].role = "owner"]

\* the timer: sweepProbation, then sweepSuccession
Housekeeping ==
    LET swept == [s \in DOMAIN squads |-> Graduated(squads[s])]
    IN  \E heir \in [DOMAIN squads -> Ids] :
          /\ \A s \in DOMAIN squads : heir[s] \in Heirs(swept[s])
          /\ squads' = [s \in DOMAIN squads |-> Crowned(swept[s], heir[s])]
          /\ UNCHANGED founded

-----------------------------------------------------------------------------
(* The weekly goal.                                                        *)

\* goal: a new week has a new one
OfThisWeek(g) == IF g.week = Week(day) THEN g ELSE [week |-> Week(day), progress |-> 0, claimed |-> FALSE]

ViewGoal(s) == s \in DOMAIN squads /\ Update(s, [squads[s] EXCEPT !.goal = OfThisWeek(@)])

ClaimGoal(p, s) ==
    /\ In(p, s)
    /\ LET g == OfThisWeek(squads[s].goal)
       IN  /\ ~g.claimed /\ g.progress >= Target
           /\ Update(s, [squads[s] EXCEPT !.goal = [g EXCEPT !.claimed = TRUE]])

\* (mutant) the run is added to the goal that is there, whatever its week
AddedToLast(q, p, run) ==
    [Seen(q, p) EXCEPT !.counted = [r \in DOMAIN @ \cup {run} |-> IF r = run THEN day ELSE @[r]],
                       !.goal.progress = IF @ + 1 > 10 * Target THEN 10 * Target ELSE @ + 1]

Added(q, p, run) ==
    LET g == OfThisWeek(q.goal)
    IN  [Seen(q, p) EXCEPT !.counted = [r \in DOMAIN @ \cup {run} |-> IF r = run THEN day ELSE @[r]],
                           !.goal = [g EXCEPT !.progress = IF @ + 1 > 10 * Target THEN 10 * Target ELSE @ + 1]]

\* recordContribution: to the first of the pilot's squads, once per run
RecordContribution(p, run) ==
    IF SquadsOf(p) = {} THEN UNCHANGED squadVars
    ELSE LET s == Min(SquadsOf(p))
         IN  IF run \in DOMAIN squads[s].counted THEN UNCHANGED squadVars
             ELSE Update(s, Added(squads[s], p, run))

Socialise ==
    \E p \in born, s \in DOMAIN squads :
      \/ Join(p, s)
      \/ /\ UNCHANGED profiles
         /\ \/ Leave(p, s) \/ Disband(p, s) \/ DisbandByModerator(s)
            \/ \E q \in Ids : Approve(p, s, q) \/ Reject(p, s, q) \/ BlockJoiner(p, s, q)
                              \/ UnblockJoiner(p, s, q) \/ Kick(p, s, q)

Found == \/ \E p \in born, kind \in {"public", "invite", "private"} : Create(p, kind)
         \/ UNCHANGED profiles /\ \E p \in born : LeaveAll(p)

Govern ==
    /\ UNCHANGED profiles
    /\ \/ \E p \in born, s \in DOMAIN squads, q \in Ids, role \in Roles : SetRole(p, s, q, role)
       \/ \E p \in born, s \in DOMAIN squads : Shout(p, s)
       \/ Housekeeping

Aim == /\ UNCHANGED profiles
       /\ \E s \in DOMAIN squads : ViewGoal(s) \/ \E p \in born : ClaimGoal(p, s)

-----------------------------------------------------------------------------
(* Properties.                                                             *)

\* Whoever has the owner's role is the owner on record, so there is at most one; after any
\* chain of successions and role changes.
OwnersMatch == \A s \in DOMAIN squads : \A p \in DOMAIN squads[s].members : Owns(p, s) => squads[s].ownerId = p

\* A pilot the admins blocked does not become a member, by any door.
BlockedStayOut ==
    [][\A s \in DOMAIN squads \cap DOMAIN squads' :
         DOMAIN squads'[s].members \cap squads[s].blocked \subseteq DOMAIN squads[s].members]_<<day, squadVars>>

\* The goal has counted every verified run of its week, and none of another week.
GoalCountsItsWeek ==
    \A s \in DOMAIN squads :
      LET q == squads[s]
          n == Cardinality({r \in DOMAIN q.counted : Week(q.counted[r]) = q.goal.week})
      IN  q.goal.progress = IF n > 10 * Target THEN 10 * Target ELSE n

\* "ownership transfers by succession only": the owner on record has the owner's role.
OwnersRule == \A s \in DOMAIN squads : Owns(squads[s].ownerId, s)
=============================================================================
