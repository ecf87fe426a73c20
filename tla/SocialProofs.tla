---------------------------- MODULE SocialProofs ----------------------------
(***************************************************************************)
(* Proofs about the pilots, squads, boards and cups of the Node service,   *)
(* for every value of the constants: blocks and friendships, links to      *)
(* profiles, owners of squads, weekly goals, runs and prizes.              *)
(***************************************************************************)
EXTENDS Social, FiniteSetTheorems, TLAPS

(***************************************************************************)
(* Pilots.                                                                 *)
(***************************************************************************)

Profile == [guest : BOOLEAN, asks : BOOLEAN,
            status : {"clear", "muted", "suspended"}, until : Nat]

\* Types, and why links resolve: a profile that a platform identity leads to
\* is no guest's, and only guests are merged away.
PilotsInv ==
  /\ day \in Nat
  /\ born \subseteq Ids /\ Live \subseteq born /\ profiles \in [Live -> Profile]
  /\ guestLinks \in [Devices -> Ids \cup {None}]
  /\ platformLinks \in [Accounts -> Ids \cup {None}]
  /\ blocks \subseteq Ids \X Ids
  /\ \A a \in Accounts : platformLinks[a] \in Live => ~profiles[platformLinks[a]].guest
  /\ LinksResolve
  /\ NoFriendsAcrossBlocks

\* The same pilots, guests as before or not.
SameStanding ==
  profiles' \in [Live -> Profile] /\ \A p \in Live : profiles'[p].guest = profiles[p].guest

\* A step that moves no link and merges nobody away.
LEMMA StandingKeeps ==
  ASSUME PilotsInv, SameStanding, UNCHANGED <<born, guestLinks, platformLinks>>,
         day' \in Nat, blocks' \subseteq Ids \X Ids,
         \A e \in blocks' : {e[1], e[2]} \notin friendships'
  PROVE  PilotsInv'
<1>1. Live' = Live
  BY DEF SameStanding, Live
<1>2. LinksResolve'
  BY <1>1 DEF PilotsInv, LinksResolve
<1>3. \A a \in Accounts : platformLinks'[a] \in Live' => ~profiles'[platformLinks'[a]].guest
  BY <1>1 DEF PilotsInv, SameStanding
<1>4. NoFriendsAcrossBlocks'
  BY DEF NoFriendsAcrossBlocks
<1>. QED  BY <1>1, <1>2, <1>3, <1>4 DEF PilotsInv, SameStanding

\* Ending penalties that are over changes neither who there is nor who is a guest.
LEMMA HealedStanding ==
  ASSUME PilotsInv, NEW P
  PROVE  /\ Healed(P) \in [Live -> Profile]
         /\ \A p \in Live : Healed(P)[p].guest = profiles[p].guest
<1>. DEFINE x(p) == [profiles[p] EXCEPT !.status = "clear", !.until = 0]
<1>1. \A p \in Live : profiles[p] \in Profile
  BY DEF PilotsInv
<1>2. \A p \in Live : x(p) \in Profile /\ x(p).guest = profiles[p].guest
  BY <1>1 DEF Profile
<1>. HIDE DEF x
<1>3. Healed(P) = [p \in Live |-> IF p \in P /\ Lapsed(p) THEN x(p) ELSE profiles[p]]
  BY DEF Healed, x
<1>. QED  BY <1>1, <1>2, <1>3

\* So does a handler that heals some, or none.
LEMMA HealedIsStanding ==
  ASSUME PilotsInv, NEW P, profiles' = profiles \/ profiles' = Healed(P)
  PROVE  SameStanding
<1>1. CASE profiles' = profiles
  BY <1>1 DEF SameStanding, PilotsInv
<1>2. CASE profiles' = Healed(P)
  BY <1>2, HealedStanding DEF SameStanding
<1>. QED  BY <1>1, <1>2

\* A new record for one pilot, as much of a guest as before.
LEMMA EditStanding ==
  ASSUME PilotsInv, NEW p \in Live, NEW x \in Profile, x.guest = profiles[p].guest,
         profiles' = [profiles EXCEPT ![p] = x]
  PROVE  SameStanding
BY DEF PilotsInv, SameStanding

\* The request handlers of friends and blocks: nobody becomes the friend of
\* a pilot there is a block with.
LEMMA BefriendKeeps ==
  ASSUME PilotsInv, Befriend
  PROVE  PilotsInv'
<1>0. UNCHANGED <<day, born, guestLinks, platformLinks>>
  BY DEF Befriend
<1>1. ASSUME NEW r, NEW read, Met(r, read)
      PROVE  \A e \in blocks : {e[1], e[2]} \notin friendships'
  <2>. SUFFICES ASSUME NEW e \in blocks, {e[1], e[2]} \in friendships'
                PROVE  FALSE
    OBVIOUS
  <2>1. {e[1], e[2]} \notin friendships
    BY DEF PilotsInv, NoFriendsAcrossBlocks
  <2>2. Welcome(r, read) /\ {e[1], e[2]} = {r.from, r.to}
    BY <1>1, <2>1 DEF Met
  <2>3. e = <<r.from, r.to>> \/ e = <<r.to, r.from>>
    <3>1. e = <<e[1], e[2]>>
      BY DEF PilotsInv
    <3>2. \/ e[1] = r.from /\ e[2] = r.to
          \/ e[1] = r.to /\ e[2] = r.from
      BY <2>2
    <3>. QED  BY <3>1, <3>2
  <2>. QED  BY <2>2, <2>3 DEF Welcome, Blocked
<1>2. ASSUME blocks' = blocks, SameStanding,
             friendships' \subseteq friendships \/ \E r, read : Met(r, read)
      PROVE  PilotsInv'
  <2>1. \A e \in blocks' : {e[1], e[2]} \notin friendships'
    BY <1>1, <1>2 DEF PilotsInv, NoFriendsAcrossBlocks
  <2>2. day' \in Nat /\ blocks' \subseteq Ids \X Ids
    BY <1>0, <1>2 DEF PilotsInv
  <2>. QED  BY <1>0, <1>2, <2>1, <2>2, StandingKeeps
<1>3. ASSUME NEW p \in born, NEW q \in Ids, Block(p, q)
      PROVE  PilotsInv'
  <2>1. SameStanding
    BY <1>3, HealedIsStanding DEF Block
  <2>2. p \in Ids /\ q \in Ids /\ blocks' = blocks \cup {<<p, q>>} /\ friendships' = friendships \ {{p, q}}
    BY <1>3 DEF Block, PilotsInv
  <2>3. \A e \in blocks' : {e[1], e[2]} \notin friendships'
    BY <2>2 DEF PilotsInv, NoFriendsAcrossBlocks
  <2>4. day' \in Nat /\ blocks' \subseteq Ids \X Ids
    BY <1>0, <2>2 DEF PilotsInv
  <2>. QED  BY <1>0, <2>1, <2>3, <2>4, StandingKeeps
<1>4. ASSUME NEW p \in born, NEW q \in Ids, Unblock(p, q)
      PROVE  PilotsInv'
  <2>1. SameStanding
    BY <1>4, HealedIsStanding DEF Unblock
  <2>2. day' \in Nat /\ blocks' \subseteq Ids \X Ids /\ \A e \in blocks' : {e[1], e[2]} \notin friendships'
    BY <1>0, <1>4 DEF Unblock, PilotsInv, NoFriendsAcrossBlocks
  <2>. QED  BY <1>0, <2>1, <2>2, StandingKeeps
<1>5. ASSUME blocks' = blocks, NEW p \in born, NEW q \in Ids, NEW L, Send(p, q, L)
      PROVE  PilotsInv'
  BY <1>2, <1>5, HealedIsStanding DEF Send
<1>6. ASSUME blocks' = blocks, NEW p \in born, NEW q \in Ids, AddFriend(p, q)
      PROVE  PilotsInv'
  <2>1. \/ Send(p, q, Stale(p))
        \/ \E r : Met(r, Healed({q})) /\ profiles' = Healed({q})
    BY <1>6 DEF AddFriend
  <2>. QED  BY <1>2, <1>5, <1>6, <2>1, HealedIsStanding
<1>7. ASSUME blocks' = blocks, NEW p \in born, NEW q \in Ids, RemoveFriend(p, q)
      PROVE  PilotsInv'
  BY <1>2, <1>7, HealedIsStanding DEF RemoveFriend
<1>8. ASSUME blocks' = blocks, NEW r \in requests, Respond(r) \/ CancelRequest(r)
      PROVE  PilotsInv'
  BY <1>2, <1>8, HealedIsStanding DEF Respond, CancelRequest
<1>. QED  BY <1>3, <1>4, <1>5, <1>6, <1>7, <1>8 DEF Befriend, SendRequest

\* A platform identity is linked, and the guest it or the request came from
\* merged away: no account ever is.
LEMMA UpgradeKeeps ==
  ASSUME PilotsInv, NEW p \in born, NEW a \in Accounts, Upgrade(p, a)
  PROVE  PilotsInv'
<1>. DEFINE other    == platformLinks[a]
            merge    == other \in Live \ {p}
            survivor == IF merge /\ profiles[p].guest THEN other ELSE p
            donor    == IF survivor = p THEN other ELSE p
            x        == [profiles[survivor] EXCEPT !.guest = FALSE]
            upgraded == [profiles EXCEPT ![survivor] = x]
<1>1. /\ p \in Live
      /\ platformLinks' = [platformLinks EXCEPT ![a] = survivor]
      /\ guestLinks' = IF merge THEN Relinked(donor, survivor) ELSE guestLinks
      /\ profiles' = IF merge THEN Absorbed(upgraded, donor) ELSE upgraded
      /\ UNCHANGED <<day, born, blocks, friendships>>
  BY DEF Upgrade
<1>2. survivor \in Live /\ (merge => donor \in Live /\ donor # survivor)
  BY <1>1
<1>3. merge => \A b \in Accounts \ {a} : profiles[donor].guest => platformLinks[b] # donor
  BY <1>2 DEF PilotsInv
<1>4. merge /\ profiles[donor].guest => donor = p
  BY <1>1 DEF PilotsInv
<1>5. x \in Profile /\ x.guest = FALSE
  BY ZenonT(40), <1>2 DEF PilotsInv, Profile
<1>. HIDE DEF x
<1>6. /\ upgraded \in [Live -> Profile]
      /\ \A q \in Live : upgraded[q] = IF q = survivor THEN x ELSE profiles[q]
      /\ \A q \in Live : upgraded[q] \in Profile
  BY <1>2, <1>5 DEF PilotsInv
<1>. HIDE DEF upgraded, survivor
<1>7. \/ Live' = Live
      \/ merge /\ Live' = Live \ {donor} /\ profiles[donor].guest
  <2>1. CASE merge
    BY <1>1, <1>2, <1>6, <2>1 DEF Absorbed, Restrict, Live
  <2>2. CASE ~merge
    BY <1>1, <1>6, <2>2 DEF Live
  <2>. QED  BY <2>1, <2>2
<1>8. profiles' \in [Live' -> Profile] /\ \A q \in Live' : profiles'[q] = upgraded[q]
  <2>1. CASE merge
    BY <1>1, <1>2, <1>6, <2>1 DEF Absorbed, Restrict, Live
  <2>2. CASE ~merge
    BY <1>1, <1>6, <2>2 DEF Live
  <2>. QED  BY <2>1, <2>2
<1>9. survivor \in Live' /\ Live' \subseteq Live /\ Live \subseteq Ids
  BY <1>2, <1>7 DEF PilotsInv
<1>10. \A b \in Accounts : \/ platformLinks'[b] = survivor
                           \/ b # a /\ platformLinks'[b] = platformLinks[b]
  BY <1>1 DEF PilotsInv
<1>11. \A d \in Devices : \/ guestLinks'[d] = survivor
                          \/ guestLinks'[d] = guestLinks[d] /\ (merge => guestLinks[d] # donor)
  BY <1>1 DEF Relinked
<1>. HIDE DEF merge, donor
<1>12. /\ guestLinks' \in [Devices -> Ids \cup {None}]
       /\ platformLinks' \in [Accounts -> Ids \cup {None}]
  <2>1. survivor \in Ids
    BY <1>9
  <2>. QED  BY <1>1, <2>1 DEF PilotsInv, Relinked
<1>13. ASSUME NEW d \in Devices
       PROVE  guestLinks'[d] \in Live' \cup {None}
  BY <1>7, <1>9, <1>11 DEF PilotsInv, LinksResolve
<1>14. ASSUME NEW b \in Accounts
       PROVE  /\ platformLinks'[b] \in Live' \cup {None}
              /\ platformLinks'[b] \in Live' => ~profiles'[platformLinks'[b]].guest
  <2>1. CASE platformLinks'[b] = survivor
    BY <1>5, <1>6, <1>8, <1>9, <2>1
  <2>2. CASE b # a /\ platformLinks'[b] = platformLinks[b]
    <3>1. platformLinks[b] \in Live \cup {None}
      BY DEF PilotsInv, LinksResolve
    <3>2. platformLinks[b] \in Live' \cup {None}
      BY <1>3, <1>7, <2>2, <3>1
    <3>3. ASSUME platformLinks[b] \in Live'
          PROVE  ~profiles'[platformLinks[b]].guest
      <4>1. platformLinks[b] \in Live
        BY <1>9, <3>3
      <4>2. ~profiles[platformLinks[b]].guest
        BY <4>1 DEF PilotsInv
      <4>. QED  BY <1>5, <1>6, <1>8, <3>3, <4>1, <4>2
    <3>. QED  BY <2>2, <3>2, <3>3
  <2>. QED  BY <1>10, <2>1, <2>2
<1>15. NoFriendsAcrossBlocks' /\ blocks' \subseteq Ids \X Ids /\ day' \in Nat
  BY <1>1 DEF PilotsInv, NoFriendsAcrossBlocks
<1>16. born' \subseteq Ids /\ Live' \subseteq born'
  BY <1>1, <1>9 DEF PilotsInv
<1>. QED  BY <1>8, <1>12, <1>13, <1>14, <1>15, <1>16 DEF PilotsInv, LinksResolve

\* The old route merges a guest into the pilot whose code he typed.
LEMMA MergeKeeps ==
  ASSUME PilotsInv, NEW p \in born, NEW q \in born, MergeDevice(p, q)
  PROVE  PilotsInv'
<1>1. /\ p \in Live /\ q \in Live /\ q # p
      /\ guestLinks' = Relinked(p, q) /\ profiles' = Absorbed(Healed({q}), p)
      /\ UNCHANGED <<day, born, platformLinks, blocks, friendships>>
  BY DEF MergeDevice
<1>. DEFINE f == Healed({q})
<1>2. f \in [Live -> Profile] /\ \A r \in Live : f[r].guest = profiles[r].guest
  BY HealedStanding
<1>. HIDE DEF f
<1>3. /\ \/ Live' = Live
         \/ Live' = Live \ {p} /\ profiles[p].guest
      /\ profiles' \in [Live' -> Profile]
      /\ \A r \in Live' : r \in Live /\ profiles'[r].guest = profiles[r].guest
  <2>1. profiles' = IF f[p].guest THEN Restrict(f, Live \ {p}) ELSE f
    BY <1>1 DEF f, Absorbed
  <2>. QED  BY <1>1, <1>2, <2>1 DEF Restrict, Live
<1>4. guestLinks' \in [Devices -> Ids \cup {None}]
  BY <1>1 DEF Relinked, PilotsInv
<1>5. \A d \in Devices : guestLinks'[d] \in Live' \cup {None}
  BY <1>1, <1>3 DEF Relinked, PilotsInv, LinksResolve
<1>6. ASSUME NEW b \in Accounts
      PROVE  /\ platformLinks'[b] \in Live' \cup {None}
             /\ platformLinks'[b] \in Live' => ~profiles'[platformLinks'[b]].guest
  <2>1. platformLinks[b] \in Live \cup {None} /\ platformLinks'[b] = platformLinks[b]
    BY <1>1 DEF PilotsInv, LinksResolve
  <2>2. platformLinks[b] \in Live => ~profiles[platformLinks[b]].guest
    BY DEF PilotsInv
  <2>. QED  BY <1>3, <2>1, <2>2
<1>7. NoFriendsAcrossBlocks' /\ blocks' \subseteq Ids \X Ids /\ day' \in Nat
  BY <1>1 DEF PilotsInv, NoFriendsAcrossBlocks
<1>8. born' \subseteq Ids /\ Live' \subseteq born' /\ platformLinks' \in [Accounts -> Ids \cup {None}]
  BY <1>1, <1>3 DEF PilotsInv
<1>. QED  BY <1>3, <1>4, <1>5, <1>6, <1>7, <1>8 DEF PilotsInv, LinksResolve

\* A guest gets an id that nobody had and that nothing leads to.
LEMMA CreateGuestKeeps ==
  ASSUME PilotsInv, NEW d \in Devices, CreateGuest(d)
  PROVE  PilotsInv'
<1>1. PICK p \in Ids \ born :
        /\ born' = born \cup {p} /\ guestLinks' = [guestLinks EXCEPT ![d] = p]
        /\ profiles' = [q \in Live \cup {p} |-> IF q = p THEN Fresh ELSE profiles[q]]
  BY DEF CreateGuest
<1>2. UNCHANGED <<day, platformLinks, blocks, friendships>>
  BY DEF CreateGuest
<1>3. Fresh \in Profile
  BY DEF Fresh, Profile
<1>4. Live' = Live \cup {p} /\ p \notin Live /\ p # None
  <2>1. p \notin Live /\ p \in Ids
    BY DEF PilotsInv
  <2>2. DOMAIN profiles' = Live \cup {p}
    BY <1>1
  <2>. QED  BY <2>1, <2>2, PilotsAssumption DEF Live
<1>5. profiles' \in [Live' -> Profile] /\ \A q \in Live : profiles'[q] = profiles[q]
  BY <1>1, <1>3, <1>4 DEF PilotsInv
<1>6. \A a \in Accounts : /\ platformLinks'[a] \in Live' \cup {None}
                          /\ platformLinks'[a] \in Live' => ~profiles'[platformLinks'[a]].guest
  BY <1>2, <1>4, <1>5 DEF PilotsInv, LinksResolve
<1>7. \A e \in Devices : guestLinks'[e] \in Live' \cup {None}
  BY <1>1, <1>4 DEF PilotsInv, LinksResolve
<1>8. /\ guestLinks' \in [Devices -> Ids \cup {None}]
      /\ born' \subseteq Ids /\ Live' \subseteq born'
  BY <1>1, <1>4 DEF PilotsInv
<1>9. NoFriendsAcrossBlocks' /\ blocks' \subseteq Ids \X Ids /\ day' \in Nat
      /\ platformLinks' \in [Accounts -> Ids \cup {None}]
  BY <1>2 DEF PilotsInv, NoFriendsAcrossBlocks
<1>. QED  BY <1>5, <1>6, <1>7, <1>8, <1>9 DEF PilotsInv, LinksResolve

\* Sanctions leave everybody who he was.
LEMMA SanctionStanding ==
  ASSUME PilotsInv, NEW p, NEW days \in Nat,
         Suspend(p, days) \/ Mute(p, days) \/ Restore(p)
  PROVE  SameStanding
<1>1. PICK status \in {"clear", "muted", "suspended"}, until \in Nat :
        profiles' = [profiles EXCEPT ![p] = [profiles[p] EXCEPT !.status = status, !.until = until]]
  <2>1. day + days \in Nat
    BY DEF PilotsInv
  <2>2. CASE Suspend(p, days)
    BY <2>1, <2>2 DEF Suspend, Sanction
  <2>3. CASE Mute(p, days)
    BY <2>1, <2>3 DEF Mute, Sanction
  <2>4. CASE Restore(p)
    BY <2>4 DEF Restore
  <2>. QED  BY <2>2, <2>3, <2>4
<1>. DEFINE x == [profiles[p] EXCEPT !.status = status, !.until = until]
<1>2. p \in Live /\ profiles[p] \in Profile
  BY DEF Suspend, Mute, Restore, PilotsInv
<1>3. x \in Profile /\ x.guest = profiles[p].guest
  BY <1>2 DEF Profile
<1>. HIDE DEF x
<1>. QED  BY <1>1, <1>2, <1>3, EditStanding DEF x

\* Every request about identity, friends, penalties and cases.
LEMMA PeopleKeep ==
  ASSUME PilotsInv, People
  PROVE  PilotsInv'
<1>1. ASSUME SameStanding, UNCHANGED <<day, born, guestLinks, platformLinks, blocks, friendships>>
      PROVE  PilotsInv'
  BY <1>1, StandingKeeps DEF PilotsInv, NoFriendsAcrossBlocks
<1>2. CASE Moderate
  <2>1. PICK p \in Ids : Enforce(p)
    BY <1>2 DEF Moderate
  <2>2. \E days \in Nat : Suspend(p, days) \/ Mute(p, days) \/ Restore(p)
    BY <2>1 DEF Enforce, UnmutePlatform
  <2>3. SameStanding
    BY <2>2, SanctionStanding
  <2>. QED  BY <1>1, <1>2, <2>3 DEF Moderate
<1>3. CASE Resolve
  <2>1. SameStanding
    <3>1. CASE UNCHANGED profiles
      BY <3>1, HealedIsStanding
    <3>2. CASE ~UNCHANGED profiles
      BY <1>3, <3>2, SanctionStanding DEF Resolve
    <3>. QED  BY <3>1, <3>2
  <2>. QED  BY <1>1, <1>3, <2>1 DEF Resolve
<1>4. CASE Flag
  BY <1>1, <1>4, HealedIsStanding DEF Flag
<1>5. ASSUME NEW p \in born, Look(p)
      PROVE  PilotsInv'
  BY <1>1, <1>5, HealedIsStanding DEF Look
<1>6. ASSUME NEW p \in born, UpdatePrivacy(p)
      PROVE  PilotsInv'
  <2>. DEFINE x == [profiles[p] EXCEPT !.asks = ~@]
  <2>1. p \in Live /\ x \in Profile /\ x.guest = profiles[p].guest
    <3>1. p \in Live /\ profiles[p] \in Profile
      BY <1>6 DEF UpdatePrivacy, PilotsInv
    <3>. QED  BY <3>1 DEF Profile
  <2>2. profiles' = [profiles EXCEPT ![p] = x]
    BY <1>6 DEF UpdatePrivacy
  <2>. HIDE DEF x
  <2>3. SameStanding
    BY <2>1, <2>2, EditStanding
  <2>. QED  BY <1>1, <1>6, <2>3 DEF UpdatePrivacy
<1>7. ASSUME NEW q \in born, ListPending(q)
      PROVE  PilotsInv'
  BY <1>1, <1>7, HealedIsStanding DEF ListPending
<1>. QED  BY <1>2, <1>3, <1>4, <1>5, <1>6, <1>7, BefriendKeeps, UpgradeKeeps, MergeKeeps,
             CreateGuestKeeps DEF People

\* Squads, boards and cups look at pilots, and end penalties that are over.
LEMMA OthersStanding ==
  ASSUME PilotsInv, [Next]_vars, ~People
  PROVE  /\ profiles' = profiles \/ \E P : profiles' = Healed(P)
         /\ UNCHANGED <<born, guestLinks, platformLinks, blocks, friendships, requests>>
         /\ day' = day \/ (day' = day + 1 /\ UNCHANGED <<squadVars, cupVars>>)
<1>1. CASE Clubs /\ UNCHANGED <<pilotsOnly, cupVars>>
  BY <1>1 DEF Clubs, pilotsOnly, Found, Create, Socialise, Join, Govern, Aim
<1>2. CASE Post
  BY <1>2 DEF Post, Submit, SubmitLegacy
<1>3. CASE UNCHANGED <<day, pilotVars>>
  BY <1>3 DEF pilotVars
<1>4. CASE Organise /\ UNCHANGED pilotsOnly
  BY <1>4 DEF Organise, Finish, pilotsOnly
<1>5. CASE Compete /\ UNCHANGED pilotsOnly
  BY <1>5 DEF Compete, Register, SubmitResult, pilotsOnly
<1>6. CASE NewDay
  BY <1>6 DEF NewDay, pilotVars
<1>. QED  BY <1>1, <1>2, <1>3, <1>4, <1>5, <1>6 DEF Next, vars


(***************************************************************************)
(* Squads.                                                                 *)
(***************************************************************************)

Member == [role : Roles, until : Nat, seen : Nat, since : Nat]
MemberMaps == UNION {[M -> Member] : M \in SUBSET Ids}
Goal == [week : Nat, progress : Nat, claimed : BOOLEAN]
CountedMaps == UNION {[R -> Nat] : R \in SUBSET Runs}
Squad == [kind : {"public", "invite", "private"}, ownerId : Ids, members : MemberMaps,
          pending : SUBSET Ids, blocked : SUBSET Ids, goal : Goal, counted : CountedMaps]

\* The runs a squad has counted in the week of its goal, and the goal's limit.
OfGoalWeek(q) == {r \in DOMAIN q.counted : Week(q.counted[r]) = q.goal.week}
Limited(n) == IF n > 10 * Target THEN 10 * Target ELSE n

OwnerOK(q) == \A p \in DOMAIN q.members : q.members[p].role = "owner" => q.ownerId = p

\* No run was counted after the goal's week, which is not after the day's.
GoalOK(q, d) ==
  /\ IsFiniteSet(DOMAIN q.counted)
  /\ \A r \in DOMAIN q.counted : Week(q.counted[r]) <= q.goal.week
  /\ q.goal.week <= Week(d)
  /\ q.goal.progress = Limited(Cardinality(OfGoalWeek(q)))

SquadOK(q, d) == q \in Squad /\ OwnerOK(q) /\ GoalOK(q, d)

SquadsInv ==
  /\ squads \in [DOMAIN squads -> Squad]
  /\ \A s \in DOMAIN squads : SquadOK(squads[s], day)

\* The members of a squad are a function of pilots, and every such function will do.
LEMMA MembersAre ==
  /\ \A m \in MemberMaps : DOMAIN m \subseteq Ids /\ m \in [DOMAIN m -> Member]
  /\ \A M \in SUBSET Ids : \A m \in [M -> Member] : m \in MemberMaps
BY DEF MemberMaps

\* So are the counted runs.
LEMMA CountedAre ==
  /\ \A m \in CountedMaps : DOMAIN m \subseteq Runs /\ m \in [DOMAIN m -> Nat]
  /\ \A M \in SUBSET Runs : \A m \in [M -> Nat] : m \in CountedMaps
BY DEF CountedMaps

\* An empty squad has no members and has counted no runs.
LEMMA NoneAre == DOMAIN <<>> = {} /\ <<>> \in MemberMaps /\ <<>> \in CountedMaps
<1>1. DOMAIN <<>> = {}
  OBVIOUS
<1>2. <<>> \in [{} -> Member] /\ <<>> \in [{} -> Nat]
  <2>1. <<>> = [x \in {} |-> x]
    BY <1>1
  <2>. QED  BY <2>1
<1>. QED  BY <1>1, <1>2, MembersAre, CountedAre

\* Weeks are numbers and do not go back.
LEMMA Weeks ==
  ASSUME NEW d \in Nat
  PROVE  Week(d) \in Nat /\ Week(d) <= Week(d + 1)
BY SquadsAssumption DEF Week

\* A seat given today is a member's record.
LEMMA SeatIsMember ==
  ASSUME day \in Nat, NEW role \in Roles
  PROVE  Seat(role) \in Member /\ Seat(role).role = role /\ Seat(role).until \in Nat
BY SquadsAssumption DEF Seat, Member, Roles

\* Owners and members may change, the goal and the counted runs do not.
LEMMA Reseated ==
  ASSUME NEW q, NEW d, SquadOK(q, d), NEW r \in Squad, OwnerOK(r),
         r.goal = q.goal, r.counted = q.counted
  PROVE  SquadOK(r, d)
BY DEF SquadOK, GoalOK, OfGoalWeek

\* The members change, the owner on record does not.
LEMMA MembersKeep ==
  ASSUME NEW q, NEW d, SquadOK(q, d), NEW M \in SUBSET Ids, NEW m \in [M -> Member],
         \A p \in M : m[p].role = "owner" => q.ownerId = p
  PROVE  SquadOK([q EXCEPT !.members = m], d)
<1>. DEFINE r == [q EXCEPT !.members = m]
<1>1. q \in Squad /\ m \in MemberMaps
  BY MembersAre DEF SquadOK
<1>2. /\ r \in Squad /\ r.members = m /\ r.ownerId = q.ownerId
      /\ r.goal = q.goal /\ r.counted = q.counted
  BY <1>1 DEF Squad
<1>. HIDE DEF r
<1>3. OwnerOK(r)
  BY <1>2 DEF OwnerOK
<1>4. SquadOK(r, d)
  BY <1>2, <1>3, Reseated
<1>. QED  BY <1>4 DEF r

\* Requests and blocks are no business of owners and goals.
LEMMA ListsKeep ==
  ASSUME NEW q, NEW d, SquadOK(q, d), NEW P \in SUBSET Ids, NEW B \in SUBSET Ids
  PROVE  SquadOK([q EXCEPT !.pending = P], d) /\ SquadOK([q EXCEPT !.blocked = B], d)
         /\ SquadOK([q EXCEPT !.blocked = B, !.pending = P], d)
<1>1. ASSUME NEW r \in Squad, r.members = q.members, r.ownerId = q.ownerId, r.goal = q.goal,
             r.counted = q.counted
      PROVE  SquadOK(r, d)
  BY <1>1, Reseated DEF SquadOK, OwnerOK
<1>2. q \in Squad
  BY DEF SquadOK
<1>3. SquadOK([q EXCEPT !.pending = P], d)
  <2>. DEFINE r == [q EXCEPT !.pending = P]
  <2>1. r \in Squad /\ r.members = q.members /\ r.ownerId = q.ownerId /\ r.goal = q.goal
        /\ r.counted = q.counted
    BY <1>2 DEF Squad
  <2>. HIDE DEF r
  <2>2. SquadOK(r, d)
    BY <1>1, <2>1
  <2>. QED  BY <2>2 DEF r
<1>4. SquadOK([q EXCEPT !.blocked = B], d)
  <2>. DEFINE r == [q EXCEPT !.blocked = B]
  <2>1. r \in Squad /\ r.members = q.members /\ r.ownerId = q.ownerId /\ r.goal = q.goal
        /\ r.counted = q.counted
    BY <1>2 DEF Squad
  <2>. HIDE DEF r
  <2>2. SquadOK(r, d)
    BY <1>1, <2>1
  <2>. QED  BY <2>2 DEF r
<1>5. SquadOK([q EXCEPT !.blocked = B, !.pending = P], d)
  <2>. DEFINE r == [q EXCEPT !.blocked = B, !.pending = P]
  <2>1. r \in Squad /\ r.members = q.members /\ r.ownerId = q.ownerId /\ r.goal = q.goal
        /\ r.counted = q.counted
    BY <1>2 DEF Squad
  <2>. HIDE DEF r
  <2>2. SquadOK(r, d)
    BY <1>1, <2>1
  <2>. QED  BY <2>2 DEF r
<1>. QED  BY <1>3, <1>4, <1>5

\* A pilot who joins does not own; who founds does, and is the owner on record.
LEMMA WithKeeps ==
  ASSUME day \in Nat, NEW q, NEW d, SquadOK(q, d), NEW p \in Ids, NEW role \in Roles,
         role = "owner" => q.ownerId = p
  PROVE  SquadOK(With(q, p, role), d)
<1>. DEFINE M == DOMAIN q.members \cup {p}
            m == [x \in M |-> IF x = p THEN Seat(role) ELSE q.members[x]]
<1>1. q.members \in MemberMaps /\ OwnerOK(q)
  BY DEF SquadOK, Squad
<1>2. DOMAIN q.members \subseteq Ids /\ q.members \in [DOMAIN q.members -> Member]
  BY <1>1, MembersAre
<1>3. Seat(role) \in Member /\ Seat(role).role = role
  BY SeatIsMember
<1>4. M \in SUBSET Ids /\ m \in [M -> Member]
  BY <1>2, <1>3
<1>5. \A x \in M : m[x].role = "owner" => q.ownerId = x
  BY <1>1, <1>3 DEF OwnerOK
<1>6. With(q, p, role) = [q EXCEPT !.members = m]
  BY DEF With
<1>. HIDE DEF M, m
<1>. QED  BY <1>4, <1>5, <1>6, MembersKeep

\* Whoever leaves or is thrown out leaves owner and goal alone.
LEMMA WithoutKeeps ==
  ASSUME NEW q, NEW d, SquadOK(q, d), NEW P
  PROVE  SquadOK(Without(q, P), d)
<1>. DEFINE M == DOMAIN q.members \ P
            m == Restrict(q.members, M)
<1>1. q.members \in MemberMaps /\ OwnerOK(q)
  BY DEF SquadOK, Squad
<1>2. DOMAIN q.members \subseteq Ids /\ q.members \in [DOMAIN q.members -> Member]
  BY <1>1, MembersAre
<1>3. M \in SUBSET Ids /\ m \in [M -> Member]
  BY <1>2 DEF Restrict
<1>4. \A x \in M : m[x].role = "owner" => q.ownerId = x
  BY <1>1 DEF OwnerOK, Restrict
<1>5. Without(q, P) = [q EXCEPT !.members = m]
  BY DEF Without
<1>. HIDE DEF M, m
<1>. QED  BY <1>3, <1>4, <1>5, MembersKeep

\* One member's record changes, and makes no owner.
LEMMA EditKeeps ==
  ASSUME NEW q, NEW d, SquadOK(q, d), NEW p, NEW x,
         p \in DOMAIN q.members /\ q.members[p] \in Member =>
           x \in Member /\ (x.role = "owner" => q.members[p].role = "owner")
  PROVE  SquadOK([q EXCEPT !.members = [q.members EXCEPT ![p] = x]], d)
<1>. DEFINE M == DOMAIN q.members
            m == [q.members EXCEPT ![p] = x]
<1>1. q.members \in MemberMaps /\ OwnerOK(q)
  BY DEF SquadOK, Squad
<1>2. M \in SUBSET Ids /\ q.members \in [M -> Member]
  BY <1>1, MembersAre
<1>3. m \in [M -> Member]
  BY <1>2
<1>4. \A y \in M : m[y].role = "owner" => q.ownerId = y
  BY <1>1, <1>2 DEF OwnerOK
<1>. HIDE DEF M, m
<1>5. SquadOK([q EXCEPT !.members = m], d)
  BY <1>2, <1>3, <1>4, MembersKeep
<1>. QED  BY <1>5 DEF m

\* So does whoever is seen.
LEMMA SeenKeeps ==
  ASSUME day \in Nat, NEW q, NEW d, SquadOK(q, d), NEW p
  PROVE  SquadOK(Seen(q, p), d)
<1>. DEFINE x == [q.members[p] EXCEPT !.seen = day]
<1>1. q.members[p] \in Member => x \in Member /\ x.role = q.members[p].role
  BY DEF Member
<1>2. Seen(q, p) = [q EXCEPT !.members = [q.members EXCEPT ![p] = x]]
  BY DEF Seen
<1>. HIDE DEF x
<1>. QED  BY <1>1, <1>2, EditKeeps

\* A role that is given makes no owner.
LEMMA SetRoleKeeps ==
  ASSUME day \in Nat, NEW q, NEW d, SquadOK(q, d), NEW p, NEW role \in Roles, role # "owner"
  PROVE  SquadOK([q EXCEPT !.members[p].role = role, !.members[p].until = Seat(role).until], d)
<1>. DEFINE until == Seat(role).until
            x == [q.members[p] EXCEPT !.role = role, !.until = until]
<1>1. until \in Nat
  BY SeatIsMember
<1>. HIDE DEF until
<1>2. q.members[p] \in Member => x \in Member /\ x.role = role
  BY <1>1 DEF Member
<1>3. [q EXCEPT !.members[p].role = role, !.members[p].until = until]
        = [q EXCEPT !.members = [q.members EXCEPT ![p] = x]]
  OBVIOUS
<1>. HIDE DEF x
<1>4. SquadOK([q EXCEPT !.members = [q.members EXCEPT ![p] = x]], d)
  BY <1>2, EditKeeps
<1>. QED  BY <1>3, <1>4 DEF until

\* The end of probations makes members, no owners.
LEMMA GraduatedKeeps ==
  ASSUME NEW q, NEW d, SquadOK(q, d)
  PROVE  SquadOK(Graduated(q), d) /\ Graduated(q).ownerId = q.ownerId
         /\ DOMAIN Graduated(q).members = DOMAIN q.members
<1>. DEFINE M == DOMAIN q.members
            x(p) == [q.members[p] EXCEPT !.until = 0,
                                       !.role = IF q.members[p].role = "probation" THEN "member"
                                                ELSE q.members[p].role]
            m == [p \in M |-> IF q.members[p].until # 0 /\ day > q.members[p].until
                              THEN x(p) ELSE q.members[p]]
<1>1. q \in Squad /\ q.members \in MemberMaps /\ OwnerOK(q)
  BY DEF SquadOK, Squad
<1>2. M \in SUBSET Ids /\ q.members \in [M -> Member]
  BY <1>1, MembersAre
<1>3. \A p \in M : x(p) \in Member /\ (x(p).role = "owner" => q.members[p].role = "owner")
  BY <1>2 DEF Member, Roles
<1>4. Graduated(q) = [q EXCEPT !.members = m]
  BY DEF Graduated
<1>. HIDE DEF x
<1>5. m \in [M -> Member]
  BY <1>2, <1>3
<1>6. \A p \in M : m[p].role = "owner" => q.ownerId = p
  BY <1>1, <1>3 DEF OwnerOK
<1>. HIDE DEF M, m
<1>7. SquadOK(Graduated(q), d)
  BY <1>2, <1>4, <1>5, <1>6, MembersKeep
<1>8. Graduated(q).ownerId = q.ownerId /\ DOMAIN Graduated(q).members = M
  BY <1>1, <1>4, <1>5 DEF Squad
<1>. QED  BY <1>7, <1>8 DEF M

\* The crown passes whole: the old owner is a member when the heir is the owner.
LEMMA CrownedKeeps ==
  ASSUME NEW q, NEW d, SquadOK(q, d), NEW p \in Heirs(q)
  PROVE  SquadOK(Crowned(q, p), d)
<1>1. CASE p = q.ownerId
  BY <1>1 DEF Crowned
<1>2. CASE p # q.ownerId
  <2>. DEFINE M == DOMAIN q.members
              o == q.ownerId
              x == [q.members[o] EXCEPT !.role = "member"]
              m == [q.members EXCEPT ![o] = x]
              y == [m[p] EXCEPT !.role = "owner"]
              n == [m EXCEPT ![p] = y]
  <2>1. q \in Squad /\ q.members \in MemberMaps /\ OwnerOK(q)
    BY DEF SquadOK, Squad
  <2>2. M \in SUBSET Ids /\ q.members \in [M -> Member]
    BY <2>1, MembersAre
  <2>3. p \in M /\ o \in M
    BY <1>2 DEF Heirs
  <2>4. x \in Member /\ x.role = "member"
    BY <2>2, <2>3 DEF Member, Roles
  <2>5. Crowned(q, p) = [q EXCEPT !.ownerId = p, !.members = n]
    BY <1>2 DEF Crowned
  <2>. HIDE DEF x
  <2>6. m \in [M -> Member] /\ m[o] = x /\ \A i \in M \ {o} : m[i] = q.members[i]
    BY <2>2, <2>3, <2>4
  <2>. HIDE DEF m
  <2>7. y \in Member
    BY <2>3, <2>6 DEF Member, Roles
  <2>. HIDE DEF y
  <2>8. n \in [M -> Member] /\ \A i \in M \ {p} : n[i] = m[i]
    BY <2>3, <2>6, <2>7
  <2>9. \A i \in M : n[i].role = "owner" => p = i
    <3>. SUFFICES ASSUME NEW i \in M, n[i].role = "owner", i # p PROVE FALSE
      OBVIOUS
    <3>1. m[i].role = "owner"
      BY <2>8
    <3>2. i # o
      BY <2>4, <2>6, <3>1
    <3>3. q.members[i].role = "owner"
      BY <2>6, <3>1, <3>2
    <3>. QED  BY <2>1, <3>2, <3>3 DEF OwnerOK
  <2>. HIDE DEF n, M, o
  <2>. DEFINE r == [q EXCEPT !.ownerId = p, !.members = n]
  <2>10. n \in MemberMaps /\ p \in Ids
    BY <2>2, <2>3, <2>8, MembersAre
  <2>11. /\ r \in Squad /\ r.members = n /\ r.ownerId = p
         /\ r.goal = q.goal /\ r.counted = q.counted
    BY <2>1, <2>10 DEF Squad
  <2>. HIDE DEF r
  <2>12. OwnerOK(r)
    BY <2>8, <2>9, <2>11 DEF OwnerOK
  <2>13. SquadOK(r, d)
    BY <2>11, <2>12, Reseated
  <2>. QED  BY <2>5, <2>13 DEF r
<1>. QED  BY <1>1, <1>2

\* What a goal that is looked at or claimed needs to stay right.
LEMMA GoalKeeps ==
  ASSUME NEW q, NEW d, SquadOK(q, d), NEW g \in Goal,
         GoalOK([q EXCEPT !.goal = g], d)
  PROVE  SquadOK([q EXCEPT !.goal = g], d)
<1>. DEFINE r == [q EXCEPT !.goal = g]
<1>1. r \in Squad /\ r.members = q.members /\ r.ownerId = q.ownerId
  BY DEF SquadOK, Squad
<1>2. GoalOK(r, d)
  OBVIOUS
<1>. HIDE DEF r
<1>3. SquadOK(r, d)
  BY <1>1, <1>2 DEF SquadOK, OwnerOK
<1>. QED  BY <1>3 DEF r

\* A goal of an earlier week gives way to an empty one: no run was counted this week.
LEMMA ThisWeekIsRight ==
  ASSUME day \in Nat, NEW q, SquadOK(q, day)
  PROVE  /\ OfThisWeek(q.goal) \in Goal /\ OfThisWeek(q.goal).week = Week(day)
         /\ OfThisWeek(q.goal).progress
              = Limited(Cardinality({r \in DOMAIN q.counted : Week(q.counted[r]) = Week(day)}))
<1>1. q \in Squad /\ q.goal \in Goal /\ GoalOK(q, day)
  BY DEF SquadOK, Squad
<1>2. Week(day) \in Nat
  BY Weeks
<1>3. CASE q.goal.week = Week(day)
  BY <1>1, <1>3 DEF OfThisWeek, GoalOK, OfGoalWeek
<1>4. CASE q.goal.week # Week(day)
  <2>1. q.counted \in CountedMaps /\ q.goal.week \in Nat
    BY <1>1 DEF Squad, Goal
  <2>2. \A r \in DOMAIN q.counted : q.counted[r] \in Nat
    BY <2>1, CountedAre
  <2>3. \A r \in DOMAIN q.counted : Week(q.counted[r]) # Week(day)
    <3>1. q.goal.week < Week(day)
      <4>1. q.goal.week <= Week(day)
        BY <1>1 DEF GoalOK
      <4>. QED  BY <1>2, <1>4, <2>1, <4>1
    <3>. SUFFICES ASSUME NEW r \in DOMAIN q.counted PROVE Week(q.counted[r]) # Week(day)
      OBVIOUS
    <3>2. Week(q.counted[r]) \in Nat /\ Week(q.counted[r]) <= q.goal.week
      BY <1>1, <2>2, Weeks DEF GoalOK
    <3>. QED  BY <1>2, <2>1, <3>1, <3>2
  <2>4. {r \in DOMAIN q.counted : Week(q.counted[r]) = Week(day)} = {}
    BY <2>3
  <2>5. Cardinality({r \in DOMAIN q.counted : Week(q.counted[r]) = Week(day)}) = 0
    BY <2>4, FS_EmptySet
  <2>6. Limited(0) = 0
    BY SquadsAssumption DEF Limited
  <2>. QED  BY <1>2, <1>4, <2>5, <2>6 DEF OfThisWeek, Goal
<1>. QED  BY <1>3, <1>4

\* Looking at the goal.
LEMMA ViewKeeps ==
  ASSUME day \in Nat, NEW q, SquadOK(q, day)
  PROVE  SquadOK([q EXCEPT !.goal = OfThisWeek(q.goal)], day)
<1>. DEFINE g == OfThisWeek(q.goal)
            r == [q EXCEPT !.goal = g]
<1>1. /\ g \in Goal /\ g.week = Week(day)
      /\ g.progress = Limited(Cardinality({i \in DOMAIN q.counted : Week(q.counted[i]) = Week(day)}))
  BY ThisWeekIsRight
<1>. HIDE DEF g
<1>2. q \in Squad /\ GoalOK(q, day)
  BY DEF SquadOK
<1>3. r.goal = g /\ r.counted = q.counted
  BY <1>2 DEF Squad
<1>. HIDE DEF r
<1>4. \A i \in DOMAIN q.counted : Week(q.counted[i]) <= Week(day)
  <2>1. q.counted \in CountedMaps /\ q.goal.week \in Nat
    BY <1>2 DEF Squad, Goal
  <2>. QED  BY <1>2, <2>1, CountedAre, Weeks DEF GoalOK
<1>5. GoalOK(r, day)
  BY <1>1, <1>2, <1>3, <1>4, Weeks DEF GoalOK, OfGoalWeek
<1>6. SquadOK([q EXCEPT !.goal = g], day)
  BY <1>1, <1>5, GoalKeeps DEF r
<1>. QED  BY <1>6 DEF g

\* Claiming it.
LEMMA ClaimKeeps ==
  ASSUME day \in Nat, NEW q, SquadOK(q, day)
  PROVE  SquadOK([q EXCEPT !.goal = [OfThisWeek(q.goal) EXCEPT !.claimed = TRUE]], day)
<1>. DEFINE v == [q EXCEPT !.goal = OfThisWeek(q.goal)]
            g == [v.goal EXCEPT !.claimed = TRUE]
            r == [v EXCEPT !.goal = g]
<1>1. SquadOK(v, day)
  BY ViewKeeps
<1>2. v.goal = OfThisWeek(q.goal) /\ [v EXCEPT !.goal = g] = [q EXCEPT !.goal = g]
  BY DEF SquadOK, Squad
<1>. HIDE DEF v
<1>3. v \in Squad /\ GoalOK(v, day)
  BY <1>1 DEF SquadOK
<1>4. g \in Goal /\ g.week = v.goal.week /\ g.progress = v.goal.progress
  BY <1>3 DEF Squad, Goal
<1>. HIDE DEF g
<1>5. r.goal = g /\ r.counted = v.counted
  BY <1>3 DEF Squad
<1>. HIDE DEF r
<1>6. GoalOK(r, day)
  BY <1>3, <1>4, <1>5 DEF GoalOK, OfGoalWeek
<1>7. SquadOK([v EXCEPT !.goal = g], day)
  BY <1>1, <1>4, <1>6, GoalKeeps DEF r
<1>. QED  BY <1>2, <1>7 DEF g

\* A run that was not counted yet is counted for the day's week.
LEMMA AddedKeeps ==
  ASSUME day \in Nat, NEW q, SquadOK(q, day), NEW p, NEW run \in Runs, run \notin DOMAIN q.counted
  PROVE  SquadOK(Added(q, p, run), day)
<1>. DEFINE v == [q EXCEPT !.goal = OfThisWeek(q.goal)]
            w == Seen(v, p)
            R == DOMAIN q.counted
            c == [r \in R \cup {run} |-> IF r = run THEN day ELSE q.counted[r]]
            n == w.goal.progress
            g == [w.goal EXCEPT !.progress = Limited(n + 1)]
            a == [w EXCEPT !.counted = c, !.goal = g]
<1>1. SquadOK(v, day)
  BY ViewKeeps
<1>2. SquadOK(w, day)
  BY <1>1, SeenKeeps
<1>3. Added(q, p, run) = a
  BY DEF Added, Seen, Limited, SquadOK, Squad
<1>4. /\ w.counted = q.counted /\ w.goal.week = Week(day)
  BY ThisWeekIsRight DEF Seen, SquadOK, Squad
<1>. HIDE DEF v, w
<1>5. w \in Squad /\ w.goal \in Goal /\ GoalOK(w, day) /\ OwnerOK(w)
  BY <1>2 DEF SquadOK, Squad
<1>6. n \in Nat /\ Limited(n + 1) \in Nat
  BY <1>5, SquadsAssumption DEF Goal, Limited
<1>7. g \in Goal /\ g.week = Week(day) /\ g.progress = Limited(n + 1)
  BY <1>4, <1>5, <1>6 DEF Goal
<1>. HIDE DEF g
<1>8. R \in SUBSET Runs /\ \A r \in R : q.counted[r] \in Nat
  BY <1>4, <1>5, CountedAre DEF Squad
<1>9. c \in [R \cup {run} -> Nat]
  BY <1>8
<1>10. c \in CountedMaps /\ DOMAIN c = R \cup {run}
  <2>1. R \cup {run} \in SUBSET Runs
    BY <1>8
  <2>. QED  BY <2>1, <1>9, CountedAre
<1>11. c[run] = day /\ \A r \in R : c[r] = q.counted[r]
  OBVIOUS
<1>. HIDE DEF c
<1>12. /\ a \in Squad /\ a.members = w.members /\ a.ownerId = w.ownerId
       /\ a.counted = c /\ a.goal = g
  BY <1>5, <1>7, <1>10 DEF Squad
<1>. HIDE DEF a
<1>13. IsFiniteSet(R \cup {run})
  BY <1>4, <1>5, FS_AddElement DEF GoalOK
<1>14. \A r \in R \cup {run} : Week(c[r]) <= Week(day)
  BY <1>4, <1>5, <1>11, Weeks DEF GoalOK
<1>15. Limited(n + 1) = Limited(Cardinality(OfGoalWeek(a)))
  <2>. DEFINE O == OfGoalWeek(w)
  <2>1. O \subseteq R /\ IsFiniteSet(O)
    BY <1>4, <1>5, FS_Subset DEF GoalOK, OfGoalWeek
  <2>2. OfGoalWeek(a) = O \cup {run} /\ run \notin O
    BY <1>4, <1>7, <1>10, <1>11, <1>12 DEF OfGoalWeek
  <2>3. Cardinality(OfGoalWeek(a)) = Cardinality(O) + 1 /\ Cardinality(O) \in Nat
    BY <2>1, <2>2, FS_AddElement, FS_CardinalityType
  <2>4. n = Limited(Cardinality(O))
    BY <1>5 DEF GoalOK
  <2>. QED  BY <2>3, <2>4, SquadsAssumption DEF Limited
<1>16. GoalOK(a, day)
  BY <1>7, <1>10, <1>12, <1>13, <1>14, <1>15, Weeks DEF GoalOK
<1>17. SquadOK(a, day)
  BY <1>5, <1>12, <1>16 DEF SquadOK, OwnerOK
<1>. QED  BY <1>3, <1>17

\* One squad's record changes, if the number is a squad's.
LEMMA UpdateKeeps ==
  ASSUME SquadsInv, day' = day, NEW s, NEW q, Update(s, q),
         s \in DOMAIN squads => SquadOK(q, day)
  PROVE  SquadsInv'
<1>1. squads' = [squads EXCEPT ![s] = q]
  BY DEF Update
<1>2. s \in DOMAIN squads => q \in Squad
  BY DEF SquadOK
<1>3. squads' \in [DOMAIN squads -> Squad] /\ DOMAIN squads' = DOMAIN squads
  BY <1>1, <1>2 DEF SquadsInv
<1>4. ASSUME NEW i \in DOMAIN squads'
      PROVE  SquadOK(squads'[i], day')
  BY <1>1, <1>3, <1>4 DEF SquadsInv
<1>. QED  BY <1>3, <1>4 DEF SquadsInv

\* Founding, joining, leaving.
LEMMA FoundKeeps ==
  ASSUME SquadsInv, day \in Nat, day' = day, born \subseteq Ids, Found
  PROVE  SquadsInv'
<1>1. ASSUME NEW p \in born, NEW kind \in {"public", "invite", "private"}, Create(p, kind)
      PROVE  SquadsInv'
  <2>. DEFINE e == [kind |-> kind, ownerId |-> p, members |-> <<>>, pending |-> {}, blocked |-> {},
                    goal |-> [week |-> Week(day), progress |-> 0, claimed |-> FALSE], counted |-> <<>>]
              new == With(e, p, "owner")
              D == DOMAIN squads
              k == founded + 1
  <2>1. e \in Squad
    <3>1. <<>> \in MemberMaps /\ <<>> \in CountedMaps
      BY NoneAre
    <3>2. Week(day) \in Nat
      BY Weeks
    <3>. QED  BY <3>1, <3>2 DEF Squad, Goal
  <2>2. GoalOK(e, day)
    <3>1. DOMAIN e.counted = {} /\ e.goal.week = Week(day) /\ e.goal.progress = 0
      BY NoneAre
    <3>2. Limited(0) = 0 /\ Week(day) \in Nat
      BY SquadsAssumption, Weeks DEF Limited
    <3>. HIDE DEF e
    <3>3. OfGoalWeek(e) = {}
      BY <3>1 DEF OfGoalWeek
    <3>. QED  BY <3>1, <3>2, <3>3, FS_EmptySet DEF GoalOK
  <2>3. OwnerOK(e) /\ e.ownerId = p
    BY DEF OwnerOK
  <2>. HIDE DEF e
  <2>4. SquadOK(new, day)
    BY <2>1, <2>2, <2>3, WithKeeps DEF SquadOK, Roles
  <2>5. squads' = [s \in D \cup {k} |-> IF s \in D THEN squads[s] ELSE new]
    BY <1>1 DEF Create, e
  <2>. HIDE DEF new, k
  <2>6. new \in Squad
    BY <2>4 DEF SquadOK
  <2>7. DOMAIN squads' = D \cup {k} /\ squads' \in [D \cup {k} -> Squad]
    BY <2>5, <2>6 DEF SquadsInv
  <2>8. ASSUME NEW s \in D \cup {k}
        PROVE  SquadOK(squads'[s], day')
    BY <2>4, <2>5 DEF SquadsInv
  <2>. QED  BY <2>7, <2>8 DEF SquadsInv
<1>2. ASSUME NEW p \in born, LeaveAll(p)
      PROVE  SquadsInv'
  <2>. DEFINE owned == {s \in SquadsOf(p) : Owns(p, s)}
              left  == {s \in SquadsOf(p) : \A o \in owned : s < o}
              f(s)  == IF s \in left THEN Without(squads[s], {p}) ELSE squads[s]
  <2>1. squads' = [s \in DOMAIN squads |-> f(s)]
    BY <1>2 DEF LeaveAll
  <2>2. \A s \in DOMAIN squads : SquadOK(f(s), day)
    BY WithoutKeeps DEF SquadsInv
  <2>. HIDE DEF f
  <2>3. squads' \in [DOMAIN squads -> Squad] /\ DOMAIN squads' = DOMAIN squads
    BY <2>1, <2>2 DEF SquadOK
  <2>. QED  BY <2>1, <2>2, <2>3 DEF SquadsInv
<1>. QED  BY <1>1, <1>2 DEF Found

\* Joining, leaving, and what admins do about it.
LEMMA SocialiseKeeps ==
  ASSUME SquadsInv, day \in Nat, day' = day, born \subseteq Ids, Socialise
  PROVE  SquadsInv'
<1>1. ASSUME NEW p \in born, NEW s \in DOMAIN squads, Join(p, s)
      PROVE  SquadsInv'
  <2>. DEFINE q == squads[s]
  <2>1. SquadOK(q, day) /\ q.kind \in {"public", "invite", "private"} /\ q.pending \subseteq Ids
    BY DEF SquadsInv, SquadOK, Squad
  <2>2. p \in Ids /\ {"member", "probation"} \subseteq Roles
    BY DEF Roles
  <2>. DEFINE P == q.pending \cup {p}
  <2>3. SquadOK(With(q, p, "member"), day) /\ SquadOK(With(q, p, "probation"), day)
    BY <2>1, <2>2, WithKeeps
  <2>4. SquadOK([q EXCEPT !.pending = P], day)
    <3>1. P \in SUBSET Ids
      BY <2>1, <2>2
    <3>. HIDE DEF P
    <3>. QED  BY <2>1, <3>1, ListsKeep
  <2>5. \/ Update(s, With(q, p, "member")) \/ Update(s, With(q, p, "probation"))
        \/ Update(s, [q EXCEPT !.pending = P])
    BY <1>1, <2>1 DEF Join
  <2>. QED  BY <2>3, <2>4, <2>5, UpdateKeeps
<1>2. ASSUME NEW p \in born, NEW s \in DOMAIN squads, Leave(p, s)
      PROVE  SquadsInv'
  BY <1>2, UpdateKeeps, WithoutKeeps DEF Leave, SquadsInv
<1>3. ASSUME NEW s \in DOMAIN squads, Disbanded(s)
      PROVE  SquadsInv'
  <2>. DEFINE D == DOMAIN squads \ {s}
  <2>1. squads' = [i \in D |-> squads[i]]
    BY <1>3 DEF Disbanded, Restrict
  <2>2. DOMAIN squads' = D /\ squads' \in [D -> Squad]
    BY <2>1 DEF SquadsInv
  <2>. QED  BY <2>1, <2>2 DEF SquadsInv
<1>4. ASSUME NEW a \in born, NEW s \in DOMAIN squads, NEW p \in Ids, Approve(a, s, p)
      PROVE  SquadsInv'
  <2>. DEFINE q == [squads[s] EXCEPT !.pending = squads[s].pending \ {p}]
  <2>1. SquadOK(squads[s], day) /\ squads[s].pending \ {p} \in SUBSET Ids
    BY DEF SquadsInv, SquadOK, Squad
  <2>2. SquadOK(q, day)
    BY <2>1, ListsKeep
  <2>3. Update(s, With(q, p, "probation"))
    BY <1>4 DEF Approve
  <2>. HIDE DEF q
  <2>4. SquadOK(With(q, p, "probation"), day)
    BY <2>2, WithKeeps DEF Roles
  <2>. QED  BY <2>3, <2>4, UpdateKeeps
<1>5. ASSUME NEW a \in born, NEW s \in DOMAIN squads, NEW p \in Ids,
             Reject(a, s, p) \/ BlockJoiner(a, s, p) \/ UnblockJoiner(a, s, p)
      PROVE  SquadsInv'
  <2>. DEFINE P == squads[s].pending \ {p}
              B == squads[s].blocked \cup {p}
              C == squads[s].blocked \ {p}
  <2>1. SquadOK(squads[s], day) /\ P \in SUBSET Ids /\ B \in SUBSET Ids /\ C \in SUBSET Ids
    BY DEF SquadsInv, SquadOK, Squad
  <2>2. \/ Update(s, [squads[s] EXCEPT !.pending = P])
        \/ Update(s, [squads[s] EXCEPT !.blocked = B, !.pending = P])
        \/ Update(s, [squads[s] EXCEPT !.blocked = C])
    BY <1>5 DEF Reject, BlockJoiner, UnblockJoiner
  <2>. HIDE DEF P, B, C
  <2>3. /\ SquadOK([squads[s] EXCEPT !.pending = P], day)
        /\ SquadOK([squads[s] EXCEPT !.blocked = B, !.pending = P], day)
        /\ SquadOK([squads[s] EXCEPT !.blocked = C], day)
    BY <2>1, ListsKeep
  <2>. QED  BY <2>2, <2>3, UpdateKeeps
<1>6. ASSUME NEW a \in born, NEW s \in DOMAIN squads, NEW p \in Ids, Kick(a, s, p)
      PROVE  SquadsInv'
  BY <1>6, UpdateKeeps, WithoutKeeps DEF Kick, SquadsInv
<1>. QED  BY <1>1, <1>2, <1>3, <1>4, <1>5, <1>6 DEF Socialise, Disband, DisbandByModerator

\* Roles, shouts and the timer.
LEMMA GovernKeeps ==
  ASSUME SquadsInv, day \in Nat, day' = day, Govern
  PROVE  SquadsInv'
<1>1. ASSUME NEW a, NEW s \in DOMAIN squads, NEW p, NEW role \in Roles, SetRole(a, s, p, role)
      PROVE  SquadsInv'
  <2>1. SquadOK(squads[s], day) /\ role # "owner"
    BY <1>1 DEF SquadsInv, SetRole
  <2>. DEFINE q == [squads[s] EXCEPT !.members[p].role = role, !.members[p].until = Seat(role).until]
  <2>2. SquadOK(q, day)
    BY <2>1, SetRoleKeeps
  <2>3. Update(s, q)
    BY <1>1 DEF SetRole
  <2>. HIDE DEF q
  <2>. QED  BY <2>2, <2>3, UpdateKeeps
<1>2. ASSUME NEW p, NEW s \in DOMAIN squads, Shout(p, s)
      PROVE  SquadsInv'
  <2>1. SquadOK(Seen(squads[s], p), day) /\ Update(s, Seen(squads[s], p))
    BY <1>2, SeenKeeps DEF SquadsInv, Shout
  <2>. QED  BY <2>1, UpdateKeeps
<1>3. CASE Housekeeping
  <2>. DEFINE swept == [s \in DOMAIN squads |-> Graduated(squads[s])]
  <2>1. PICK heir \in [DOMAIN squads -> Ids] :
          /\ \A s \in DOMAIN squads : heir[s] \in Heirs(swept[s])
          /\ squads' = [s \in DOMAIN squads |-> Crowned(swept[s], heir[s])]
    BY <1>3 DEF Housekeeping
  <2>2. ASSUME NEW s \in DOMAIN squads
        PROVE  SquadOK(Crowned(swept[s], heir[s]), day)
    <3>1. SquadOK(Graduated(squads[s]), day) /\ swept[s] = Graduated(squads[s])
      BY GraduatedKeeps DEF SquadsInv
    <3>. HIDE DEF swept
    <3>. QED  BY <2>1, <3>1, CrownedKeeps
  <2>. HIDE DEF swept
  <2>3. squads' \in [DOMAIN squads -> Squad] /\ DOMAIN squads' = DOMAIN squads
    BY <2>1, <2>2 DEF SquadOK
  <2>. QED  BY <2>1, <2>2, <2>3 DEF SquadsInv
<1>. QED  BY <1>1, <1>2, <1>3 DEF Govern

\* The goal is looked at or claimed.
LEMMA AimKeeps ==
  ASSUME SquadsInv, day \in Nat, day' = day, Aim
  PROVE  SquadsInv'
<1>1. PICK s \in DOMAIN squads : ViewGoal(s) \/ \E p \in born : ClaimGoal(p, s)
  BY DEF Aim
<1>2. SquadOK(squads[s], day)
  BY DEF SquadsInv
<1>3. \/ Update(s, [squads[s] EXCEPT !.goal = OfThisWeek(squads[s].goal)])
      \/ Update(s, [squads[s] EXCEPT !.goal = [OfThisWeek(squads[s].goal) EXCEPT !.claimed = TRUE]])
  BY <1>1 DEF ViewGoal, ClaimGoal
<1>. QED  BY <1>2, <1>3, ViewKeeps, ClaimKeeps, UpdateKeeps

\* A verified run is counted once, for a squad that the pilot is in.
LEMMA RecordKeeps ==
  ASSUME SquadsInv, day \in Nat, day' = day, NEW p, NEW run \in Runs, RecordContribution(p, run)
  PROVE  SquadsInv'
<1>1. CASE UNCHANGED squadVars
  BY <1>1 DEF squadVars, SquadsInv
<1>2. CASE ~UNCHANGED squadVars
  <2>. DEFINE s == Min(SquadsOf(p))
  <2>1. run \notin DOMAIN squads[s].counted /\ Update(s, Added(squads[s], p, run))
    BY <1>2 DEF RecordContribution
  <2>. HIDE DEF s
  <2>2. s \in DOMAIN squads => SquadOK(Added(squads[s], p, run), day)
    BY <2>1, AddedKeeps DEF SquadsInv
  <2>. QED  BY <2>1, <2>2, UpdateKeeps
<1>. QED  BY <1>1, <1>2

\* Nothing happens to the squads, today or overnight.
LEMMA SquadsRest ==
  ASSUME SquadsInv, day \in Nat, day' = day \/ day' = day + 1, UNCHANGED squads
  PROVE  SquadsInv'
<1>1. Week(day) \in Nat /\ Week(day) <= Week(day') /\ Week(day') \in Nat
  BY Weeks
<1>2. ASSUME NEW s \in DOMAIN squads
      PROVE  SquadOK(squads[s], day')
  <2>1. SquadOK(squads[s], day) /\ squads[s].goal.week \in Nat
    BY DEF SquadsInv, SquadOK, Squad, Goal
  <2>. QED  BY <1>1, <2>1 DEF SquadOK, GoalOK
<1>. QED  BY <1>2 DEF SquadsInv


(***************************************************************************)
(* Boards and cups.                                                        *)
(***************************************************************************)

ScoreRow == [run : Runs, pilot : Ids, value : Values, at : Nat,
             status : {"active", "quarantined", "invalidated"}]
EntryRow == [best : Nat, run : Runs \cup {NoRun}, claimed : Nat]
EntryMaps == UNION {[P -> EntryRow] : P \in SUBSET Ids}
Grant == [pilot : Ids, tier : Tiers, best : Nat, handed : BOOLEAN]
Cup == [phase : Phases, opens : Nat, entries : EntryMaps, ledger : SUBSET Grant,
        standings : SUBSET (Ids \X Nat)]

\* A pilot was banked for whatever he was granted, so that a later grant is for more.
LedgerOK(q) ==
  /\ \A g \in q.ledger : g.pilot \in DOMAIN q.entries /\ g.best <= q.entries[g.pilot].claimed
  /\ \A g, h \in q.ledger : g.pilot = h.pilot /\ g # h => g.tier > h.best \/ h.tier > g.best

CupOK(q) == q \in Cup /\ LedgerOK(q)

CupsInv ==
  /\ scores \in Seq(ScoreRow)
  /\ index \in [DOMAIN index -> Nat]
  /\ cups \in [DOMAIN cups -> Cup]
  /\ \A c \in DOMAIN cups : LedgerOK(cups[c])

\* The runs of rows and entries are all indexed, and no two of them are the same.
RunsInv ==
  /\ \A i \in DOMAIN scores : /\ scores[i].run \in DOMAIN index
                              /\ \A j \in DOMAIN scores : scores[i].run = scores[j].run => i = j
  /\ \A c \in DOMAIN cups : \A p \in DOMAIN cups[c].entries :
       LET r == cups[c].entries[p].run
       IN  r # NoRun =>
             /\ r \in DOMAIN index /\ \A i \in DOMAIN scores : scores[i].run # r
             /\ \A d \in DOMAIN cups : \A q \in DOMAIN cups[d].entries :
                  cups[d].entries[q].run = r => c = d /\ p = q

\* The entries of a cup are a function of pilots, and every such function will do.
LEMMA EntriesAre ==
  /\ \A m \in EntryMaps : DOMAIN m \subseteq Ids /\ m \in [DOMAIN m -> EntryRow]
  /\ \A P \in SUBSET Ids : \A m \in [P -> EntryRow] : m \in EntryMaps
BY DEF EntryMaps

\* Phase and standings are no business of the ledger.
LEMMA PhaseKeeps ==
  ASSUME NEW q, CupOK(q), NEW ph \in Phases
  PROVE  /\ CupOK([q EXCEPT !.phase = ph])
         /\ [q EXCEPT !.phase = ph].entries = q.entries
<1>. DEFINE r == [q EXCEPT !.phase = ph]
<1>1. r \in Cup /\ r.entries = q.entries /\ r.ledger = q.ledger
  BY DEF CupOK, Cup
<1>. HIDE DEF r
<1>2. CupOK(r) /\ r.entries = q.entries
  BY <1>1 DEF CupOK, LedgerOK
<1>. QED  BY <1>2 DEF r

\* The end of a cup.
LEMMA FinishKeeps ==
  ASSUME NEW q, CupOK(q)
  PROVE  /\ CupOK([q EXCEPT !.phase = "finished", !.standings = Standings(q)])
         /\ [q EXCEPT !.phase = "finished", !.standings = Standings(q)].entries = q.entries
<1>. DEFINE r == [q EXCEPT !.phase = "finished", !.standings = Standings(q)]
<1>1. q.entries \in EntryMaps
  BY DEF CupOK, Cup
<1>2. \A p \in DOMAIN q.entries : p \in Ids /\ q.entries[p].best \in Nat
  BY <1>1, EntriesAre DEF EntryRow
<1>3. Standings(q) \in SUBSET (Ids \X Nat)
  BY <1>2 DEF Standings
<1>4. r \in Cup /\ r.entries = q.entries /\ r.ledger = q.ledger
  BY <1>3 DEF CupOK, Cup, Phases
<1>. HIDE DEF r
<1>5. CupOK(r) /\ r.entries = q.entries
  BY <1>4 DEF CupOK, LedgerOK
<1>. QED  BY <1>5 DEF r

\* A pilot's entry is new, or is the one he had with a better result.
LEMMA EntryKeeps ==
  ASSUME NEW q, CupOK(q), NEW p \in Ids, NEW e \in EntryRow,
         p \in DOMAIN q.entries => e.claimed = q.entries[p].claimed
  PROVE  /\ CupOK([q EXCEPT !.entries = Extend(q.entries, p, e)])
         /\ [q EXCEPT !.entries = Extend(q.entries, p, e)].entries = Extend(q.entries, p, e)
<1>. DEFINE f == Extend(q.entries, p, e)
            r == [q EXCEPT !.entries = f]
<1>1. q \in Cup /\ LedgerOK(q) /\ q.entries \in EntryMaps
  BY DEF CupOK, Cup
<1>2. DOMAIN q.entries \subseteq Ids /\ q.entries \in [DOMAIN q.entries -> EntryRow]
  BY <1>1, EntriesAre
<1>3. /\ DOMAIN f = DOMAIN q.entries \cup {p} /\ f[p] = e
      /\ \A y \in DOMAIN q.entries : y # p => f[y] = q.entries[y]
      /\ f \in [DOMAIN q.entries \cup {p} -> EntryRow]
  BY <1>2 DEF Extend
<1>. HIDE DEF f
<1>4. DOMAIN q.entries \cup {p} \in SUBSET Ids
  BY <1>2
<1>5. f \in EntryMaps
  BY <1>3, <1>4, EntriesAre
<1>6. r \in Cup /\ r.entries = f /\ r.ledger = q.ledger
  BY <1>1, <1>5 DEF Cup
<1>. HIDE DEF r
<1>7. LedgerOK(r)
  BY <1>1, <1>3, <1>6 DEF LedgerOK
<1>8. CupOK(r) /\ r.entries = f
  BY <1>6, <1>7 DEF CupOK
<1>. QED  BY <1>8 DEF r, f

\* Nobody is paid twice for one best: a tier that is due lies above what its pilot
\* was banked for, and he is banked for his best when he is paid.
LEMMA PaidKeeps ==
  ASSUME NEW q, CupOK(q), NEW due, NEW handed \in BOOLEAN,
         \A d \in due : /\ d \in (DOMAIN q.entries) \X Tiers /\ Due(q, d[1], d[2])
                        /\ \A x \in due : x[1] = d[1] => x = d
  PROVE  /\ CupOK(Paid(q, due, handed)) /\ DOMAIN Paid(q, due, handed).entries = DOMAIN q.entries
         /\ \A p \in DOMAIN q.entries : Paid(q, due, handed).entries[p].run = q.entries[p].run
<1>. DEFINE P == DOMAIN q.entries
            f == [p \in P |-> IF \E d \in due : d[1] = p THEN Banked(q.entries[p]) ELSE q.entries[p]]
            G == Grants(q, due, handed)
            r == [q EXCEPT !.ledger = q.ledger \cup G, !.entries = f]
<1>1. q \in Cup /\ LedgerOK(q) /\ q.entries \in EntryMaps
  BY DEF CupOK, Cup
<1>2. P \in SUBSET Ids /\ q.entries \in [P -> EntryRow]
  BY <1>1, EntriesAre
<1>3. \A p \in P : /\ Banked(q.entries[p]) \in EntryRow
                   /\ Banked(q.entries[p]).run = q.entries[p].run
                   /\ Banked(q.entries[p]).claimed >= q.entries[p].claimed
                   /\ Banked(q.entries[p]).claimed >= q.entries[p].best
  <2>. SUFFICES ASSUME NEW p \in P
                PROVE  /\ Banked(q.entries[p]) \in EntryRow
                       /\ Banked(q.entries[p]).run = q.entries[p].run
                       /\ Banked(q.entries[p]).claimed >= q.entries[p].claimed
                       /\ Banked(q.entries[p]).claimed >= q.entries[p].best
    OBVIOUS
  <2>1. q.entries[p] \in EntryRow
    BY <1>2
  <2>. QED  BY <2>1 DEF Banked, EntryRow
<1>4. /\ f \in [P -> EntryRow]
      /\ \A p \in P : f[p].run = q.entries[p].run /\ f[p].claimed >= q.entries[p].claimed
  <2>1. f \in [P -> EntryRow]
    BY <1>2, <1>3
  <2>2. ASSUME NEW p \in P
        PROVE  f[p].run = q.entries[p].run /\ f[p].claimed >= q.entries[p].claimed
    <3>1. q.entries[p].claimed \in Nat
      BY <1>2 DEF EntryRow
    <3>. QED  BY <1>3, <3>1
  <2>. QED  BY <2>1, <2>2
<1>5. f \in EntryMaps
  BY <1>2, <1>4, EntriesAre
<1>6. \A g \in G : /\ g \in Grant /\ g.pilot \in P /\ <<g.pilot, g.tier>> \in due
                   /\ g.best <= f[g.pilot].claimed
                   /\ g = [pilot |-> g.pilot, tier |-> g.tier, best |-> q.entries[g.pilot].best,
                           handed |-> handed]
  <2>. SUFFICES ASSUME NEW g \in G
                PROVE  /\ g \in Grant /\ g.pilot \in P /\ <<g.pilot, g.tier>> \in due
                       /\ g.best <= f[g.pilot].claimed
                       /\ g = [pilot |-> g.pilot, tier |-> g.tier, best |-> q.entries[g.pilot].best,
                               handed |-> handed]
    OBVIOUS
  <2>1. PICK d \in due : g = [pilot |-> d[1], tier |-> d[2], best |-> q.entries[d[1]].best, handed |-> handed]
    BY DEF Grants
  <2>2. d = <<d[1], d[2]>> /\ d[1] \in P /\ d[2] \in Tiers
    OBVIOUS
  <2>3. q.entries[d[1]].best \in Nat /\ d[1] \in Ids
    BY <1>2, <2>2 DEF EntryRow
  <2>4. f[d[1]] = Banked(q.entries[d[1]])
    BY <2>2
  <2>5. f[d[1]].claimed >= q.entries[d[1]].best /\ f[d[1]].claimed \in Nat
    BY <1>3, <2>2, <2>4 DEF EntryRow
  <2>. HIDE DEF f
  <2>. QED  BY <2>1, <2>2, <2>3, <2>5 DEF Grant
<1>7. Paid(q, due, handed) = r
  BY DEF Paid
<1>. HIDE DEF f, G
<1>8. r \in Cup /\ r.entries = f /\ r.ledger = q.ledger \cup G
  <2>1. q.ledger \cup G \in SUBSET Grant
    BY <1>1, <1>6 DEF Cup
  <2>. QED  BY <1>1, <1>5, <2>1 DEF Cup
<1>. HIDE DEF r
<1>9. ASSUME NEW g \in r.ledger
      PROVE  g.pilot \in DOMAIN r.entries /\ g.best <= r.entries[g.pilot].claimed
  <2>1. CASE g \in G
    BY <1>4, <1>6, <1>8, <2>1
  <2>2. CASE g \in q.ledger
    <3>1. g.pilot \in P /\ g.best <= q.entries[g.pilot].claimed /\ g.best \in Nat
      BY <1>1, <2>2 DEF LedgerOK, Cup, Grant
    <3>2. q.entries[g.pilot].claimed \in Nat /\ f[g.pilot].claimed \in Nat
      BY <1>2, <1>4, <3>1 DEF EntryRow
    <3>. QED  BY <1>4, <1>8, <3>1, <3>2
  <2>. QED  BY <1>8, <2>1, <2>2
<1>10. ASSUME NEW g \in q.ledger, NEW h \in G, g.pilot = h.pilot
       PROVE  h.tier > g.best
  <2>1. <<h.pilot, h.tier>> \in due /\ h \in Grant /\ h.pilot \in P
    BY <1>6
  <2>2. Due(q, h.pilot, h.tier)
    BY <2>1
  <2>3. h.tier > q.entries[h.pilot].claimed /\ g.best <= q.entries[h.pilot].claimed
    BY <1>1, <1>10, <2>2 DEF Due, LedgerOK
  <2>4. h.tier \in Nat /\ g.best \in Nat /\ q.entries[h.pilot].claimed \in Nat
    BY <1>1, <1>2, <2>1, CupsAssumption DEF Cup, Grant, EntryRow
  <2>. QED  BY <2>3, <2>4
<1>11. ASSUME NEW g \in G, NEW h \in G, g.pilot = h.pilot
       PROVE  g = h
  <2>1. <<g.pilot, g.tier>> = <<h.pilot, h.tier>>
    BY <1>6, <1>11
  <2>2. g.tier = h.tier
    BY <2>1
  <2>. QED  BY <1>6, <1>11, <2>2
<1>12. \A g, h \in r.ledger : g.pilot = h.pilot /\ g # h => g.tier > h.best \/ h.tier > g.best
  BY <1>1, <1>8, <1>10, <1>11 DEF LedgerOK
<1>13. CupOK(r)
  BY <1>8, <1>9, <1>12 DEF CupOK, LedgerOK
<1>. QED  BY <1>4, <1>7, <1>8, <1>13

\* One cup changes, its ledger in order.
LEMMA SetCupKeeps ==
  ASSUME CupsInv, NEW c, NEW q, SetCup(c, q), c \in DOMAIN cups => CupOK(q),
         scores' \in Seq(ScoreRow), index' \in [DOMAIN index' -> Nat]
  PROVE  CupsInv'
<1>1. cups' = [cups EXCEPT ![c] = q]
  BY DEF SetCup
<1>2. c \in DOMAIN cups => q \in Cup
  BY DEF CupOK
<1>3. cups' \in [DOMAIN cups -> Cup] /\ DOMAIN cups' = DOMAIN cups
  BY <1>1, <1>2 DEF CupsInv
<1>4. ASSUME NEW i \in DOMAIN cups'
      PROVE  LedgerOK(cups'[i])
  BY <1>1, <1>3, <1>4 DEF CupsInv, CupOK
<1>. QED  BY <1>3, <1>4 DEF CupsInv

\* Rows keep their runs, and an entry keeps its run, has none, or has one that nobody had.
LEMMA EntriesKeepRuns ==
  ASSUME RunsInv, DOMAIN scores' = DOMAIN scores, \A i \in DOMAIN scores : scores'[i].run = scores[i].run,
         DOMAIN index \subseteq DOMAIN index', NEW run, NEW c0, NEW p0,
         run # NoRun => run \notin DOMAIN index /\ run \in DOMAIN index',
         \A c \in DOMAIN cups' : \A p \in DOMAIN cups'[c].entries :
           \/ cups'[c].entries[p].run = NoRun
           \/ c = c0 /\ p = p0 /\ cups'[c].entries[p].run = run
           \/ /\ c \in DOMAIN cups /\ p \in DOMAIN cups[c].entries
              /\ cups'[c].entries[p].run = cups[c].entries[p].run
  PROVE  RunsInv'
<1>. DEFINE Old(c, p, r) == c \in DOMAIN cups /\ p \in DOMAIN cups[c].entries /\ cups[c].entries[p].run = r
            New(c, p, r) == c \in DOMAIN cups' /\ p \in DOMAIN cups'[c].entries /\ cups'[c].entries[p].run = r
<1>1. \A c, p, r : r # NoRun /\ New(c, p, r) => Old(c, p, r) \/ (c = c0 /\ p = p0 /\ r = run)
  OBVIOUS
<1>2. \A c, p, r : r # NoRun /\ Old(c, p, r) =>
        /\ r \in DOMAIN index /\ \A i \in DOMAIN scores : scores[i].run # r
        /\ \A d, q : Old(d, q, r) => c = d /\ p = q
  BY DEF RunsInv
<1>3. \A i \in DOMAIN scores : scores[i].run \in DOMAIN index
  BY DEF RunsInv
<1>4. \A c, p, r : r # NoRun /\ New(c, p, r) =>
        /\ r \in DOMAIN index' /\ \A i \in DOMAIN scores' : scores'[i].run # r
        /\ \A d, q : New(d, q, r) => c = d /\ p = q
  <2>. HIDE DEF Old, New
  <2>. QED  BY <1>1, <1>2, <1>3
<1>5. \A i \in DOMAIN scores' : /\ scores'[i].run \in DOMAIN index'
                                /\ \A j \in DOMAIN scores' : scores'[i].run = scores'[j].run => i = j
  BY DEF RunsInv
<1>. QED  BY <1>4, <1>5 DEF RunsInv

\* A new row has a run that neither a row nor an entry had.
LEMMA RowKeeps ==
  ASSUME CupsInv, RunsInv, NEW row \in ScoreRow, row.run \notin DOMAIN index,
         scores' = Append(scores, row), index' = Extend(index, row.run, Len(scores) + 1), UNCHANGED cups
  PROVE  CupsInv' /\ RunsInv'
<1>. DEFINE n == Len(scores)
<1>1. scores \in Seq(ScoreRow) /\ n \in Nat /\ DOMAIN scores = 1..n
  BY DEF CupsInv
<1>2. /\ scores' \in Seq(ScoreRow) /\ DOMAIN scores' = 1..(n + 1)
      /\ \A i \in 1..n : scores'[i] = scores[i]
      /\ scores'[n + 1] = row
  BY <1>1
<1>3. DOMAIN index' = DOMAIN index \cup {row.run} /\ index' \in [DOMAIN index' -> Nat]
  BY <1>1 DEF Extend, CupsInv
<1>4. CupsInv'
  BY <1>2, <1>3 DEF CupsInv
<1>5. \A i \in DOMAIN scores' : i \in DOMAIN scores \/ i = n + 1
  BY <1>1, <1>2
<1>6. \A i \in DOMAIN scores : scores[i].run \in DOMAIN index /\ scores'[i] = scores[i]
  BY <1>1, <1>2 DEF RunsInv
<1>7. \A i \in DOMAIN scores' : /\ scores'[i].run \in DOMAIN index'
                                /\ \A j \in DOMAIN scores' : scores'[i].run = scores'[j].run => i = j
  BY <1>2, <1>3, <1>5, <1>6 DEF RunsInv
<1>8. RunsInv'
  BY <1>2, <1>3, <1>5, <1>6, <1>7 DEF RunsInv
<1>. QED  BY <1>4, <1>8

\* Rows may lose their standing; cups and index are as they were.
LEMMA RollBackKeeps ==
  ASSUME CupsInv, RunsInv, RollBack
  PROVE  CupsInv' /\ RunsInv'
<1>1. /\ scores \in Seq(ScoreRow) /\ UNCHANGED <<index, cups>>
      /\ \A i \in DOMAIN scores : scores[i] \in ScoreRow
  BY DEF CupsInv, RollBack
<1>2. ASSUME NEW i, scores' = [scores EXCEPT ![i].status = "invalidated"]
      PROVE  /\ scores' \in Seq(ScoreRow) /\ DOMAIN scores' = DOMAIN scores
             /\ \A j \in DOMAIN scores : scores'[j].run = scores[j].run
  <2>. DEFINE x == [scores[i] EXCEPT !.status = "invalidated"]
  <2>1. i \in DOMAIN scores => x \in ScoreRow /\ x.run = scores[i].run
    BY <1>1 DEF ScoreRow
  <2>2. scores' = [scores EXCEPT ![i] = x]
    BY <1>2
  <2>. HIDE DEF x
  <2>3. scores \in [DOMAIN scores -> ScoreRow] /\ DOMAIN scores = 1..Len(scores) /\ Len(scores) \in Nat
    BY <1>1
  <2>4. scores' \in [DOMAIN scores -> ScoreRow]
    BY <2>1, <2>2, <2>3
  <2>5. scores' \in Seq(ScoreRow)
    BY <2>3, <2>4
  <2>. QED  BY <2>1, <2>2, <2>3, <2>4, <2>5
<1>3. ASSUME NEW p, InvalidateAll(p)
      PROVE  /\ scores' \in Seq(ScoreRow) /\ DOMAIN scores' = DOMAIN scores
             /\ \A j \in DOMAIN scores : scores'[j].run = scores[j].run
  <2>. DEFINE x(i) == [scores[i] EXCEPT !.status = "invalidated"]
  <2>1. \A i \in DOMAIN scores : x(i) \in ScoreRow /\ x(i).run = scores[i].run
    BY <1>1 DEF ScoreRow
  <2>2. scores' = [i \in DOMAIN scores |-> IF scores[i].pilot = p THEN x(i) ELSE scores[i]]
    BY <1>3 DEF InvalidateAll
  <2>. HIDE DEF x
  <2>3. DOMAIN scores = 1..Len(scores) /\ Len(scores) \in Nat
    BY <1>1
  <2>4. scores' \in [DOMAIN scores -> ScoreRow]
    BY <1>1, <2>1, <2>2
  <2>5. scores' \in Seq(ScoreRow)
    BY <2>3, <2>4
  <2>. QED  BY <2>1, <2>2, <2>4, <2>5
<1>4. /\ scores' \in Seq(ScoreRow) /\ DOMAIN scores' = DOMAIN scores
      /\ \A j \in DOMAIN scores : scores'[j].run = scores[j].run
  BY <1>1, <1>2, <1>3 DEF RollBack, InvalidateScore
<1>5. CupsInv'
  BY <1>1, <1>4 DEF CupsInv
<1>6. RunsInv'
  BY <1>1, <1>4 DEF RunsInv
<1>. QED  BY <1>5, <1>6

\* Phases, ends, prizes: the entries keep their runs.
LEMMA OrganiseKeeps ==
  ASSUME CupsInv, RunsInv, Organise, UNCHANGED <<scores, index>>
  PROVE  CupsInv' /\ RunsInv'
<1>0. \A c \in DOMAIN cups : CupOK(cups[c])
  BY DEF CupsInv, CupOK
<1>1. ASSUME NEW c \in DOMAIN cups, NEW q, CupOK(q), SetCup(c, q), DOMAIN q.entries = DOMAIN cups[c].entries,
             \A p \in DOMAIN cups[c].entries : q.entries[p].run = cups[c].entries[p].run
      PROVE  CupsInv' /\ RunsInv'
  <2>1. CupsInv'
    BY <1>1, SetCupKeeps DEF CupsInv
  <2>2. cups' = [cups EXCEPT ![c] = q] /\ cups \in [DOMAIN cups -> Cup]
    BY <1>1 DEF SetCup, CupsInv
  <2>3. \A d \in DOMAIN cups' : \A p \in DOMAIN cups'[d].entries :
          /\ d \in DOMAIN cups /\ p \in DOMAIN cups[d].entries
          /\ cups'[d].entries[p].run = cups[d].entries[p].run
    BY <1>1, <2>2
  <2>4. RunsInv'
    BY <2>3, EntriesKeepRuns
  <2>. QED  BY <2>1, <2>4
<1>2. ASSUME NEW c \in DOMAIN cups, Finish(c)
      PROVE  CupsInv' /\ RunsInv'
  <2>. DEFINE q == [cups[c] EXCEPT !.phase = "finished", !.standings = Standings(cups[c])]
  <2>1. CupOK(q) /\ q.entries = cups[c].entries
    BY <1>0, FinishKeeps
  <2>2. SetCup(c, q)
    BY <1>2 DEF Finish
  <2>. HIDE DEF q
  <2>. QED  BY <1>1, <2>1, <2>2
<1>3. ASSUME NEW opens \in 0..1, CreateCup(opens)
      PROVE  CupsInv' /\ RunsInv'
  <2>. DEFINE q == [phase |-> "registration", opens |-> opens, entries |-> <<>>, ledger |-> {}, standings |-> {}]
              k == 1 + Cardinality(DOMAIN cups)
  <2>1. DOMAIN <<>> = {} /\ <<>> \in EntryMaps
    <3>1. DOMAIN <<>> = {}
      OBVIOUS
    <3>2. <<>> = [x \in {} |-> x]
      BY <3>1
    <3>3. <<>> \in [{} -> EntryRow]
      BY <3>2
    <3>. QED  BY <3>1, <3>3, EntriesAre
  <2>2. q \in Cup /\ q.ledger = {} /\ DOMAIN q.entries = {}
    BY <2>1 DEF Cup, Phases
  <2>3. cups' = Extend(cups, k, q)
    BY <1>3 DEF CreateCup
  <2>. HIDE DEF q, k
  <2>4. /\ DOMAIN cups' = DOMAIN cups \cup {k} /\ cups' \in [DOMAIN cups \cup {k} -> Cup]
        /\ \A c \in DOMAIN cups' : cups'[c] = q \/ (c \in DOMAIN cups /\ cups'[c] = cups[c])
    BY <2>2, <2>3 DEF Extend, CupsInv
  <2>5. CupsInv'
    BY <2>2, <2>4 DEF CupsInv, LedgerOK
  <2>6. RunsInv'
    BY <2>2, <2>4, EntriesKeepRuns
  <2>. QED  BY <2>5, <2>6
<1>4. ASSUME NEW c \in DOMAIN cups, CloseRegistration(c) \/ Start(c) \/ Cancel(c)
      PROVE  CupsInv' /\ RunsInv'
  <2>1. PICK ph \in Phases : SetCup(c, [cups[c] EXCEPT !.phase = ph])
    BY <1>4 DEF CloseRegistration, Start, Cancel, Phases
  <2>. DEFINE q == [cups[c] EXCEPT !.phase = ph]
  <2>2. CupOK(q) /\ q.entries = cups[c].entries
    BY <1>0, PhaseKeeps
  <2>3. SetCup(c, q)
    BY <2>1
  <2>. HIDE DEF q
  <2>. QED  BY <1>1, <2>2, <2>3
<1>5. ASSUME NEW c \in DOMAIN cups, NEW due, NEW handed \in BOOLEAN, SetCup(c, Paid(cups[c], due, handed)),
             \A d \in due : /\ d \in (DOMAIN cups[c].entries) \X Tiers /\ Due(cups[c], d[1], d[2])
                            /\ \A x \in due : x[1] = d[1] => x = d
      PROVE  CupsInv' /\ RunsInv'
  <2>. DEFINE q == Paid(cups[c], due, handed)
  <2>1. /\ CupOK(q) /\ DOMAIN q.entries = DOMAIN cups[c].entries
        /\ \A p \in DOMAIN cups[c].entries : q.entries[p].run = cups[c].entries[p].run
    BY <1>0, <1>5, PaidKeeps
  <2>. HIDE DEF q
  <2>2. SetCup(c, q)
    BY <1>5 DEF q
  <2>. QED  BY <1>1, <2>1, <2>2
<1>6. ASSUME NEW c \in DOMAIN cups, NEW p \in born, ClaimReward(c, p)
      PROVE  CupsInv' /\ RunsInv'
  <2>1. PICK t \in Highest({u \in Tiers : Due(cups[c], p, u)}) : SetCup(c, Paid(cups[c], {<<p, t>>}, TRUE))
    BY <1>6 DEF ClaimReward
  <2>2. t \in Tiers /\ Due(cups[c], p, t) /\ p \in DOMAIN cups[c].entries
    BY <1>6 DEF Highest, ClaimReward
  <2>. DEFINE due == {<<p, t>>}
  <2>3. \A d \in due : /\ d \in (DOMAIN cups[c].entries) \X Tiers /\ Due(cups[c], d[1], d[2])
                       /\ \A x \in due : x[1] = d[1] => x = d
    BY <2>2
  <2>4. SetCup(c, Paid(cups[c], due, TRUE))
    BY <2>1
  <2>. HIDE DEF due
  <2>. QED  BY <1>5, <2>3, <2>4
<1>7. ASSUME NEW c \in DOMAIN cups, Distribute(c)
      PROVE  CupsInv' /\ RunsInv'
  <2>. DEFINE q   == cups[c]
              due == {d \in (DOMAIN q.entries) \X Tiers :
                        /\ d[2] \in Highest({t \in Tiers : q.entries[d[1]].best >= t})
                        /\ Due(q, d[1], d[2])}
  <2>1. SetCup(c, Paid(q, due, FALSE))
    BY <1>7 DEF Distribute
  <2>2. ASSUME NEW d \in due
        PROVE  /\ d \in (DOMAIN q.entries) \X Tiers /\ Due(q, d[1], d[2])
               /\ \A x \in due : x[1] = d[1] => x = d
    <3>1. d \in (DOMAIN q.entries) \X Tiers /\ Due(q, d[1], d[2])
      OBVIOUS
    <3>2. ASSUME NEW x \in due, x[1] = d[1]
          PROVE  x = d
      <4>1. x[2] <= d[2] /\ d[2] <= x[2]
        BY <3>2 DEF Highest
      <4>2. x[2] \in Nat /\ d[2] \in Nat
        BY CupsAssumption
      <4>3. x = <<x[1], x[2]>> /\ d = <<d[1], d[2]>>
        OBVIOUS
      <4>. QED  BY <3>2, <4>1, <4>2, <4>3
    <3>. QED  BY <3>1, <3>2
  <2>. HIDE DEF due
  <2>. QED  BY <1>5, <2>1, <2>2
<1>. QED  BY <1>2, <1>3, <1>4, <1>6, <1>7 DEF Organise

\* Registrations have no run, and a result's run is new and stays in the index.
LEMMA CompeteKeeps ==
  ASSUME CupsInv, RunsInv, born \subseteq Ids, Compete, UNCHANGED scores
  PROVE  CupsInv' /\ RunsInv'
<1>0. \A c \in DOMAIN cups : CupOK(cups[c]) /\ cups[c].entries \in EntryMaps
  BY DEF CupsInv, CupOK, Cup
<1>1. Entry \in EntryRow /\ Entry.claimed = 0 /\ Entry.run = NoRun
  BY DEF Entry, EntryRow
<1>2. ASSUME NEW c \in DOMAIN cups, NEW p \in Ids, NEW e \in EntryRow, NEW run,
             DOMAIN index \subseteq DOMAIN index', index' \in [DOMAIN index' -> Nat],
             run # NoRun => run \notin DOMAIN index /\ run \in DOMAIN index',
             p \in DOMAIN cups[c].entries => e.claimed = cups[c].entries[p].claimed,
             \/ e.run \in {NoRun, run}
             \/ p \in DOMAIN cups[c].entries /\ e.run = cups[c].entries[p].run,
             SetCup(c, [cups[c] EXCEPT !.entries = Extend(cups[c].entries, p, e)])
      PROVE  CupsInv' /\ RunsInv'
  <2>. DEFINE f == Extend(cups[c].entries, p, e)
              q == [cups[c] EXCEPT !.entries = f]
  <2>1. CupOK(q) /\ q.entries = f
    BY <1>0, <1>2, EntryKeeps
  <2>2. SetCup(c, q)
    BY <1>2
  <2>3. /\ DOMAIN f = DOMAIN cups[c].entries \cup {p} /\ f[p] = e
        /\ \A y \in DOMAIN cups[c].entries : y # p => f[y] = cups[c].entries[y]
    BY DEF Extend
  <2>. HIDE DEF f, q
  <2>4. CupsInv'
    BY <1>2, <2>1, <2>2, SetCupKeeps DEF CupsInv
  <2>5. cups' = [cups EXCEPT ![c] = q] /\ cups \in [DOMAIN cups -> Cup]
    BY <2>2 DEF SetCup, CupsInv
  <2>6. \A d \in DOMAIN cups' : \A y \in DOMAIN cups'[d].entries :
          \/ cups'[d].entries[y].run = NoRun
          \/ d = c /\ y = p /\ cups'[d].entries[y].run = run
          \/ /\ d \in DOMAIN cups /\ y \in DOMAIN cups[d].entries
             /\ cups'[d].entries[y].run = cups[d].entries[y].run
    BY <1>2, <2>1, <2>3, <2>5
  <2>7. RunsInv'
    BY <1>2, <2>6, EntriesKeepRuns
  <2>. QED  BY <2>4, <2>7
<1>3. ASSUME NEW c \in DOMAIN cups, NEW p \in born, Register(c, p), UNCHANGED index
      PROVE  CupsInv' /\ RunsInv'
  <2>1. /\ SetCup(c, [cups[c] EXCEPT !.entries = Extend(cups[c].entries, p, Entry)])
        /\ p \notin DOMAIN cups[c].entries
    BY <1>3 DEF Register
  <2>2. index' \in [DOMAIN index' -> Nat] /\ p \in Ids
    BY <1>3 DEF CupsInv
  <2>. QED  BY <1>1, <1>2, <1>3, <2>1, <2>2
<1>4. ASSUME NEW c \in DOMAIN cups, NEW p \in born, NEW run \in Runs \cup {NoRun}, NEW v \in Values,
             SubmitResult(c, p, run, v)
      PROVE  CupsInv' /\ RunsInv'
  <2>. DEFINE e == IF p \in DOMAIN cups[c].entries THEN cups[c].entries[p] ELSE Entry
              x == [e EXCEPT !.best = v, !.run = run]
  <2>1. /\ SetCup(c, [cups[c] EXCEPT !.entries = Extend(cups[c].entries, p, Improved(e, run, v))])
        /\ run \notin DOMAIN index /\ index' = Tombstoned(run)
    BY <1>4 DEF SubmitResult
  <2>2. e \in EntryRow
    BY <1>0, <1>1, EntriesAre
  <2>3. p \in DOMAIN cups[c].entries => e = cups[c].entries[p]
    OBVIOUS
  <2>4. e.run = NoRun \/ (p \in DOMAIN cups[c].entries /\ e.run = cups[c].entries[p].run)
    BY <1>1
  <2>. HIDE DEF e
  <2>5. x \in EntryRow /\ x.claimed = e.claimed /\ x.run = run
    <3>1. v \in Nat
      BY CupsAssumption
    <3>. QED  BY <2>2, <3>1 DEF EntryRow
  <2>6. Improved(e, run, v) \in {x, e}
    BY DEF Improved
  <2>. HIDE DEF x
  <2>7. /\ DOMAIN index \subseteq DOMAIN index' /\ index' \in [DOMAIN index' -> Nat]
        /\ run # NoRun => run \notin DOMAIN index /\ run \in DOMAIN index'
    BY <2>1 DEF Tombstoned, Extend, CupsInv
  <2>8. p \in Ids
    OBVIOUS
  <2>. DEFINE y == Improved(e, run, v)
  <2>9. /\ y \in EntryRow
        /\ p \in DOMAIN cups[c].entries => y.claimed = cups[c].entries[p].claimed
        /\ \/ y.run \in {NoRun, run}
           \/ p \in DOMAIN cups[c].entries /\ y.run = cups[c].entries[p].run
    BY <2>2, <2>3, <2>4, <2>5, <2>6
  <2>10. SetCup(c, [cups[c] EXCEPT !.entries = Extend(cups[c].entries, p, y)])
    BY <2>1
  <2>. HIDE DEF y
  <2>. QED  BY <1>2, <2>7, <2>8, <2>9, <2>10
<1>. QED  BY <1>3, <1>4 DEF Compete

\* A set whose elements are all the same has one at most.
LEMMA AtMostOne ==
  ASSUME NEW S, \A x, y \in S : x = y
  PROVE  (S = {} /\ Cardinality(S) = 0) \/ (S # {} /\ Cardinality(S) = 1)
<1>1. CASE S = {}
  BY <1>1, FS_EmptySet
<1>2. CASE S # {}
  <2>1. PICK x : x \in S
    BY <1>2
  <2>2. S = {x}
    BY <2>1
  <2>. QED  BY <2>2, FS_Singleton
<1>. QED  BY <1>1, <1>2

\* What the invariant says of rows and entries is what is asked of every run.
LEMMA RunsCount == RunsInv => RunsCountOnce
<1>. SUFFICES ASSUME RunsInv, NEW r \in Runs
              PROVE  Cardinality({i \in DOMAIN scores : scores[i].run = r})
                     + Cardinality({x \in (DOMAIN cups) \X Ids : x[2] \in DOMAIN cups[x[1]].entries
                                                                 /\ cups[x[1]].entries[x[2]].run = r}) <= 1
  BY DEF RunsCountOnce
<1>. DEFINE A == {i \in DOMAIN scores : scores[i].run = r}
            B == {x \in (DOMAIN cups) \X Ids : x[2] \in DOMAIN cups[x[1]].entries
                                               /\ cups[x[1]].entries[x[2]].run = r}
<1>1. r # NoRun
  BY CupsAssumption
<1>2. \A x, y \in A : x = y
  BY DEF RunsInv
<1>3. \A x \in B : /\ x = <<x[1], x[2]>> /\ x[1] \in DOMAIN cups /\ x[2] \in DOMAIN cups[x[1]].entries
                   /\ cups[x[1]].entries[x[2]].run = r
  OBVIOUS
<1>4. \A x, y \in B : x = y
  <2>. SUFFICES ASSUME NEW x \in B, NEW y \in B PROVE x = y
    OBVIOUS
  <2>1. x[1] = y[1] /\ x[2] = y[2]
    BY <1>1, <1>3 DEF RunsInv
  <2>. QED  BY <1>3, <2>1
<1>5. A = {} \/ B = {}
  BY <1>1, <1>3 DEF RunsInv
<1>. HIDE DEF A, B
<1>6. /\ (A = {} /\ Cardinality(A) = 0) \/ (A # {} /\ Cardinality(A) = 1)
      /\ (B = {} /\ Cardinality(B) = 0) \/ (B # {} /\ Cardinality(B) = 1)
  BY <1>2, <1>4, AtMostOne
<1>7. Cardinality(A) + Cardinality(B) <= 1
  BY <1>5, <1>6
<1>. QED  BY <1>7 DEF A, B

(***************************************************************************)
(* The whole service.                                                      *)
(***************************************************************************)

SocialInv == PilotsInv /\ SquadsInv /\ CupsInv /\ RunsInv

\* Nobody yet has links, friends or blocks, squads, runs or cups.
LEMMA AtFirst == Init => SocialInv
<1>. SUFFICES ASSUME Init PROVE SocialInv
  OBVIOUS
<1>1. PilotsInv
  <2>1. Fresh \in Profile
    BY DEF Fresh, Profile
  <2>2. Live = born /\ profiles \in [Live -> Profile]
    BY <2>1 DEF Init, PilotsInit, Live
  <2>3. \A a \in Accounts : platformLinks[a] = None /\ None \notin Live
    BY <2>2, PilotsAssumption DEF Init, PilotsInit
  <2>4. LinksResolve
    BY DEF Init, PilotsInit, LinksResolve
  <2>. QED  BY <2>2, <2>3, <2>4
            DEF Init, PilotsInit, PilotsInv, NoFriendsAcrossBlocks
<1>2. DOMAIN <<>> = {} /\ <<>> \in [{} -> Squad] /\ <<>> \in [{} -> Cup] /\ <<>> \in [{} -> Nat]
  <2>1. DOMAIN <<>> = {}
    OBVIOUS
  <2>2. <<>> = [x \in {} |-> x]
    BY <2>1
  <2>. QED  BY <2>1, <2>2
<1>3. SquadsInv
  BY <1>2 DEF Init, SquadsInit, SquadsInv
<1>4. CupsInv /\ RunsInv
  BY <1>2 DEF Init, CupsInit, CupsInv, RunsInv
<1>. QED  BY <1>1, <1>3, <1>4 DEF SocialInv

\* Every step keeps the pilots' part.
LEMMA PilotsKeep ==
  ASSUME PilotsInv, [Next]_vars
  PROVE  PilotsInv'
<1>1. CASE People
  BY <1>1, PeopleKeep
<1>2. CASE ~People
  <2>1. /\ SameStanding
        /\ UNCHANGED <<born, guestLinks, platformLinks, blocks, friendships>>
    BY <1>2, OthersStanding, HealedIsStanding
  <2>2. day' \in Nat
    BY <1>2, OthersStanding DEF PilotsInv
  <2>. QED  BY <2>1, <2>2, StandingKeeps DEF PilotsInv, NoFriendsAcrossBlocks
<1>. QED  BY <1>1, <1>2

\* A run that is posted is a new row, and may count for a squad.
LEMMA PostKeeps ==
  ASSUME SocialInv, Post
  PROVE  SquadsInv' /\ CupsInv' /\ RunsInv'
<1>. USE DEF SocialInv
<1>1. day' = day /\ day \in Nat /\ born \subseteq Ids
  BY DEF Post, PilotsInv
<1>2. ASSUME NEW p \in Ids, NEW run \in Runs, NEW v \in Values,
             NEW status \in {"active", "quarantined"}
      PROVE  Row(p, run, v, status) \in ScoreRow /\ Row(p, run, v, status).run = run
  BY <1>1 DEF Row, ScoreRow
<1>3. ASSUME NEW p \in Ids, NEW run \in Runs, NEW v \in Values,
             run \notin DOMAIN index, index' = Extend(index, run, Len(scores) + 1), UNCHANGED cups,
             \/ scores' = Append(scores, Row(p, run, v, "active"))
             \/ scores' = Append(scores, Row(p, run, v, "quarantined"))
      PROVE  CupsInv' /\ RunsInv'
  <2>1. PICK status \in {"active", "quarantined"} : scores' = Append(scores, Row(p, run, v, status))
    BY <1>3
  <2>. DEFINE row == Row(p, run, v, status)
  <2>2. row \in ScoreRow /\ row.run = run
    BY <1>2
  <2>3. scores' = Append(scores, row)
    BY <2>1
  <2>. HIDE DEF row
  <2>. QED  BY <1>3, <2>2, <2>3, RowKeeps
<1>4. ASSUME NEW run \in Runs, NEW v \in Values, NEW p \in born, Submit(p, run, v)
      PROVE  SquadsInv' /\ CupsInv' /\ RunsInv'
  <2>1. RecordContribution(p, run) \/ UNCHANGED squadVars
    BY <1>4 DEF Submit
  <2>2. SquadsInv'
    BY <1>1, <2>1, RecordKeeps, SquadsRest DEF squadVars
  <2>. QED  BY <1>1, <1>3, <1>4, <2>2 DEF Submit
<1>5. ASSUME NEW run \in Runs, NEW v \in Values, NEW d \in Devices, SubmitLegacy(d, run, v)
      PROVE  SquadsInv' /\ CupsInv' /\ RunsInv'
  <2>1. guestLinks[d] \in Ids
    BY <1>5 DEF SubmitLegacy, PilotsInv
  <2>2. SquadsInv'
    BY <1>1, <1>5, SquadsRest DEF SubmitLegacy, squadVars
  <2>. QED  BY <1>3, <1>5, <2>1, <2>2 DEF SubmitLegacy
<1>. QED  BY <1>4, <1>5 DEF Post

\* Every step keeps the squads', the boards' and the cups' part.
LEMMA OthersKeep ==
  ASSUME SocialInv, [Next]_vars
  PROVE  SquadsInv' /\ CupsInv' /\ RunsInv'
<1>. USE DEF SocialInv
<1>1. day \in Nat /\ born \subseteq Ids
  BY DEF PilotsInv
<1>2. UNCHANGED cupVars => CupsInv' /\ RunsInv'
  BY DEF cupVars, CupsInv, RunsInv
<1>3. UNCHANGED squadVars /\ day' \in {day, day + 1} => SquadsInv'
  BY <1>1, SquadsRest DEF squadVars
<1>4. CASE People /\ UNCHANGED <<squadVars, cupVars>>
  <2>1. day' = day
    BY <1>4 DEF People, CreateGuest, Upgrade, MergeDevice, Befriend, ListPending, UpdatePrivacy,
                Moderate, Look, Flag, Resolve
  <2>. QED  BY <1>2, <1>3, <1>4, <2>1
<1>5. CASE Clubs /\ UNCHANGED <<pilotsOnly, cupVars>>
  <2>1. day' = day
    BY <1>5 DEF pilotsOnly
  <2>2. Found \/ Socialise \/ Govern \/ Aim
    <3>1. CASE Plays("clubs") /\ \E p \in born : Create(p, "public") \/ \E s \in DOMAIN squads : Join(p, s)
      BY <3>1 DEF Found, Socialise
    <3>. QED  BY <1>5, <3>1 DEF Clubs
  <2>. QED  BY <1>1, <1>2, <1>5, <2>1, <2>2, FoundKeeps, SocialiseKeeps, GovernKeeps, AimKeeps
<1>6. CASE Post
  BY <1>6, PostKeeps
<1>7. CASE RollBack /\ UNCHANGED <<day, pilotVars, squadVars>>
  BY <1>3, <1>7, RollBackKeeps
<1>8. CASE Organise /\ UNCHANGED <<pilotsOnly, squadVars, scores, index>>
  BY <1>3, <1>8, OrganiseKeeps DEF pilotsOnly
<1>9. CASE Compete /\ UNCHANGED <<pilotsOnly, squadVars, scores, season>>
  BY <1>1, <1>3, <1>9, CompeteKeeps DEF pilotsOnly
<1>10. CASE NewDay
  BY <1>2, <1>3, <1>10 DEF NewDay
<1>11. CASE UNCHANGED vars
  BY <1>2, <1>3, <1>11 DEF vars
<1>. QED  BY <1>4, <1>5, <1>6, <1>7, <1>8, <1>9, <1>10, <1>11 DEF Next

\* The invariant of the whole service holds in every state.
THEOREM Inductive == Spec => []SocialInv
<1>1. SocialInv /\ [Next]_vars => SocialInv'
  <2>. SUFFICES ASSUME SocialInv, [Next]_vars PROVE SocialInv'
    OBVIOUS
  <2>1. PilotsInv
    BY DEF SocialInv
  <2>. QED  BY <2>1, PilotsKeep, OthersKeep DEF SocialInv
<1>. QED  BY <1>1, AtFirst, PTL DEF Spec

\* Nobody is the friend of a pilot he blocked or who blocked him, whichever
\* of a request, an answer, a block and a merge came first.
THEOREM BlocksHold == Spec => []NoFriendsAcrossBlocks
<1>1. SocialInv => NoFriendsAcrossBlocks
  BY DEF SocialInv, PilotsInv
<1>. QED  BY <1>1, Inductive, PTL

\* Every device and platform identity that leads anywhere leads to a profile,
\* through any chain of merges.
THEOREM LinksHold == Spec => []LinksResolve
<1>1. SocialInv => LinksResolve
  BY DEF SocialInv, PilotsInv
<1>. QED  BY <1>1, Inductive, PTL

\* Whoever has the owner's role is the owner on record, after any chain of
\* successions, kicks and role changes.
THEOREM OwnersHold == Spec => []OwnersMatch
<1>1. SocialInv => OwnersMatch
  BY DEF SocialInv, SquadsInv, SquadOK, OwnerOK, OwnersMatch, Owns, Role
<1>. QED  BY <1>1, Inductive, PTL

\* The weekly goal has counted every verified run of its week, and none of
\* another, whenever the week turned and whoever looked.
THEOREM GoalsHold == Spec => []GoalCountsItsWeek
<1>1. SocialInv => GoalCountsItsWeek
  BY DEF SocialInv, SquadsInv, SquadOK, GoalOK, OfGoalWeek, Limited, GoalCountsItsWeek
<1>. QED  BY <1>1, Inductive, PTL

\* A run stands in one row of the board or is the best of one entry of one
\* cup, and in no other place.
THEOREM RunsHold == Spec => []RunsCountOnce
<1>1. SocialInv => RunsCountOnce
  BY RunsCount DEF SocialInv
<1>. QED  BY <1>1, Inductive, PTL

\* A pilot is granted one tier of a cup for one best, by claim or distribution.
THEOREM PrizesHold == Spec => []OneTierPerBest
<1>1. SocialInv => OneTierPerBest
  BY DEF SocialInv, CupsInv, LedgerOK, OneTierPerBest
<1>. QED  BY <1>1, Inductive, PTL

(***************************************************************************)
(* Requests, finished cups and blocked joiners.                            *)
(***************************************************************************)

\* A request is sent only between two pilots who have none pending, whatever
\* lapsed ones the same handler drops.
LEMMA RequestsGrow ==
  ASSUME [Next]_vars
  PROVE  \/ requests' \subseteq requests
         \/ \E p, q : /\ ~PendingBetween(p, q)
                      /\ requests' \subseteq requests \cup {[from |-> p, to |-> q, at |-> day]}
<1>. DEFINE Grown == \E p, q : /\ ~PendingBetween(p, q)
                               /\ requests' \subseteq requests \cup {[from |-> p, to |-> q, at |-> day]}
<1>1. ASSUME NEW p, NEW q, NEW L, Send(p, q, L)
      PROVE  Grown
  BY <1>1 DEF Send
<1>2. CASE Befriend
  <2>1. CASE \E p \in born, q \in Ids : SendRequest(p, q) \/ AddFriend(p, q)
    <3>1. PICK p \in born, q \in Ids : SendRequest(p, q) \/ AddFriend(p, q)
      BY <2>1
    <3>2. \/ \E L : Send(p, q, L)
          \/ requests' \subseteq requests
      BY <3>1 DEF SendRequest, AddFriend
    <3>. HIDE DEF Grown
    <3>3. Grown \/ requests' \subseteq requests
      BY <1>1, <3>2
    <3>. QED  BY <3>3 DEF Grown
  <2>2. CASE ~ \E p \in born, q \in Ids : SendRequest(p, q) \/ AddFriend(p, q)
    <3>1. requests' \subseteq requests
      BY <1>2, <2>2 DEF Befriend, Block, Unblock, RemoveFriend, Respond, CancelRequest
    <3>. QED  BY <3>1
  <2>. QED  BY <2>1, <2>2
<1>3. CASE ~Befriend
  <2>1. requests' \subseteq requests
    BY <1>3 DEF Next, vars, pilotVars, pilotsOnly, People, CreateGuest, Upgrade, MergeDevice,
                ListPending, UpdatePrivacy, Moderate, Look, Flag, Resolve, Post, NewDay
  <2>. QED  BY <2>1
<1>. QED  BY <1>2, <1>3

\* Two pilots never have two requests pending between them, whoever asked
\* whom and through whichever route.
THEOREM OneRequestHolds == Spec => []OneRequestBetween
<1>1. Init => OneRequestBetween
  BY DEF Init, PilotsInit, OneRequestBetween
<1>2. OneRequestBetween /\ [Next]_vars => OneRequestBetween'
  <2>. SUFFICES ASSUME OneRequestBetween, [Next]_vars,
                       NEW r \in requests', NEW s \in requests', {r.from, r.to} = {s.from, s.to}
                PROVE  r = s
    BY DEF OneRequestBetween
  <2>1. CASE r \in requests /\ s \in requests
    BY <2>1 DEF OneRequestBetween
  <2>2. CASE r \notin requests \/ s \notin requests
    <3>1. PICK p, q : /\ ~PendingBetween(p, q)
                      /\ requests' \subseteq requests \cup {[from |-> p, to |-> q, at |-> day]}
      BY <2>2, RequestsGrow
    <3>. DEFINE new == [from |-> p, to |-> q, at |-> day]
    <3>2. new.from = p /\ new.to = q
      OBVIOUS
    <3>3. r \in requests \/ r = new
      BY <3>1
    <3>4. s \in requests \/ s = new
      BY <3>1
    <3>. HIDE DEF new
    <3>5. \A x \in requests : {x.from, x.to} # {p, q}
      BY <3>1 DEF PendingBetween
    <3>. QED  BY <2>2, <3>2, <3>3, <3>4, <3>5
  <2>. QED  BY <2>1, <2>2
<1>. QED  BY <1>1, <1>2, PTL DEF Spec

(***************************************************************************)
(* Finished cups.                                                          *)
(***************************************************************************)

\* A cup that is finished has the standings that its entries give.
Settled(q) == q.phase = "finished" => q.standings = Standings(q)

\* Prizes change no best and no standings.
LEMMA PaidSettled ==
  ASSUME NEW q \in Cup, Settled(q), NEW due, NEW handed
  PROVE  Settled(Paid(q, due, handed))
<1>. DEFINE P == DOMAIN q.entries
            f == [p \in P |-> IF \E d \in due : d[1] = p THEN Banked(q.entries[p]) ELSE q.entries[p]]
            G == Grants(q, due, handed)
            r == [q EXCEPT !.ledger = q.ledger \cup G, !.entries = f]
<1>1. q.entries \in [P -> EntryRow]
  <2>1. q.entries \in EntryMaps
    BY DEF Cup
  <2>. QED  BY <2>1, EntriesAre
<1>2. \A p \in P : Banked(q.entries[p]).best = q.entries[p].best
  BY <1>1 DEF Banked, EntryRow
<1>3. DOMAIN f = P /\ \A p \in P : f[p].best = q.entries[p].best
  BY <1>2
<1>4. Paid(q, due, handed) = r
  BY DEF Paid
<1>. HIDE DEF f, G
<1>5. r.entries = f /\ r.phase = q.phase /\ r.standings = q.standings
  BY DEF Cup
<1>. HIDE DEF r
<1>6. Standings(r) = Standings(q)
  BY <1>3, <1>5 DEF Standings
<1>. QED  BY <1>4, <1>5, <1>6 DEF Settled

\* One cup changes and is settled, or not finished.
LEMMA SetCupSettled ==
  ASSUME StandingsAreFinal, NEW c, NEW q, SetCup(c, q), Settled(q)
  PROVE  StandingsAreFinal'
<1>1. DOMAIN cups' = DOMAIN cups
  BY DEF SetCup
<1>2. \A d \in DOMAIN cups : cups'[d] = IF d = c THEN q ELSE cups[d]
  BY DEF SetCup
<1>3. \A d \in DOMAIN cups : Settled(cups'[d])
  BY <1>2 DEF StandingsAreFinal, Settled
<1>4. StandingsAreFinal' <=> \A d \in DOMAIN cups' : Settled(cups'[d])
  BY DEF StandingsAreFinal, Settled, Standings
<1>. QED  BY <1>1, <1>3, <1>4

\* What the organisers do: only the end of a cup makes it finished, with the
\* standings of that moment.
LEMMA OrganiseSettled ==
  ASSUME CupsInv, StandingsAreFinal, Organise
  PROVE  StandingsAreFinal'
<1>1. \A c \in DOMAIN cups : cups[c] \in Cup /\ Settled(cups[c])
  BY DEF CupsInv, StandingsAreFinal, Settled
<1>2. ASSUME NEW c \in DOMAIN cups, Finish(c)
      PROVE  StandingsAreFinal'
  <2>. DEFINE q == cups[c]
              S == Standings(q)
              r == [q EXCEPT !.phase = "finished", !.standings = S]
  <2>1. SetCup(c, r)
    BY <1>2 DEF Finish
  <2>2. q \in Cup
    BY <1>1
  <2>3. r.entries = q.entries /\ r.standings = S
    <3>. HIDE DEF S, q
    <3>. QED  BY <2>2 DEF Cup
  <2>. HIDE DEF r
  <2>4. Settled(r)
    BY <2>3 DEF Settled, Standings
  <2>. QED  BY <2>1, <2>4, SetCupSettled
<1>3. ASSUME NEW opens, CreateCup(opens)
      PROVE  StandingsAreFinal'
  <2>. DEFINE e == [phase |-> "registration", opens |-> opens, entries |-> <<>>, ledger |-> {}, standings |-> {}]
              n == 1 + Cardinality(DOMAIN cups)
  <2>1. cups' = [d \in DOMAIN cups \cup {n} |-> IF d = n THEN e ELSE cups[d]]
    BY <1>3 DEF CreateCup, Extend
  <2>2. e.phase = "registration"
    OBVIOUS
  <2>. HIDE DEF e, n
  <2>3. \A d \in DOMAIN cups' : Settled(cups'[d])
    BY <1>1, <2>1, <2>2 DEF Settled
  <2>4. StandingsAreFinal' <=> \A d \in DOMAIN cups' : Settled(cups'[d])
    BY DEF StandingsAreFinal, Settled, Standings
  <2>. QED  BY <2>3, <2>4
<1>4. ASSUME NEW c \in DOMAIN cups, CloseRegistration(c) \/ Cancel(c)
      PROVE  StandingsAreFinal'
  <2>1. PICK ph \in {"active", "canceled"} : SetCup(c, [cups[c] EXCEPT !.phase = ph])
    BY <1>4 DEF CloseRegistration, Cancel
  <2>2. [cups[c] EXCEPT !.phase = ph].phase = ph
    BY <1>1 DEF Cup
  <2>3. Settled([cups[c] EXCEPT !.phase = ph])
    BY <2>2 DEF Settled
  <2>. QED  BY <2>1, <2>3, SetCupSettled
<1>5. ASSUME NEW c \in DOMAIN cups, NEW due, NEW handed, SetCup(c, Paid(cups[c], due, handed))
      PROVE  StandingsAreFinal'
  BY <1>1, <1>5, PaidSettled, SetCupSettled
<1>6. ASSUME NEW c \in DOMAIN cups, Distribute(c) \/ \E p \in born : ClaimReward(c, p)
      PROVE  StandingsAreFinal'
  BY <1>5, <1>6 DEF Distribute, ClaimReward
<1>. QED  BY <1>2, <1>3, <1>4, <1>6 DEF Organise, Start

\* Entries and results come before the end.
LEMMA CompeteSettled ==
  ASSUME CupsInv, StandingsAreFinal, Compete
  PROVE  StandingsAreFinal'
<1>1. PICK c, f : /\ c \in DOMAIN cups /\ cups[c].phase # "finished"
                  /\ SetCup(c, [cups[c] EXCEPT !.entries = f])
  BY DEF Compete, Register, SubmitResult, TakesResults
<1>2. [cups[c] EXCEPT !.entries = f].phase = cups[c].phase
  BY <1>1 DEF CupsInv, Cup
<1>3. Settled([cups[c] EXCEPT !.entries = f])
  BY <1>1, <1>2 DEF Settled
<1>. QED  BY <1>1, <1>3, SetCupSettled

\* A cup that is finished keeps the standings it was finished with: what is
\* claimed, distributed or handed in afterwards moves nobody.
THEOREM StandingsHold == Spec => []StandingsAreFinal
<1>1. Init => StandingsAreFinal
  BY NoneAre DEF Init, CupsInit, StandingsAreFinal
<1>2. SocialInv /\ StandingsAreFinal /\ [Next]_vars => StandingsAreFinal'
  <2>. SUFFICES ASSUME CupsInv, StandingsAreFinal, [Next]_vars
                PROVE  StandingsAreFinal'
    BY DEF SocialInv
  <2>1. CASE UNCHANGED cups
    BY <2>1 DEF StandingsAreFinal, Standings
  <2>2. CASE ~UNCHANGED cups
    <3>1. Organise \/ Compete
      BY <2>2 DEF Next, vars, cupVars, Post, Submit, SubmitLegacy, RollBack, NewDay
    <3>. QED  BY <3>1, OrganiseSettled, CompeteSettled
  <2>. QED  BY <2>1, <2>2
<1>. QED  BY <1>1, <1>2, Inductive, PTL DEF Spec

(***************************************************************************)
(* Blocked joiners.                                                        *)
(***************************************************************************)

\* Nobody who is blocked waits for an admin's answer.
Apart(q) == q.pending \cap q.blocked = {}

BlockedDoNotWait == \A s \in DOMAIN squads : Apart(squads[s])

\* From one record of a squad to the next: nobody blocked waits or got in.
Guarded(q, r) == Apart(r) /\ DOMAIN r.members \cap q.blocked \subseteq DOMAIN q.members

\* A change that lets nobody in and leaves requests and blocks alone.
LEMMA GuardedBySize ==
  ASSUME NEW q, NEW r, Apart(q), r.pending = q.pending, r.blocked = q.blocked,
         DOMAIN r.members \subseteq DOMAIN q.members
  PROVE  Guarded(q, r)
BY DEF Guarded, Apart

\* The members' records are replaced.
LEMMA MembersReplaced ==
  ASSUME NEW q \in Squad, NEW m
  PROVE  LET r == [q EXCEPT !.members = m]
         IN  r.members = m /\ r.pending = q.pending /\ r.blocked = q.blocked
BY DEF Squad

\* Whoever joins is not blocked.
LEMMA WithGuarded ==
  ASSUME NEW q \in Squad, Apart(q), NEW p, p \notin q.blocked, NEW role
  PROVE  Guarded(q, With(q, p, role))
<1>. DEFINE m == [x \in DOMAIN q.members \cup {p} |-> IF x = p THEN Seat(role) ELSE q.members[x]]
<1>1. With(q, p, role) = [q EXCEPT !.members = m] /\ DOMAIN m = DOMAIN q.members \cup {p}
  BY DEF With
<1>. HIDE DEF m
<1>. QED  BY <1>1, MembersReplaced DEF Guarded, Apart

\* Who leaves, is seen or gets a role lets nobody in.
LEMMA InsideGuarded ==
  ASSUME NEW q \in Squad, Apart(q), NEW p
  PROVE  /\ \A P : Guarded(q, Without(q, P))
         /\ Guarded(q, Seen(q, p))
         /\ \A role, until : Guarded(q, [q EXCEPT !.members[p].role = role, !.members[p].until = until])
<1>1. ASSUME NEW m, DOMAIN m \subseteq DOMAIN q.members
      PROVE  Guarded(q, [q EXCEPT !.members = m])
  <2>. DEFINE r == [q EXCEPT !.members = m]
  <2>1. r.members = m /\ r.pending = q.pending /\ r.blocked = q.blocked
    BY MembersReplaced
  <2>. HIDE DEF r
  <2>2. Guarded(q, r)
    BY <1>1, <2>1, GuardedBySize
  <2>. QED  BY <2>2 DEF r
<1>2. ASSUME NEW P
      PROVE  Guarded(q, Without(q, P))
  <2>1. DOMAIN Restrict(q.members, DOMAIN q.members \ P) \subseteq DOMAIN q.members
    BY DEF Restrict
  <2>. QED  BY <1>1, <2>1 DEF Without
<1>3. ASSUME NEW x
      PROVE  Guarded(q, [q EXCEPT !.members = [q.members EXCEPT ![p] = x]])
  <2>1. DOMAIN [q.members EXCEPT ![p] = x] \subseteq DOMAIN q.members
    OBVIOUS
  <2>. QED  BY <1>1, <2>1
<1>4. Guarded(q, Seen(q, p))
  <2>1. Seen(q, p) = [q EXCEPT !.members = [q.members EXCEPT ![p] = [q.members[p] EXCEPT !.seen = day]]]
    BY DEF Seen
  <2>. QED  BY <1>3, <2>1
<1>5. ASSUME NEW role, NEW until
      PROVE  Guarded(q, [q EXCEPT !.members[p].role = role, !.members[p].until = until])
  <2>1. [q EXCEPT !.members[p].role = role, !.members[p].until = until]
          = [q EXCEPT !.members = [q.members EXCEPT ![p] = [q.members[p] EXCEPT !.role = role, !.until = until]]]
    OBVIOUS
  <2>. QED  BY <1>3, <2>1
<1>. QED  BY <1>2, <1>4, <1>5

\* Nor does the timer: the end of a probation, or another owner.
LEMMA SweptGuarded ==
  ASSUME NEW q, NEW d, SquadOK(q, d), Apart(q), NEW p \in Heirs(Graduated(q))
  PROVE  Guarded(q, Crowned(Graduated(q), p))
<1>. DEFINE g == Graduated(q)
            c == Crowned(g, p)
<1>1. q \in Squad /\ g \in Squad
  BY GraduatedKeeps DEF SquadOK
<1>2. g.pending = q.pending /\ g.blocked = q.blocked
  <2>. DEFINE m == g.members
  <2>1. g = [q EXCEPT !.members = m]
    <3>1. PICK x : g = [q EXCEPT !.members = x]
      BY DEF Graduated
    <3>2. x = m
      BY <1>1, <3>1, MembersReplaced
    <3>. QED  BY <3>1, <3>2
  <2>. HIDE DEF m, g
  <2>. QED  BY <1>1, <2>1, MembersReplaced
<1>3. DOMAIN g.members = DOMAIN q.members
  BY GraduatedKeeps
<1>. HIDE DEF g
<1>4. c.pending = g.pending /\ c.blocked = g.blocked /\ DOMAIN c.members = DOMAIN g.members
  BY <1>1 DEF Crowned, Squad
<1>. HIDE DEF c
<1>5. Guarded(q, c)
  BY <1>2, <1>3, <1>4, GuardedBySize
<1>. QED  BY <1>5 DEF g, c

\* Nor do the goals.
LEMMA GoalGuarded ==
  ASSUME NEW q \in Squad, Apart(q), NEW p, NEW run
  PROVE  /\ \A g : Guarded(q, [q EXCEPT !.goal = g])
         /\ Guarded(q, Added(q, p, run))
<1>1. ASSUME NEW g
      PROVE  Guarded(q, [q EXCEPT !.goal = g])
  <2>1. LET r == [q EXCEPT !.goal = g]
        IN  r.members = q.members /\ r.pending = q.pending /\ r.blocked = q.blocked
    BY DEF Squad
  <2>. QED  BY <2>1, GuardedBySize
<1>2. Guarded(q, Added(q, p, run))
  <2>. DEFINE s == Seen(q, p)
              a == Added(q, p, run)
  <2>1. s = [q EXCEPT !.members = [q.members EXCEPT ![p] = [q.members[p] EXCEPT !.seen = day]]]
    BY DEF Seen
  <2>2. /\ s.pending = q.pending /\ s.blocked = q.blocked /\ DOMAIN s.members = DOMAIN q.members
        /\ DOMAIN s = DOMAIN q
    BY <2>1 DEF Squad
  <2>. HIDE DEF s
  <2>3. PICK k, g : a = [s EXCEPT !.counted = k, !.goal = g]
    BY DEF Added, s
  <2>. HIDE DEF a
  <2>4. a.pending = s.pending /\ a.blocked = s.blocked /\ a.members = s.members
    BY <2>2, <2>3 DEF Squad
  <2>5. Guarded(q, a)
    BY <2>2, <2>4, GuardedBySize
  <2>. QED  BY <2>5 DEF a
<1>. QED  BY <1>1, <1>2

\* What the property asks of a step, and that it can go on.
SquadsGuarded ==
  /\ \A s \in DOMAIN squads' : Apart(squads'[s])
  /\ \A s \in DOMAIN squads \cap DOMAIN squads' : Guarded(squads[s], squads'[s])

\* One squad's record changes, and its step is guarded.
LEMMA UpdateGuarded ==
  ASSUME BlockedDoNotWait, NEW s, NEW q, Update(s, q), s \in DOMAIN squads => Guarded(squads[s], q)
  PROVE  SquadsGuarded
<1>1. DOMAIN squads' = DOMAIN squads
  BY DEF Update
<1>2. \A t \in DOMAIN squads : squads'[t] = IF t = s THEN q ELSE squads[t]
  BY DEF Update
<1>3. ASSUME NEW t \in DOMAIN squads
      PROVE  Guarded(squads[t], squads'[t])
  BY <1>2, GuardedBySize DEF BlockedDoNotWait
<1>. QED  BY <1>1, <1>3 DEF SquadsGuarded, Guarded

\* Founding and leaving.
LEMMA FoundGuarded ==
  ASSUME SquadsInv, BlockedDoNotWait, Found
  PROVE  SquadsGuarded
<1>1. \A s \in DOMAIN squads : squads[s] \in Squad /\ Apart(squads[s]) /\ Guarded(squads[s], squads[s])
  BY GuardedBySize DEF SquadsInv, BlockedDoNotWait
<1>2. ASSUME NEW p, NEW kind, Create(p, kind)
      PROVE  SquadsGuarded
  <2>. DEFINE e == [kind |-> kind, ownerId |-> p, members |-> <<>>, pending |-> {}, blocked |-> {},
                    goal |-> [week |-> Week(day), progress |-> 0, claimed |-> FALSE], counted |-> <<>>]
              new == With(e, p, "owner")
              D == DOMAIN squads
              k == founded + 1
  <2>1. squads' = [s \in D \cup {k} |-> IF s \in D THEN squads[s] ELSE new]
    BY <1>2 DEF Create
  <2>2. new.pending = {}
    BY DEF With
  <2>. HIDE DEF new, k
  <2>3. Apart(new)
    BY <2>2 DEF Apart
  <2>. QED  BY <1>1, <2>1, <2>3 DEF SquadsGuarded
<1>3. ASSUME NEW p, LeaveAll(p)
      PROVE  SquadsGuarded
  <2>. DEFINE owned == {s \in SquadsOf(p) : Owns(p, s)}
              left  == {s \in SquadsOf(p) : \A o \in owned : s < o}
  <2>1. squads' = [s \in DOMAIN squads |-> IF s \in left THEN Without(squads[s], {p}) ELSE squads[s]]
    BY <1>3 DEF LeaveAll
  <2>. HIDE DEF left
  <2>2. \A s \in DOMAIN squads : Guarded(squads[s], Without(squads[s], {p}))
    BY <1>1, InsideGuarded
  <2>3. \A s \in DOMAIN squads : Guarded(squads[s], squads'[s])
    BY <1>1, <2>1, <2>2
  <2>. QED  BY <2>1, <2>3 DEF SquadsGuarded, Guarded
<1>. QED  BY <1>2, <1>3 DEF Found

\* Joining, and what admins do about it: who joins, or is approved, is not blocked.
LEMMA SocialiseGuarded ==
  ASSUME SquadsInv, BlockedDoNotWait, Socialise
  PROVE  SquadsGuarded
<1>1. \A s \in DOMAIN squads : squads[s] \in Squad /\ Apart(squads[s]) /\ Guarded(squads[s], squads[s])
  BY GuardedBySize DEF SquadsInv, BlockedDoNotWait
<1>2. ASSUME NEW s \in DOMAIN squads, NEW P, NEW B, P \cap B = {}
      PROVE  /\ squads[s].blocked = B => Guarded(squads[s], [squads[s] EXCEPT !.pending = P])
             /\ squads[s].pending = P => Guarded(squads[s], [squads[s] EXCEPT !.blocked = B])
             /\ Guarded(squads[s], [squads[s] EXCEPT !.blocked = B, !.pending = P])
  BY <1>1, <1>2 DEF Guarded, Apart, Squad
<1>3. ASSUME NEW p, NEW s \in DOMAIN squads, Join(p, s)
      PROVE  SquadsGuarded
  <2>. DEFINE q == squads[s]
              P == q.pending \cup {p}
  <2>1. q.kind \in {"public", "invite", "private"} /\ p \notin q.blocked /\ Apart(q) /\ q \in Squad
    BY <1>1, <1>3 DEF Join, Squad
  <2>2. Guarded(q, With(q, p, "member")) /\ Guarded(q, With(q, p, "probation"))
    BY <2>1, WithGuarded
  <2>3. Guarded(q, [q EXCEPT !.pending = P])
    <3>1. P \cap q.blocked = {}
      BY <2>1 DEF Apart
    <3>. HIDE DEF P
    <3>. QED  BY <1>2, <3>1
  <2>4. \/ Update(s, With(q, p, "member")) \/ Update(s, With(q, p, "probation"))
        \/ Update(s, [q EXCEPT !.pending = P])
    BY <1>3, <2>1 DEF Join
  <2>. HIDE DEF P
  <2>. QED  BY <2>2, <2>3, <2>4, UpdateGuarded
<1>4. ASSUME NEW a, NEW s \in DOMAIN squads, NEW p, Approve(a, s, p)
      PROVE  SquadsGuarded
  <2>. DEFINE q == squads[s]
              P == q.pending \ {p}
              r == [q EXCEPT !.pending = P]
  <2>1. p \in q.pending /\ p \notin q.blocked /\ q \in Squad /\ q.pending \cap q.blocked = {}
    BY <1>1, <1>4 DEF Approve, Apart
  <2>2. q.members \in MemberMaps /\ P \in SUBSET Ids
    BY <2>1 DEF Squad
  <2>3. /\ r \in Squad /\ r.pending = P /\ r.blocked = q.blocked /\ r.members = q.members
    BY <2>1, <2>2 DEF Squad
  <2>4. Update(s, With(r, p, "probation"))
    BY <1>4 DEF Approve
  <2>. HIDE DEF r
  <2>5. Apart(r)
    BY <2>1, <2>3 DEF Apart
  <2>6. Guarded(r, With(r, p, "probation"))
    BY <2>1, <2>3, <2>5, WithGuarded
  <2>7. Guarded(q, With(r, p, "probation"))
    BY <2>3, <2>6 DEF Guarded
  <2>. QED  BY <2>4, <2>7, UpdateGuarded
<1>5. ASSUME NEW a, NEW s \in DOMAIN squads, NEW p,
             Reject(a, s, p) \/ BlockJoiner(a, s, p) \/ UnblockJoiner(a, s, p)
      PROVE  SquadsGuarded
  <2>. DEFINE P == squads[s].pending \ {p}
              B == squads[s].blocked \cup {p}
              C == squads[s].blocked \ {p}
  <2>1. squads[s].pending \cap squads[s].blocked = {}
    BY <1>1 DEF Apart
  <2>2. \/ Update(s, [squads[s] EXCEPT !.pending = P])
        \/ Update(s, [squads[s] EXCEPT !.blocked = B, !.pending = P])
        \/ Update(s, [squads[s] EXCEPT !.blocked = C])
    BY <1>5 DEF Reject, BlockJoiner, UnblockJoiner
  <2>3. P \cap squads[s].blocked = {} /\ P \cap B = {} /\ squads[s].pending \cap C = {}
    BY <2>1
  <2>. HIDE DEF P, B, C
  <2>4. /\ Guarded(squads[s], [squads[s] EXCEPT !.pending = P])
        /\ Guarded(squads[s], [squads[s] EXCEPT !.blocked = B, !.pending = P])
        /\ Guarded(squads[s], [squads[s] EXCEPT !.blocked = C])
    BY <1>2, <2>3
  <2>. QED  BY <2>2, <2>4, UpdateGuarded
<1>6. ASSUME NEW a, NEW s \in DOMAIN squads, NEW p, Leave(a, s) \/ Kick(a, s, p)
      PROVE  SquadsGuarded
  <2>1. PICK P : Update(s, Without(squads[s], P))
    BY <1>6 DEF Leave, Kick
  <2>. QED  BY <1>1, <2>1, InsideGuarded, UpdateGuarded
<1>7. ASSUME NEW s \in DOMAIN squads, Disbanded(s)
      PROVE  SquadsGuarded
  <2>1. squads' = [t \in DOMAIN squads \ {s} |-> squads[t]]
    BY <1>7 DEF Disbanded, Restrict
  <2>. QED  BY <1>1, <2>1 DEF SquadsGuarded
<1>. QED  BY <1>3, <1>4, <1>5, <1>6, <1>7 DEF Socialise, Disband, DisbandByModerator

\* Roles, shouts, the timer, goals and counted runs.
LEMMA OthersGuarded ==
  ASSUME SquadsInv, BlockedDoNotWait,
         Govern \/ Aim \/ (\E p, run : RecordContribution(p, run)) \/ UNCHANGED squads
  PROVE  SquadsGuarded
<1>1. \A s \in DOMAIN squads : squads[s] \in Squad /\ Apart(squads[s]) /\ Guarded(squads[s], squads[s])
  BY GuardedBySize DEF SquadsInv, BlockedDoNotWait
<1>2. CASE UNCHANGED squads
  BY <1>1, <1>2 DEF SquadsGuarded
<1>3. ASSUME NEW s, \/ \E p : Update(s, Seen(squads[s], p))
                    \/ \E p, role, until :
                         Update(s, [squads[s] EXCEPT !.members[p].role = role, !.members[p].until = until])
                    \/ \E g : Update(s, [squads[s] EXCEPT !.goal = g])
                    \/ \E p, run : Update(s, Added(squads[s], p, run))
      PROVE  SquadsGuarded
  BY <1>1, <1>3, InsideGuarded, GoalGuarded, UpdateGuarded
<1>4. ASSUME NEW a, NEW s, NEW p, NEW role, SetRole(a, s, p, role)
      PROVE  SquadsGuarded
  <2>. DEFINE until == Seat(role).until
  <2>1. Update(s, [squads[s] EXCEPT !.members[p].role = role, !.members[p].until = until])
    BY <1>4 DEF SetRole
  <2>. HIDE DEF until
  <2>. QED  BY <1>3, <2>1
<1>5. ASSUME NEW p, NEW s, Shout(p, s)
      PROVE  SquadsGuarded
  BY <1>3, <1>5 DEF Shout
<1>6. CASE Housekeeping
  <2>. DEFINE swept == [s \in DOMAIN squads |-> Graduated(squads[s])]
  <2>1. PICK heir \in [DOMAIN squads -> Ids] :
          /\ \A s \in DOMAIN squads : heir[s] \in Heirs(swept[s])
          /\ squads' = [s \in DOMAIN squads |-> Crowned(swept[s], heir[s])]
    BY <1>6 DEF Housekeeping
  <2>2. \A s \in DOMAIN squads : swept[s] = Graduated(squads[s])
    OBVIOUS
  <2>. HIDE DEF swept
  <2>3. \A s \in DOMAIN squads : Guarded(squads[s], squads'[s])
    BY <1>1, <2>1, <2>2, SweptGuarded DEF SquadsInv
  <2>. QED  BY <2>1, <2>3 DEF SquadsGuarded, Guarded
<1>7. CASE Aim
  <2>1. PICK s \in DOMAIN squads : \E g : Update(s, [squads[s] EXCEPT !.goal = g])
    BY <1>7 DEF Aim, ViewGoal, ClaimGoal
  <2>. QED  BY <1>3, <2>1
<1>8. ASSUME NEW p, NEW run, RecordContribution(p, run)
      PROVE  SquadsGuarded
  BY <1>2, <1>3, <1>8 DEF RecordContribution, squadVars
<1>. QED  BY <1>2, <1>4, <1>5, <1>6, <1>7, <1>8 DEF Govern

\* Every step of the service is guarded.
LEMMA StepsGuarded ==
  ASSUME SocialInv, BlockedDoNotWait, [Next]_vars
  PROVE  SquadsGuarded
<1>1. SquadsInv
  BY DEF SocialInv
<1>2. CASE UNCHANGED squads
  BY <1>1, <1>2, OthersGuarded
<1>3. CASE ~UNCHANGED squads
  <2>1. \/ Found \/ Socialise \/ Govern \/ Aim
        \/ \E p, run : RecordContribution(p, run)
    <3>1. CASE Plays("clubs") /\ \E p \in born : Create(p, "public") \/ \E s \in DOMAIN squads : Join(p, s)
      BY <3>1 DEF Found, Socialise
    <3>2. Clubs \/ Post
      BY <1>3 DEF Next, vars, squadVars, NewDay
    <3>3. CASE Post
      BY <1>3, <3>3 DEF Post, Submit, SubmitLegacy, squadVars
    <3>. QED  BY <3>1, <3>2, <3>3 DEF Clubs
  <2>. QED  BY <1>1, <2>1, FoundGuarded, SocialiseGuarded, OthersGuarded
<1>. QED  BY <1>2, <1>3

\* A pilot the admins blocked does not become a member, by any door: not by
\* joining, and not by the approval of a request he sent before the block.
THEOREM BlockedStayOutHolds == Spec => BlockedStayOut
<1>1. Init => BlockedDoNotWait
  BY NoneAre DEF Init, SquadsInit, BlockedDoNotWait
<1>2. SocialInv /\ BlockedDoNotWait /\ [Next]_vars => BlockedDoNotWait'
  BY StepsGuarded DEF SquadsGuarded, BlockedDoNotWait, Apart
<1>. DEFINE A == \A s \in DOMAIN squads \cap DOMAIN squads' :
                   DOMAIN squads'[s].members \cap squads[s].blocked \subseteq DOMAIN squads[s].members
<1>3. SocialInv /\ BlockedDoNotWait /\ [Next]_vars => [A]_<<day, squadVars>>
  BY StepsGuarded DEF SquadsGuarded, Guarded
<1>4. BlockedStayOut <=> [][A]_<<day, squadVars>>
  BY DEF BlockedStayOut
<1>. HIDE DEF A
<1>. QED  BY <1>1, <1>2, <1>3, <1>4, Inductive, PTL DEF Spec
=============================================================================
