------------------------------- MODULE Pilots -------------------------------
(***************************************************************************)
(* The pilots of the Node service: IdentityService (guests, devices,       *)
(* platform accounts and their merges, suspensions and mutes),             *)
(* FriendsService and the case queue of ModerationService.                 *)
(*                                                                         *)
(* The server answers one request at a time, from any session token it     *)
(* ever signed: the pilot of a token may have been merged away meanwhile.  *)
(* Penalties and friend requests run out by the clock, but only when a     *)
(* handler looks.  A refused request changes nothing except the lapses it  *)
(* saw, which are the steps Look and ListPending.                          *)
(***************************************************************************)
EXTENDS Naturals, Sequences, FiniteSetsExt, Functions

CONSTANTS
    Ids,         \* player ids that can be handed out
    Devices, Accounts,  \* device ids, platform identities
    MaxDay,      \* bound: days
    RequestTtl,  \* REQUEST_TTL_MS in days
    MaxPending,  \* MAX_PENDING_INCOMING
    MaxCases     \* the cases flag() keeps

None == "none"

ASSUME PilotsAssumption ==
    /\ MaxDay \in Nat /\ RequestTtl \in Nat
    /\ MaxPending \in Nat \ {0} /\ MaxCases \in Nat \ {0}
    /\ None \notin Ids

VARIABLES
    day,
    born,        \* ids handed out
    profiles,    \* profiles by id
    guestLinks, platformLinks,   \* device or platform identity -> id
    blocks,      \* <<who blocked, whom>>
    friendships, \* pairs
    requests,    \* friend requests that are still "pending"
    cases        \* the moderation cases, oldest first

pilotVars == <<born, profiles, guestLinks, platformLinks, blocks, friendships, requests, cases>>

Live == DOMAIN profiles

PilotsTypeOK ==
    /\ day \in 0..MaxDay /\ born \subseteq Ids /\ Live \subseteq born
    /\ \A p \in Live : profiles[p] \in [guest : BOOLEAN, asks : BOOLEAN,
                                        status : {"clear", "muted", "suspended"}, until : Nat]
    /\ guestLinks \in [Devices -> Ids \cup {None}] /\ platformLinks \in [Accounts -> Ids \cup {None}]
    /\ blocks \subseteq Ids \X Ids /\ friendships \subseteq kSubset(2, Ids)
    /\ requests \subseteq [from : Ids, to : Ids, at : 0..MaxDay]
    /\ \A i \in DOMAIN cases : cases[i] \in [target : Ids \cup {None}, open : BOOLEAN]

Fresh == [guest |-> TRUE, asks |-> TRUE, status |-> "clear", until |-> 0]

\* the pilots that are there already hold a token and no device
PilotsInit ==
    /\ day = 0 /\ born \in SUBSET Ids /\ profiles = [p \in born |-> Fresh]
    /\ guestLinks = [d \in Devices |-> None] /\ platformLinks = [a \in Accounts |-> None]
    /\ blocks = {} /\ friendships = {} /\ requests = {} /\ cases = <<>>

-----------------------------------------------------------------------------
(* Lapses.                                                                 *)

Lapsed(p) == profiles[p].status # "clear" /\ day >= profiles[p].until

\* expireTemporary, on the profiles of P
Healed(P) == [p \in Live |-> IF p \in P /\ Lapsed(p)
                             THEN [profiles[p] EXCEPT !.status = "clear", !.until = 0] ELSE profiles[p]]

\* isSuspended: an id without a profile is suspended too
Suspended(p) == p \notin Live \/ (profiles[p].status = "suspended" /\ ~Lapsed(p))

\* me, publicView, isMuted, a handler that gives up
Look(p) == /\ p \in Live /\ Lapsed(p) /\ profiles' = Healed({p})
           /\ UNCHANGED <<day, born, guestLinks, platformLinks, blocks, friendships, requests, cases>>

-----------------------------------------------------------------------------
(* Identity.                                                               *)

CreateGuest(d) ==
    /\ guestLinks[d] \notin Live
    /\ \E p \in Ids \ born :
         /\ born' = born \cup {p} /\ guestLinks' = [guestLinks EXCEPT ![d] = p]
         /\ profiles' = [q \in Live \cup {p} |-> IF q = p THEN Fresh ELSE profiles[q]]
    /\ UNCHANGED <<day, platformLinks, blocks, friendships, requests, cases>>

\* (mutant) a merged device keeps pointing at the profile that is gone
RelinkedNot(from, into) == guestLinks
\* the devices of the merged pilot
Relinked(from, into) == [d \in Devices |-> IF guestLinks[d] = from THEN into ELSE guestLinks[d]]

\* a guest is merged away; an account stays
Absorbed(f, from) == IF f[from].guest THEN Restrict(f, Live \ {from}) ELSE f

\* upgrade: the account that the platform identity has wins over a guest, not over an account
Upgrade(p, a) ==
    /\ p \in Live /\ profiles[p].status # "suspended"
    /\ LET other    == platformLinks[a]
           merge    == other \in Live \ {p}
           survivor == IF merge /\ profiles[p].guest THEN other ELSE p
           donor    == IF survivor = p THEN other ELSE p
           upgraded == [profiles EXCEPT ![survivor].guest = FALSE]
       IN  /\ platformLinks' = [platformLinks EXCEPT ![a] = survivor]
           /\ guestLinks' = IF merge THEN Relinked(donor, survivor) ELSE guestLinks
           /\ profiles' = IF merge THEN Absorbed(upgraded, donor) ELSE upgraded
    /\ UNCHANGED <<day, born, blocks, friendships, requests, cases>>

\* mergeDeviceInto, after byCode looked at the account
MergeDevice(p, q) ==
    /\ p \in Live /\ q \in Live \ {p}
    /\ guestLinks' = Relinked(p, q) /\ profiles' = Absorbed(Healed({q}), p)
    /\ UNCHANGED <<day, born, platformLinks, blocks, friendships, requests, cases>>

UpdatePrivacy(p) == /\ p \in Live /\ profiles' = [profiles EXCEPT ![p].asks = ~@]
                    /\ UNCHANGED <<day, born, guestLinks, platformLinks, blocks, friendships, requests, cases>>

-----------------------------------------------------------------------------
(* Moderation.                                                             *)

\* suspend and mute write the same record
Sanction(p, status, days) ==
    profiles' = [profiles EXCEPT ![p] = [@ EXCEPT !.status = status, !.until = day + days]]

Suspend(p, days) == p \in Live /\ Sanction(p, "suspended", days)
Mute(p, days) == p \in Live /\ Sanction(p, "muted", days)
Restore(p) == p \in Live /\ profiles' = [profiles EXCEPT ![p] = [@ EXCEPT !.status = "clear", !.until = 0]]
UnmutePlatform(p) == p \in Live /\ profiles[p].status = "muted" /\ Restore(p)

Enforce(p) == \/ \E days \in 1..2 : Suspend(p, days) \/ Mute(p, days)    \* bound
              \/ Restore(p) \/ UnmutePlatform(p)

Moderate == /\ \E p \in Ids : Enforce(p)
            /\ UNCHANGED <<day, born, guestLinks, platformLinks, blocks, friendships, requests, cases>>

Case(target) == [target |-> target, open |-> TRUE]

\* flag, about a pilot or about something else: the queue is cut from its old end
Flag == /\ \E t \in Ids \cup {None} :
             LET q == Append(cases, Case(t))
             IN  cases' = SubSeq(q, 1 + Len(q) - (IF Len(q) > MaxCases THEN MaxCases ELSE Len(q)), Len(q))
        /\ UNCHANGED <<day, born, profiles, guestLinks, platformLinks, blocks, friendships, requests>>

\* resolve: the case is decided before its penalty is tried, and stays decided when that throws
Resolve ==
    /\ \E i \in DOMAIN cases :
         /\ cases[i].open /\ cases' = [cases EXCEPT ![i].open = FALSE]
         /\ \/ UNCHANGED profiles
            \/ \E days \in 1..2 : Suspend(cases[i].target, days) \/ Mute(cases[i].target, days)
    /\ UNCHANGED <<day, born, guestLinks, platformLinks, blocks, friendships, requests>>

-----------------------------------------------------------------------------
(* Friends.                                                                *)

Blocked(p, q) == <<p, q>> \in blocks \/ <<q, p>> \in blocks
Stale(q) == {r \in requests : r.to = q /\ day - r.at > RequestTtl}
\* (mutant) a request in the other direction is not looked for
PendingFrom(p, q) == \E r \in requests : r.from = p /\ r.to = q
PendingBetween(p, q) == \E r \in requests : {r.from, r.to} = {p, q}

ListPending(q) == /\ q \in born /\ Stale(q) # {} /\ requests' = requests \ Stale(q)
                  /\ UNCHANGED <<day, born, profiles, guestLinks, platformLinks, blocks, friendships, cases>>

\* sendRequest, when the requests of the lapsed set are expired already
Send(p, q, lapsed) ==
    /\ ~Suspended(p) /\ q \in Live \ {p} /\ ~Suspended(q)
    /\ ~Blocked(p, q) /\ profiles[q].asks /\ {p, q} \notin friendships /\ ~PendingBetween(p, q)
    /\ Cardinality({r \in requests \ Stale(q) : r.to = q}) < MaxPending
    /\ requests' = (requests \ (Stale(q) \cup lapsed)) \cup {[from |-> p, to |-> q, at |-> day]}
    /\ profiles' = Healed({p, q}) /\ UNCHANGED friendships

\* what an accepted request needs of the profiles read; a status is read as it stands there,
\* lapsed or not
Welcome(r, read) == /\ ~Blocked(r.from, r.to)
                    /\ r.from \in Live /\ read[r.from].status # "suspended"
\* (mutant) what happened since the request was sent is not looked at
AlwaysMet(r, read) == friendships' = friendships \cup {{r.from, r.to}}

\* respond with accept
Met(r, read) == friendships' = IF Welcome(r, read) THEN friendships \cup {{r.from, r.to}} ELSE friendships

SendRequest(p, q) == Send(p, q, {})

Respond(r) == /\ r \in requests /\ requests' = requests \ {r} /\ UNCHANGED profiles
              /\ Met(r, profiles) \/ UNCHANGED friendships

\* the old route: the code is looked up, which heals q; then an inbound request of q is
\* accepted, otherwise one is sent
AddFriend(p, q) ==
    /\ q \in Live \ {p} /\ {p, q} \notin friendships
    /\ LET inbound == {r \in requests \ Stale(p) : r.to = p /\ r.from = q}
       IN  IF inbound = {} THEN Send(p, q, Stale(p))
           ELSE \E r \in inbound : /\ requests' = requests \ (Stale(p) \cup {r})
                                   /\ Met(r, Healed({q})) /\ profiles' = Healed({q})

CancelRequest(r) == r \in requests /\ requests' = requests \ {r} /\ UNCHANGED <<profiles, friendships>>

RemoveFriend(p, q) == {p, q} \in friendships /\ friendships' = friendships \ {{p, q}}
                      /\ UNCHANGED <<profiles, requests>>

\* a block ends the friendship, and leaves pending requests to respond
Block(p, q) ==
    /\ q \in Live \ {p} /\ profiles' = Healed({q}) /\ blocks' = blocks \cup {<<p, q>>}
    /\ friendships' = friendships \ {{p, q}} /\ UNCHANGED requests

Unblock(p, q) == <<p, q>> \in blocks /\ blocks' = blocks \ {<<p, q>>}
                 /\ UNCHANGED <<profiles, friendships, requests>>

Befriend ==
    /\ \/ \E p \in born, q \in Ids : Block(p, q) \/ Unblock(p, q)
       \/ /\ UNCHANGED blocks
          /\ \/ \E p \in born, q \in Ids : SendRequest(p, q) \/ AddFriend(p, q) \/ RemoveFriend(p, q)
             \/ \E r \in requests : Respond(r) \/ CancelRequest(r)
    /\ UNCHANGED <<day, born, guestLinks, platformLinks, cases>>

-----------------------------------------------------------------------------
(* Properties.                                                             *)

\* Nobody is the friend of a pilot who blocked him, whichever of a request, an answer, a
\* block and a merge came first.
NoFriendsAcrossBlocks == \A e \in blocks : {e[1], e[2]} \notin friendships

\* Every device and every platform identity that leads anywhere leads to a profile, through
\* any chain of merges.
LinksResolve == /\ \A d \in Devices : guestLinks[d] \in Live \cup {None}
                /\ \A a \in Accounts : platformLinks[a] \in Live \cup {None}

\* Two pilots never have two requests pending between them.
OneRequestBetween == \A r, s \in requests : {r.from, r.to} = {s.from, s.to} => r = s

\* "Temporary suspensions/mutes self-heal; called on every read": nobody is treated as
\* suspended after the suspension is over.  respond() reads the status that nobody expired.
LapsedSuspensionsAreOver ==
    \A r \in requests : ~Blocked(r.from, r.to) /\ ~Suspended(r.from) => Welcome(r, profiles)

\* A suspension lasts as long as it was given for, or until it is lifted.
SuspensionsLast ==
    [][\A p \in Live \cap DOMAIN profiles' :
         Suspended(p) /\ profiles'[p].status # "suspended" => profiles'[p].status = "clear"]_<<day, pilotVars>>

\* A case is decided before it leaves the queue: every new case is one more that is open.
OpenCases(q) == Len(SelectSeq(q, LAMBDA c : c.open))
OpenCasesKept == [][cases' # cases => OpenCases(cases') # OpenCases(cases)]_<<day, pilotVars>>
=============================================================================
