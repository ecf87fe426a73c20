------------------------------ MODULE PeerRoom ------------------------------
(***************************************************************************)
(* A race between peers: PokiNetlib.ts, with no server but the lobby       *)
(* service, which says who leads.  Every client keeps a track for each     *)
(* peer it has heard of; the leader starts the race when everybody it      *)
(* knows is ready, and gives out the places in the order in which finishes *)
(* reach it.                                                               *)
(*                                                                         *)
(* A client is in the "lobby" state from the moment the service answers,   *)
(* before it knows whether it will join a lobby or create one.  What the   *)
(* pilot presses meanwhile counts.                                         *)
(*                                                                         *)
(* Reliable messages between two peers are in order while their link is    *)
(* up; what a link still carries when it faults is delivered in part.      *)
(* Flight states (the unreliable channel) only create or keep a track.     *)
(***************************************************************************)
EXTENDS Naturals, Sequences, FiniteSets

CONSTANTS
    Peers,
    None,
    Scopes,       \* bound: what the peers of a lobby do, sets of AllScope
    MaxFaults,    \* bound: links that break, peers that leave, tracks that go stale
    MaxToggles,   \* bound: times a peer presses ready
    MaxChan       \* bound: messages a link carries in one direction

\* third: the lobby seats all peers (else two);  ready: pilots press ready, or start
\* greet: greetings are messages of their own (else links come up, greeted, with the join)
\* early: pilots press ready, or finish a flight, before the service has them in a lobby
\* late: peers join a lobby that is racing
\* finish: each pilot flies to the finish once;  again: twice
\* leave, lead: guests, the leader leave;  break, stale: links break, tracks go stale
AllScope == {"third", "ready", "greet", "early", "late", "finish", "again", "leave", "lead", "break", "stale"}

VARIABLES
    lobby,   \* the lobby service: who is in, who leads (and what its peers do, a bound)
    open,    \* links that are up, as sets of two peers
    client,  \* the fields of each PokiNetlibClient
    tracks,  \* tracks[p][q]: what p knows of q
    chan,    \* chan[p][q]: messages from p to q
    faults   \* links that broke, peers that left, tracks that went stale

vars == <<lobby, open, client, tracks, chan, faults>>

Msgs == [type : {"hello"}] \cup [type : {"ready"}, ready : BOOLEAN]
        \cup [type : {"start"}] \cup [type : {"finish"}]
        \cup [type : {"place"}, id : Peers, place : Nat \ {0}]

\* A place and who gave it (a history field: the code keeps the number).
NoPlace == [n |-> 0, by |-> None]
Placings == {NoPlace} \cup [n : Nat \ {0}, by : Peers]

Track == [ready : BOOLEAN, place : Placings]

Clients == [state : {"offline", "lobby", "racing", "error", "gone"}, ready : BOOLEAN, host : BOOLEAN,
            asks : {"no", "quick", "code", "create"},   \* what it waits for of the service
            order : Nat, finished : SUBSET Peers, place : Placings, flights : Nat,
            seen : SUBSET Peers,         \* connectedPeers
            greeted : SUBSET Peers, announce : BOOLEAN, toggles : Nat]

PeerAssumption == /\ Peers \subseteq Nat /\ IsFiniteSet(Peers) /\ None \notin Peers
                  /\ \A S \in Scopes : S \subseteq AllScope
                  /\ MaxFaults \in Nat /\ MaxToggles \in Nat /\ MaxChan \in Nat
ASSUME PeerAssumption

TypeOK ==
    /\ lobby \in [in : SUBSET Peers, leader : Peers \cup {None}, scope : Scopes]
    /\ \A l \in open : l \subseteq Peers /\ Cardinality(l) = 2
    /\ client \in [Peers -> Clients]
    /\ \A p \in Peers : DOMAIN tracks[p] \subseteq Peers /\ \A q \in DOMAIN tracks[p] : tracks[p][q] \in Track
    /\ \A p, q \in Peers : \A i \in 1..Len(chan[p][q]) : chan[p][q][i] \in Msgs
    /\ faults \in 0..MaxFaults

NoTracks == [q \in {} |-> 0]
NewTrack == [ready |-> FALSE, place |-> NoPlace]

Init ==
    /\ \E S \in Scopes : lobby = [in |-> {}, leader |-> None, scope |-> S]
    /\ open = {}
    /\ client = [p \in Peers |->
         [state |-> "offline", ready |-> FALSE, host |-> FALSE, asks |-> "no", order |-> 0,
          finished |-> {}, place |-> NoPlace, flights |-> 0, seen |-> {}, greeted |-> {},
          announce |-> FALSE, toggles |-> 0]]
    /\ tracks = [p \in Peers |-> NoTracks]
    /\ chan = [p \in Peers |-> [q \in Peers |-> <<>>]]
    /\ faults = 0

-----------------------------------------------------------------------------
(* What the handlers are built from.                                       *)

Hello == [type |-> "hello"]
Ready(b) == [type |-> "ready", ready |-> b]
Start == [type |-> "start"]
Finish == [type |-> "finish"]
Place(q, n) == [type |-> "place", id |-> q, place |-> n]

\* broadcastReliable: to every peer whose link is up, the messages in order
Broadcast(ch, p, msgs) ==
    [ch EXCEPT ![p] = [q \in Peers |-> IF {p, q} \in open /\ q # p THEN @[q] \o msgs ELSE @[q]]]

\* bound: no link of p carries too much
Fits(ch) == \A p, q \in Peers : Len(ch[p][q]) <= MaxChan

\* a message of this type is on its way from p
Carries(p, type) == \E q \in Peers : \E i \in 1..Len(chan[p][q]) : chan[p][q][i].type = type

\* track: the tracks of qs, those made that are missing
Tracked(t, qs) == [r \in DOMAIN t \cup qs |-> IF r \in DOMAIN t THEN t[r] ELSE NewTrack]
Untracked(t, q) == [r \in DOMAIN t \ {q} |-> t[r]]

AllReady(c, t) == c.ready /\ \A q \in DOMAIN t : t[q].ready

Racing(c) == [c EXCEPT !.state = "racing"]

\* p launches the race for everybody it is linked to
Launch(ch, p) == Broadcast(ch, p, <<Start>>)

Greeting == "greet" \in lobby.scope
Early == "early" \in lobby.scope
Flights == IF "again" \in lobby.scope THEN 2 ELSE IF "finish" \in lobby.scope THEN 1 ELSE 0

Here(p) == client[p].state \in {"lobby", "racing"}

\* p may act: the service has it in a lobby, or it does not wait for that
Acts(p) == Here(p) /\ (client[p].asks = "no" \/ Early)

-----------------------------------------------------------------------------
(* Coming and going.                                                       *)

\* bound: peers differ in nothing but their numbers, so they come in that order
InTurn(p) ==
    LET before == {q \in Peers : q < p}
    IN  /\ "third" \in lobby.scope \/ Cardinality(before) < 2
        /\ \A q \in before : client[q].state # "offline" /\ (client[q].asks = "no" \/ Early)

\* connect, onReady: the service is there, and is asked for a lobby: the one of a code, or
\* any; who names no code takes itself for the host
Open(p, code) ==
    /\ client[p].state = "offline" /\ InTurn(p)
    /\ code => Early
    /\ client' = [client EXCEPT ![p].state = "lobby", ![p].host = ~code,
                                ![p].asks = IF code THEN "code" ELSE "quick"]
    /\ UNCHANGED <<lobby, open, tracks, chan, faults>>

\* onReady: there is none to join, or the join fails, so create
FallBack(p) ==
    /\ client[p].asks = "quick" /\ (lobby.in # {} => Early)
    /\ client' = [client EXCEPT ![p].asks = "create"]
    /\ UNCHANGED <<lobby, open, tracks, chan, faults>>

\* onReady: the lobby of the code cannot be joined, none can be created
Fail(p) ==
    /\ client[p].asks \in {"code", "create"} /\ Early
    /\ client' = [client EXCEPT ![p].state = "error", ![p].asks = "no"]
    /\ UNCHANGED <<lobby, open, tracks, chan, faults>>

\* onReady: the lobby is there (of those who create, the instance follows one)
Create(p) ==
    /\ client[p].asks = "create" /\ lobby.in = {}
    /\ lobby' = [lobby EXCEPT !.in = {p}, !.leader = p]
    /\ client' = [client EXCEPT ![p].host = TRUE, ![p].asks = "no"]
    /\ UNCHANGED <<open, tracks, chan, faults>>

\* onConnected on both sides: p and each of qs greet one another
Linked(p, qs, c) ==
    /\ open' = open \cup {{p, q} : q \in qs}
    /\ client' = [r \in Peers |-> IF r = p THEN [c EXCEPT !.seen = @ \cup qs]
                                  ELSE IF r \in qs THEN [client[r] EXCEPT !.seen = @ \cup {p}]
                                  ELSE client[r]]
    /\ chan' = IF Greeting THEN [r \in Peers |-> [s \in Peers |->
                    IF (r = p /\ s \in qs) \/ (s = p /\ r \in qs) THEN <<Hello>> ELSE chan[r][s]]]
               ELSE chan
    /\ tracks' = IF Greeting THEN tracks
                 ELSE [r \in Peers |-> IF r = p THEN Tracked(tracks[p], qs)
                                       ELSE IF r \in qs THEN Tracked(tracks[r], {p}) ELSE tracks[r]]

\* onReady: the service has p in the lobby, which others lead; whatever p did meanwhile
\* it is in the lobby state again
Join(p) ==
    /\ client[p].asks \in {"quick", "code"} /\ lobby.in # {}
    /\ "late" \in lobby.scope \/ \A q \in lobby.in : client[q].state = "lobby"
    /\ lobby' = [lobby EXCEPT !.in = @ \cup {p}]
    /\ Linked(p, IF Greeting THEN {} ELSE lobby.in,
              [client[p] EXCEPT !.state = "lobby", !.host = FALSE, !.asks = "no", !.announce = Greeting])
    /\ UNCHANGED faults

\* a link comes up
Connect(p, q) ==
    /\ p # q /\ {p, q} \notin open /\ {p, q} \subseteq lobby.in
    /\ q \notin client[p].seen /\ p \notin client[q].seen
    /\ Linked(p, {q}, client[p])
    /\ UNCHANGED <<lobby, faults>>

\* sendHelloAll, a moment after the join
Announce(p) ==
    /\ Here(p) /\ client[p].announce
    /\ client' = [client EXCEPT ![p].announce = FALSE]
    /\ chan' = Broadcast(chan, p, <<Hello>>) /\ Fits(chan')
    /\ UNCHANGED <<lobby, open, tracks, faults>>

\* onLeader, onLobby: the service's word on who leads
LeaderNews(p) ==
    /\ p \in lobby.in /\ client[p].host # (lobby.leader = p)
    /\ client' = [client EXCEPT ![p].host = (lobby.leader = p)]
    /\ UNCHANGED <<lobby, open, tracks, chan, faults>>

\* disconnect: the service picks another leader, the links go down
Leave(p) ==
    /\ p \in lobby.in /\ faults < MaxFaults /\ faults' = faults + 1
    /\ (IF lobby.leader = p THEN "lead" ELSE "leave") \in lobby.scope
    /\ \E l \in (IF lobby.leader # p THEN {lobby.leader}
                 ELSE IF lobby.in = {p} THEN {None} ELSE lobby.in \ {p}) :
         lobby' = [lobby EXCEPT !.in = @ \ {p}, !.leader = l]
    /\ open' = {l \in open : p \notin l}
    /\ client' = [client EXCEPT ![p] = [client[p] EXCEPT !.state = "gone", !.ready = FALSE, !.host = FALSE,
                    !.order = 0, !.finished = {}, !.place = NoPlace, !.seen = {}, !.greeted = {},
                    !.announce = FALSE]]
    /\ tracks' = [tracks EXCEPT ![p] = NoTracks]
    /\ chan' = [q \in Peers |-> [chan[q] EXCEPT ![p] = <<>>]]

\* a link faults between two who stay
Break(p, q) ==
    /\ "break" \in lobby.scope /\ {p, q} \in open /\ p # q /\ faults < MaxFaults
    /\ open' = open \ {{p, q}} /\ faults' = faults + 1
    /\ UNCHANGED <<lobby, client, tracks, chan>>

\* onDisconnected: p hears that q's link is down; what the link still carried is lost
Disconnected(p, q) ==
    /\ q \in client[p].seen /\ {p, q} \notin open
    /\ client' = [client EXCEPT ![p].seen = @ \ {q}, ![p].greeted = @ \ {q}]
    /\ tracks' = [tracks EXCEPT ![p] = Untracked(@, q)]
    /\ chan' = [chan EXCEPT ![q][p] = <<>>]
    /\ UNCHANGED <<lobby, open, faults>>

-----------------------------------------------------------------------------
(* What the pilot does.                                                    *)

\* sendReady: a host who knows nobody starts at once
SendReady(p, b) ==
    /\ "ready" \in lobby.scope /\ Acts(p)
    /\ client[p].state = "lobby" /\ client[p].toggles < MaxToggles
    /\ LET c == [client[p] EXCEPT !.ready = b, !.toggles = @ + 1]
           alone == c.host /\ b /\ DOMAIN tracks[p] = {}
           ch == Broadcast(chan, p, <<Ready(b)>>)
       IN  /\ alone \/ b # client[p].ready   \* bound: presses that change something
           /\ client' = [client EXCEPT ![p] = IF alone THEN Racing(c) ELSE c]
           /\ chan' = (IF alone THEN Launch(ch, p) ELSE ch) /\ Fits(chan')
    /\ UNCHANGED <<lobby, open, tracks, faults>>

\* startNow of the host, racing or not; anybody else's is sendReady(true) (bound: when the last
\* start has arrived)
StartNow(p) ==
    /\ "ready" \in lobby.scope
    /\ Here(p) /\ client[p].host /\ DOMAIN tracks[p] # {}
    /\ ~Carries(p, "start")
    /\ client' = [client EXCEPT ![p] = Racing(@)]
    /\ chan' = Launch(chan, p) /\ Fits(chan')
    /\ UNCHANGED <<lobby, open, tracks, faults>>

\* bound: the heartbeats that would change something at q
Tells(p, q) ==
    \/ p \in DOMAIN tracks[q] =>
         client[q].state = "lobby" /\ tracks[q][p].ready # client[p].ready
    \/ client[q].host /\ client[q].state = "lobby" /\ AllReady(client[q], tracks[q])

\* (mutant) the heartbeat is part of the race
HeartbeatInRace(p) ==
    /\ client[p].state = "racing"
    /\ \E q \in Peers : {p, q} \in open /\ Tells(p, q)
    /\ chan' = Broadcast(chan, p, <<Ready(client[p].ready)>>) /\ Fits(chan')
    /\ UNCHANGED <<lobby, open, client, tracks, faults>>

\* tick: every 15 s the ready flag is said again (bound: when the last one has arrived)
Heartbeat(p) ==
    /\ Here(p)
    /\ ~Carries(p, "ready")
    /\ \E q \in Peers : {p, q} \in open /\ Tells(p, q)
    /\ chan' = Broadcast(chan, p, <<Ready(client[p].ready)>>) /\ Fits(chan')
    /\ UNCHANGED <<lobby, open, client, tracks, faults>>

\* (mutant) the host does not count itself
SendFinishUncounted(p) ==
    /\ Acts(p) /\ client[p].flights < Flights
    /\ LET c == [client[p] EXCEPT !.flights = @ + 1]
           n == c.order + 1
       IN  /\ client' = [client EXCEPT ![p] = [c EXCEPT !.finished = @ \cup {p},
                            !.place = IF c.host THEN [n |-> n, by |-> p] ELSE @]]
           /\ chan' = Broadcast(chan, p, IF c.host THEN <<Place(p, n), Finish>> ELSE <<Finish>>)
    /\ Fits(chan')
    /\ UNCHANGED <<lobby, open, tracks, faults>>

\* sendFinish, after each flight, whatever the state: the host takes the next place and says so
SendFinish(p) ==
    /\ Acts(p) /\ client[p].flights < Flights
    /\ LET c == [client[p] EXCEPT !.flights = @ + 1]
           n == c.order + 1
       IN  IF c.host
           THEN /\ client' = [client EXCEPT ![p] = [c EXCEPT !.order = n, !.place = [n |-> n, by |-> p],
                                                             !.finished = @ \cup {p}]]
                /\ chan' = Broadcast(chan, p, <<Place(p, n), Finish>>)
           ELSE /\ client' = [client EXCEPT ![p] = c]
                /\ chan' = Broadcast(chan, p, <<Finish>>)
    /\ Fits(chan')
    /\ UNCHANGED <<lobby, open, tracks, faults>>

-----------------------------------------------------------------------------
(* onMessage: p takes the next message of q.                               *)

Head1(p, q, type) == /\ Here(p) /\ q \in client[p].seen /\ chan[q][p] # <<>>
                     /\ Head(chan[q][p]).type = type

Taken(p, q) == [chan EXCEPT ![q][p] = Tail(@)]

\* (mutant) every hello is answered
HelloAlwaysAnswered(p, q) ==
    /\ Head1(p, q, "hello")
    /\ tracks' = [tracks EXCEPT ![p] = Tracked(@, {q})]
    /\ client' = [client EXCEPT ![p].greeted = @ \cup {q}]
    /\ chan' = IF {p, q} \in open THEN [Taken(p, q) EXCEPT ![p][q] = Append(@, Hello)] ELSE Taken(p, q)
    /\ UNCHANGED <<lobby, open, faults>>

\* only the first hello of a peer is answered
OnHello(p, q) ==
    /\ Head1(p, q, "hello")
    /\ tracks' = [tracks EXCEPT ![p] = Tracked(@, {q})]
    /\ client' = [client EXCEPT ![p].greeted = @ \cup {q}]
    /\ chan' = IF q \notin client[p].greeted /\ {p, q} \in open
               THEN [Taken(p, q) EXCEPT ![p][q] = Append(@, Hello)] ELSE Taken(p, q)
    /\ UNCHANGED <<lobby, open, faults>>

\* the host launches when everybody it knows is ready
OnReady(p, q) ==
    /\ Head1(p, q, "ready")
    /\ LET m == Head(chan[q][p])
           t == [Tracked(tracks[p], {q}) EXCEPT ![q].ready =
                   IF client[p].state = "lobby" THEN m.ready ELSE @]   \* read in a lobby only
           go == client[p].host /\ client[p].state = "lobby" /\ AllReady(client[p], t)
       IN  /\ tracks' = [tracks EXCEPT ![p] = t]
           /\ client' = IF go THEN [client EXCEPT ![p] = Racing(@)] ELSE client
           /\ chan' = (IF go THEN Launch(Taken(p, q), p) ELSE Taken(p, q)) /\ Fits(chan')
    /\ UNCHANGED <<lobby, open, faults>>

OnStart(p, q) ==
    /\ Head1(p, q, "start")
    /\ client' = [client EXCEPT ![p] = Racing(@)]
    /\ chan' = Taken(p, q)
    /\ UNCHANGED <<lobby, open, tracks, faults>>

\* (mutant) the host's roster is a place ahead of what it says
OnFinishAhead(p, q) ==
    /\ Head1(p, q, "finish")
    /\ LET n == client[p].order + 1
           new == q \notin client[p].finished
           told == new /\ client[p].host
           t == Tracked(tracks[p], {q})
       IN  /\ tracks' = [tracks EXCEPT ![p] = IF told THEN [t EXCEPT ![q].place = [n |-> n + 1, by |-> p]] ELSE t]
           /\ client' = [client EXCEPT ![p].finished = @ \cup {q}, ![p].order = IF told THEN n ELSE @]
           /\ chan' = (IF told THEN Broadcast(Taken(p, q), p, <<Place(q, n)>>) ELSE Taken(p, q)) /\ Fits(chan')
    /\ UNCHANGED <<lobby, open, faults>>

\* the first finish of a peer counts; the host gives it the next place
OnFinish(p, q) ==
    /\ Head1(p, q, "finish")
    /\ LET c == client[p]
           n == c.order + 1
           new == q \notin c.finished
           t == Tracked(tracks[p], {q})
       IN  /\ tracks' = [tracks EXCEPT ![p] = IF new /\ c.host THEN [t EXCEPT ![q].place = [n |-> n, by |-> p]] ELSE t]
           /\ client' = IF ~new THEN client
                        ELSE [client EXCEPT ![p].finished = @ \cup {q}, ![p].order = IF c.host THEN n ELSE @]
           /\ chan' = (IF new /\ c.host THEN Broadcast(Taken(p, q), p, <<Place(q, n)>>)
                       ELSE Taken(p, q)) /\ Fits(chan')
    /\ UNCHANGED <<lobby, open, faults>>

OnPlace(p, q) ==
    /\ Head1(p, q, "place")
    /\ LET m == Head(chan[q][p])
           given == [n |-> m.place, by |-> q]
       IN  /\ client' = IF m.id = p THEN [client EXCEPT ![p].place = given] ELSE client
           /\ tracks' = IF m.id # p /\ m.id \in DOMAIN tracks[p]
                        THEN [tracks EXCEPT ![p][m.id].place = given]
                        ELSE tracks
    /\ chan' = Taken(p, q)
    /\ UNCHANGED <<lobby, open, faults>>

\* a flight state of q
OnState(p, q) ==
    /\ Here(p) /\ q \in client[p].seen /\ {p, q} \in open
    /\ q \notin DOMAIN tracks[p]
    /\ tracks' = [tracks EXCEPT ![p] = Tracked(@, {q})]
    /\ UNCHANGED <<lobby, open, client, chan, faults>>

\* tick: a peer that sent no flight state for a while is dropped from a race
Stale(p, q) ==
    /\ "stale" \in lobby.scope /\ client[p].state = "racing" /\ q \in DOMAIN tracks[p]
    /\ tracks' = [tracks EXCEPT ![p] = Untracked(@, q)]
    /\ faults < MaxFaults /\ faults' = faults + 1
    /\ UNCHANGED <<lobby, open, client, chan>>

Next ==
    \/ \E p \in Peers :
         \/ FallBack(p) \/ Fail(p) \/ Create(p) \/ Join(p)
         \/ Announce(p) \/ LeaderNews(p) \/ Leave(p)
         \/ StartNow(p) \/ Heartbeat(p) \/ SendFinish(p)
         \/ \E b \in BOOLEAN : Open(p, b) \/ SendReady(p, b)
    \/ \E p, q \in Peers :
         \/ Connect(p, q) \/ Break(p, q) \/ Disconnected(p, q)
         \/ OnHello(p, q) \/ OnReady(p, q) \/ OnStart(p, q) \/ OnFinish(p, q) \/ OnPlace(p, q)
         \/ OnState(p, q) \/ Stale(p, q)

\* Messages arrive, links come up and are noticed when they go down, the service's news
\* arrives, and the heartbeat beats; pilots do what they like.
Fairness ==
    /\ \A p \in Peers : WF_vars(LeaderNews(p)) /\ WF_vars(Heartbeat(p)) /\ WF_vars(Announce(p))
    /\ \A p, q \in Peers :
         /\ WF_vars(Connect(p, q)) /\ WF_vars(Disconnected(p, q))
         /\ WF_vars(OnHello(p, q)) /\ WF_vars(OnReady(p, q)) /\ WF_vars(OnStart(p, q))
         /\ WF_vars(OnFinish(p, q)) /\ WF_vars(OnPlace(p, q))

Spec == Init /\ [][Next]_vars
FairSpec == Spec /\ Fairness

-----------------------------------------------------------------------------
(* Properties.                                                             *)

\* whose roster has p
Knows(p) == {r \in Peers : p \in DOMAIN tracks[r]}

\* One leader gives a place to one pilot, whatever the pilots' own fields and everybody's
\* rosters are made of: finishes that arrive late or twice, the leader's own flights, links
\* that break, peers whose track went stale and came back.
PlacesOfOneLeader ==
    \A p, q \in Peers : \A x \in {client[p].place} \cup {tracks[r][p].place : r \in Knows(p)},
                        y \in {client[q].place} \cup {tracks[r][q].place : r \in Knows(q)} :
      p # q /\ x = y => x = NoPlace

\* Of two places that one leader gave a pilot, the pilot and the rosters know the same,
\* or a roster has yet to hear of the leader's own next flight.
RostersAgree ==
    \A p, q \in Peers :
      q \in DOMAIN tracks[p] /\ tracks[p][q].place.by = client[q].place.by
        => \/ tracks[p][q].place.n = client[q].place.n
           \/ client[q].place.by = q /\ tracks[p][q].place.n < client[q].place.n

\* A place is one pilot's, whoever gave it.
OnePilotPerPlace ==
    \A p, q \in Peers : p # q /\ client[p].place.n = client[q].place.n => client[p].place.n = 0

\* Greetings end: "a reply to a reply is an endless ping-pong".
GreetingsEnd == <>[](\A p, q \in Peers : \A i \in 1..Len(chan[p][q]) : chan[p][q][i].type # "hello")

\* When everybody in the lobby is ready and stays, the race starts, whoever led when they
\* pressed ready.
BarrierOpens ==
    (<>[](Cardinality(lobby.in) > 1 /\ \A p \in lobby.in : client[p].ready /\ \A q \in lobby.in \ {p} : {p, q} \in open))
      => []<>(\E p \in lobby.in : client[p].state = "racing")

\* Everybody who is in a lobby with a race, and linked to those who fly it, flies too.
NobodyWaitsOutside ==
    \A p \in Peers :
      [](client[p].state = "lobby" /\ client[p].ready /\ (\E q \in Peers : client[q].state = "racing")
          => <>(client[p].state # "lobby"))
=============================================================================
