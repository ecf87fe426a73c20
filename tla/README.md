# Sunbird: the verification project

Sunbird is a browser flight game with races between pilots, daily ladders,
squads, cups and a shop, and several servers behind it. This directory holds
TLA+ models of the parts of it where the order of events decides whether it
works. TLC checks the models on small instances; TLAPS proves most of their
safety properties for all sizes.

    tlc -workers 2 -config MCRaceSession.cfg MCRaceSession.tla
    tlapm RaceSessionProofs.tla

`PROJECT.json` lists the runs, the lines each definition translates, the
hazards of the code and what covers them, and what the runs found.

## 1. The system

| Part | Where | State | Operations | What is hard |
|---|---|---|---|---|
| Race session (Node) | `server/src/realtime/race-session.ts` | seats in join order, host, status, next place, standings | join, reconnect, ready, start, cancel, leave, drop, frame, finish, tick timer | REST, two gateways, a timer and the clock call it in any order |
| Rooms (Node) | `server/src/rooms/RoomService.ts` | code -> session | create, matchmake, join, reconnect, leave, start, cancel, kick, prune timer | rooms at every stage of their life meet pilots at every stage of theirs |
| Gateways (Node) | `server/src/realtime/gateways.ts` | registry of sockets, each with session, seat, counters | v1 and legacy frames, close events, silence reaper | a close event comes long after the peer has gone, often after the pilot is back |
| Identity, friends, moderation (Node) | `server/src/{identity,friends,moderation}` | profiles, device and account links, blocks, requests, friendships, cases | guest, upgrade, merge, request, answer, block, suspend, mute, flag, resolve | tokens of profiles that were merged away; penalties that lapse only when somebody looks |
| Squads (Node) | `server/src/squads/SquadService.ts` | roles, probations, applications, the weekly goal | found, join, approve, kick, block, roles, leave, succession timer | sequences of legal calls; a timer that replaces owners; a week that turns unseen |
| Boards and cups (Node) | `server/src/{leaderboards,tournaments}` | rows, run index, cups, prize ledger, season snapshot | submit, invalidate, register, hand in, finish, claim, distribute | one run sent twice; prizes claimed and distributed in turns; rollbacks after prizes |
| Store, saves (Node) | `server/src/{store,saves}` | the state file, objects, save versions | touch, debounced flush, load | crashes between acknowledgement and flush |
| Rust service | `rust/crates/sunbird-server/src/{rooms,ws,auth,main}.rs` | rooms and code index under one lock; locals of socket tasks; signed tokens | join, leave, ready, heartbeat, reconnect, sweep | real parallelism; handlers that take the lock twice |
| Rust legacy relay | `.../legacy.rs`, `validate.rs` | rooms, pilots, finish order | join, leave, message, 15 Hz tick | as above, and a motion envelope |
| Game loop (client) | `src/game/Game.ts`, `adGate.ts` | state of the run, screen, pending breaks, search, seat | every button, hot key, frame decision and settled promise | advertising, searches and loads that answer after the game has moved on |
| Save and economy (client) | `src/game/{SaveData,Tournaments,SeasonPass}.ts`, `Game.ts` | one record in memory, its text in storage | claims, shops, prestige, save codes, reset, boot | a handler persists more than once; storage refuses; pages reload |
| Peer rooms (client) | `src/game/PokiNetlib.ts` | per peer: lobby state, host flag, tracks, places | hello, ready, start, finish, place, leader change, faults | no server: every peer has its own view, leaders move |
| Uploads (client) | `src/game/Leaderboard.ts`, `resilience/OfflineOutbox.ts` | local board, queue, its copy in storage | submit, uploadBest, enqueue, drain, reload | awaits, failing storage, reloads, lost answers |
| Breaker (client) | `src/game/resilience/{CircuitBreaker,fetchJson,backoff}.ts` | state, failures, window, cooldown | allow, record | outcomes of requests that began in another state |
| Server races (client) | `src/game/{Realtime,MassRace}.ts` | connection, race view | connect, retry, frames | reconnects |
| Boards and payments (edge) | `backend/src`, `api/` | best rows, entitlements | score, board, webhooks | read-then-write, replays |
| Rendering, HUD, audio | `src/game/*` | scene, physics, sound | frames | not a finite-state matter |

Calls go downwards. On the server, sockets (gateways, `ws.rs`) call rooms,
rooms own sessions, sessions call back with events that the sockets fan out;
the social services share one database and one housekeeping timer, and a
verified run goes to the board, to the squads' goals and to a cup. In the
client, `Game.ts` drives everything: it saves through `SaveData`, races through
a peer room or a server room, and uploads through the outbox and the breaker.

What makes each part correct: one seat per pilot and one place per seat; a host
who is there; every race ends and every abandoned room goes; a seat is freed
when, and only when, nobody holds it; a token works once; no finished run is
lost; a dead endpoint is left alone and a living one is not; a flight in the air
can end, and ends once; no claim is paid twice and nothing bought is lost; what
one peer shows of another is what that other was told; one owner per squad; no
friendship across a block; one prize per achievement.

## 2. The modules

| Module | Models | Notes |
|---|---|---|
| `RaceRoom` | abstract: what a room promises | lobby, one race, over; places announced once; the final ranking repeats only announced places |
| `RaceSession` | `class RaceSession` | refines `RaceRoom` (`Room`, `ImplementsRoom`) |
| `RoomService` | `class RoomService`, suspensions | a room is what the registry can see of a session |
| `RaceGateway` | `gateways.ts`, the seating routes of `RoomService.ts` | sockets over the seats of several rooms; both protocols; seats granted over REST |
| `RoomRegistry` | `rooms.rs` | operations under the lock |
| `RoomSockets` | `ws.rs`, tokens of `auth.rs`, `main.rs` | EXTENDS `RoomRegistry`; a handler with two registry calls is two actions |
| `ScoreUpload` | `submit`, `uploadBest`, `OfflineOutbox` | code between two awaits is one action |
| `CircuitBreaker` | `step`, `allows`, `Breakers`, the frame of `fetchJson` | |
| `GameFlow` | the state machine of `Game.ts` | one action per button, settled promise or frame decision; a record `g` with the code's fields |
| `Purse` | `SaveData.ts` and everything in `Game.ts` that pays or sells | memory and storage; a handler's persists in the code's order, each accepted or refused |
| `PeerRoom` | `PokiNetlib.ts` | peers, links, and the lobby service that names the leader |
| `Pilots` | `IdentityService`, `FriendsService`, `ModerationService` | |
| `Squads` | `SquadService` | EXTENDS `Pilots` |
| `Cups` | `LeaderboardService`, `TournamentService` | EXTENDS `Squads` |
| `Social` | the routes of `http/api.ts`, `http/legacy.ts` and the timer of `server.ts` over these services | the composition: one database, one request at a time |

`RaceSessionProofs`, `RoomServiceProofs`, `RaceGatewayProofs`,
`RoomSocketsProofs`, `SocialProofs`, `GameFlowProofs` and `PurseProofs` hold the
theorems about the module they are named after; `ClientProofs` those about
`CircuitBreaker`, `ScoreUpload` and `PeerRoom`, in a section each. It extends all
three, which is why the first two prefix the names that every module has
(`BreakerInit`, `UploadSpec`, ...).

`MC*` modules add symmetry sets and small definitions; the `.cfg` files give
constants their values.

How code becomes actions. JavaScript runs one handler at a time, so a method or
a timer callback is an action, and an `await` splits it. In Rust each registry
call is atomic under the lock and the task may be interrupted between calls.
Time is an action of its own (`Elapse`, `Tick`, `FallSilent`, `Age`, `NewDay`),
and a stored time stamp is an age that stops growing past the largest bound the
code compares it with, or a day. Random ids are numbers in drawing order. Data
nothing depends on (names, skins, coordinates, signatures, JSON) is left out.

`RaceSession`, in detail: `seats` stands for `seats` and `order`; `host` for
`hostSeatId`; `clock` for `now - startAtMs`; `results` for the last `results`
event; `awarded` is a history of the `finish` events. `TickStep` is the whole
of `tickStep` with its three branches. `JoinNew`, `JoinExisting`, `JoinExpired`
and `JoinWithToken` are the ways through `join`. `Start` on a room that is
already racing, and the like, are the early returns of the methods.

`RoomService`: `order` is the insertion order of the `Map`, as the set of pairs
of codes of which the first was inserted earlier; `FirstOf` is the room a scan
of the map meets first.

`RaceGateway`: a room is its status and its seats. `HangUp` is the network's
side of a disconnect (or the server's `close()`), `OnGone` the event handler, and
anything may come between. A v1 join without a code is matched first and joined
after, so its three outcomes are: seated; seated by the token; or matched, and
then refused because the token it brought is stale, which leaves a connected seat
without a socket (`JoinV1`, third disjunct). Tokens are the seat they open and may
be anybody's: `TokenJoin` gives another pilot's seat to a bearer who has none in
the room. `RestJoin`, `RestReconnect` and `RestLeave` are the routes that never
see a socket. `Expire` is the tick's branch for seats past their grace, which
passes over those that have finished a race still on. `RoomSockets`: `CheckToken` and
`Reattach` are the two halves of the Reconnect frame; `SocketGone` is the end
of a socket's task. `ScoreUpload`: `Posted` and `Drained` are what follows the
awaits, with the server having taken the post or not.

`GameFlow`: `g.breaks` counts the advertising promises that have not settled.
`AdValve` is the safety valve of the frame loop: it fires in every edition, over a
portal's break as over the game's own placeholder, and cancels no promise, so any
break may settle after the valve has put the game back. `g.rated` counts the duels
rated, `g.claims` the bonuses paid for one run, `g.winds` its second winds.
`PumpAway`, `WindowCloses` and `WaitAlone` are the branches of the frame's
`pumpMatchmaking`, `NetStart` and `NetLost` those of `pumpNetwork`; between any two
frames hot keys, the network and the DOM's handlers may get in, before a search
that was overtaken is ended too. `Games` is the set of such records. The shop's
rewarded coins are left out: their promise touches the save only.

`Purse`: `mem.paid` and `mem.twice` are histories inside the save: what it was
paid for, and what twice. They travel with the save through storage, codes and
imports, as its coins do. Amounts are left out; a price can always be paid. A
`BankRun` chooses whether the flight finished a mission and a quest, and which
challenge it was; its six saves are those of `finishRun`, in order.

`PeerRoom`: `chan[p][q]` is the reliable channel between two peers. The heartbeat
of the code repeats a ready state (`Heartbeat`; the model sends those that tell
somebody something); flight states only create or keep a track. Connecting is in
steps: from `Open` on the client is in the lobby state, and host unless it names a
code; `Join`, `FallBack`, `Create` or `Fail` follow when the service answers, and
what the pilot does in between counts. Of two lobbies created at once the model
follows one, and a join that is answered after the pilot has disconnected is left
out. `place` is a number in the code; the model adds who gave it. `Scopes` says
what the peers of a behaviour do, of `AllScope`.

`Cups`: `Grants` are the ledger's new rows for a set of pilots and tiers that
are `Due`, and `Banked` the `claimedBest` of an entry that was paid; claims and
distributions both end in `Paid`.

`Social`: a refused request changes nothing but the lapses it saw (`Look`,
`ListPending`). `Post` is the route of a run: board, goals and cup in one
handler. The `menu` of a behaviour is the set of the kinds of request it uses.

Mutants. Each module defines, marked "mutant", an altered form of some
definitions (a dropped guard, an off-by-one, a forgotten reset). They are used
nowhere; each shows that a property fails when the code had that bug.

## 3. The runs

| Run | cfg | Shows | Bounds |
|---|---|---|---|
| `session_seats` | `MCRaceSession` | host is the first connected seat; one seat per player; a finish is final; the grace window is honoured | 2 pilots, 3 seats drawn, one reconnect generation, one movement frame |
| `session_places` | `MCRaceSessionFair` | places unique and in order; standings agree with announcements; refinement of `RaceRoom`; races end, abandoned lobbies close | 2 pilots on 3 seats, so a finisher, a leaver and a timeout meet in one race; a countdown and the race cap |
| `rooms` | `MCRoomService` | suspended pilots hold no seat; rooms within capacity; whoever drops out of a race and is matched again gets the own seat back, in a full race too, unless another room takes them in | 3 pilots, 2 codes, capacity 2: a room can be full with one pilot outside |
| `gateway` | `MCRaceGateway` | a seat is left connected without a socket only by a socket that takes another seat; no seat comes to life under the id a socket outlived; abandoned seats are freed | 2 pilots, 2 sockets (an old and a new one of one pilot, or one each; the first speaks v1), 2 rooms of which one may race, 2 seats drawn |
| `rust_rooms` | `MCRoomSockets` | codes, rooms, hosts and seats stay consistent; after a reconnect no check passes with its token | 3 sockets, 2 rooms, 2 seeds, capacity 2, generations to 3: two reconnects that overlap both complete |
| `outbox` | `MCScoreUpload` | storage mirrors the page; one entry per key and counter, reloads included | 2 drains, 3 entries, cap 2, one try |
| `breaker` | `MCCircuitBreaker` | trips are earned; the breaker closes for good once the endpoint stays up | 3 requests, threshold 3 |
| `game_flow` | `MCGameFlow` | on the web no flight gets more second winds than its tier allows; a flight is booked and rated once, also one that the valve put back in the air; breaks and searches end | a free player of the portal, a free and a Gold player of the web, 2 flights, one break pending |
| `purse` | `MCPurse` | no claim is paid twice into a save; nothing stamped or bought is missing | 3 days in 2 weeks; each behaviour uses one or two of 24 kinds of handler, so every pair meets; one refused write; at most 4 claims |
| `peers` | `MCPeerRoom` | a leader gives each place to one pilot and rosters show it; a room where all are ready starts; greetings end | five scopes: 3 peers fly while a leader may leave or a track go stale; 3 peers press ready while guests or the leader leave; 2 peers fly twice, or press ready and join late, with greetings, leaving, broken links and stale tracks; 2 peers act before the service has answered; one fault, 2 messages a direction |
| `social` | `MCSocial` | no friendship across a block; links resolve; owners match; goals count their week; a run counts once; one tier per best | 2 or 3 pilots, 2 devices, 1 account, up to 3 days, 16 menus; thresholds scaled (requests and probations last a day, owners may be silent two, weeks have two), 2 squads of 3, 2 runs, 1 cup with 1 place and 2 tiers |
| `rust_late_close` | `MCRoomSocketsLate` | ends in a violation, see below | 2 sockets, 1 room |

Bounds that are in the modules: `MaxSeats`, `MaxSeq`, `MaxGen`, `MaxRooms`,
`MaxBeat`, `NumRooms`, `MaxEpoch`, `MaxBreaks`, `MaxDay`, `MaxKinds`,
`MaxRefusals`, `MaxClaims`, `MaxFaults`, `MaxToggles`, `MaxChan`, `MaxSquads`,
`MaxCups`, `Scope`, `Menus`. They end drawing, numbering, faults or days, or
choose who does what; none stops a timer. They are enough for every pair of
actors to meet in every stage of a room, a save or a squad, and each property's
mutant is found within them. `CHECK_DEADLOCK FALSE` is said where a behaviour
may end: all ids are drawn, the room is over, the days are played.

`rust_late_close`: reconnect says it reattaches to the seat a pilot held, but
the end of the dropped socket's task leaves that seat whatever generation it
has reached, so the pilot loses it under the new socket (`findings` in
`PROJECT.json` quotes the lines).

### Further questions

These configurations are not among the runs of `PROJECT.json`. A `.cfg` belongs
to the `MC` module its name begins with. TLC stops at the first violation, so
each property is checked on its own. These hold:

| cfg | Holds | About |
|---|---|---|
| `MCRaceSessionField` | `PlacesUnique`, `PlacesInv`, `PlacesDense`, `RaceNeverLingers`, `ResultsAreAwarded`, `ResultsInPlaceOrder`, `ImplementsRoom` | three pilots, without movement: a wave of timeouts and the race cap number more than two |
| `MCRoomServiceOpen` | `TypeOK`, `ClosedRoomsAreEmpty`, `MatchmakeNeverRefuses`, `FinishedRoomsGo` | matchmaking picks a room that join accepts; the code of a finished race becomes free again |
| `MCRaceGatewayOpen` | `SeatsInTheirSession` | a socket names seats of its own room only |
| `MCRoomSocketsOpen` | `TypeOK`, `NoEmptyRooms`, `StartedFieldsOnlyShrink` | rooms of three seats |
| `MCScoreUploadOpen` | `UploadTypeOK` | |
| `MCCircuitBreakerOpen` | `BreakerTypeOK`, `FlappingBacksOff` | the back-off doubles exactly, up to its cap |
| `MCPurseOpen` | `DiskKeepsUp` | only the stipend's stamp is behind |
| `MCSocialOpen`, with the menus of `MCSocial` | `TypeOK`, `OneRequestBetween`, `StandingsAreFinal`, `BlockedStayOut` | |

And these are violated: each states what a comment, a document or a test says,
or what a reader would expect, and TLC shows how the code does otherwise.

| cfg | Property | Says | What happens |
|---|---|---|---|
| `MCRaceSessionField` | `ScoreboardPlacesUnique` | `finish-places.test.ts:6-7`: places are unique, even when pilots leave | after a cancel, `standings()` fills in list positions that repeat a leaver's place |
| `MCRoomServiceOpen` | `ReconnectLandsInItsRace` | `RoomService.ts:65-67`: a returning pilot lands in their race | an open lobby of the seed is taken first |
| | `CanceledRoomsGo` | closed rooms go after ten minutes | a lobby canceled by its timer has age zero for ever, so its code stays taken |
| `MCRaceGatewayOpen` | `GraceMeansDropped` | `race-session.ts:325`: the grace window is for dropped sockets | the old socket's close event drops the seat that is back |
| | `NoGhostSeats` | a connected seat has a socket | a seat made over REST, or by a v1 join whose token is then refused, has none (`RoomService.ts:42-111`, `gateways.ts:260-310`); neither has one whose socket joined another room |
| | `EverySilentSocketIsHungUp` | `gateways.ts:22-24`: every socket is reaped | only seated ones are |
| `MCRoomSocketsOpen` | `ReadyLobbiesStart` | `rooms.rs:234-235`: all ready, the race starts | not when the last unready pilot leaves |
| | `TokensWorkOnce` | `rooms.rs:286-288`: a token goes stale on first reuse | two overlapping uses both pass the check |
| | `OnlySeatedSocketsHear` | `rooms.rs:37`: events go to seated sockets | a socket that left still hears them |
| `MCScoreUploadOpen` | `BestIsRemembered` | the best run reaches the ladder | a worse later run erases it from the board and the queue |
| | `NewerEntrySurvives` | `OfflineOutbox.ts:13`: success removes the entry sent | it removes whatever has its id, a newer run included |
| | `NewBestsArePublished` | `Leaderboard.ts:417`: new bests are published | the best is read after the run was written: none is new |
| `MCCircuitBreakerOpen` | `OneProbe` | `CircuitBreaker.ts:108`: one probe | half-open lets all through |
| | `OnlyProbesDouble` | `CircuitBreaker.ts:43`: a failed probe doubles the cooldown | so does an older request's failure |
| | `BurstsTrip` | `CircuitBreaker.ts:80`: a sliding window | the window never restarts without a success |
| | `RejectionsAreAnswers` | `fetchJson.ts:176-177`: only 5xx and network errors count | 4xx count too |
| `MCGameFlowOpen` | `FlightsCanEnd` | the placeholder is over in seconds | left on the screen after a result, the valve of `Game.ts:1310` brings back the state before it, "playing", and a recorded run is in the air for good |
| | `BonusOncePerRun`, `WindsAreCapped` | one bonus, so many second winds | on a portal a reward whose promise settles after the valve is granted although the offer was used again |
| | `DuelsRateOnce` | a duel moves the rating once | a duel that was rated, put back in the air by the valve and set up anew by a shared run that loads late has no record, and is rated again at the line |
| | `HillsHoldStill` | new hills never come up under a live flight | a shared run that loads late rebuilds them under a flight (`Game.ts:4534`) |
| | `PracticeIsOffline` | the search disconnects before AI practice | `startRun` opens a seat for every race, against AI pilots too (`Game.ts:6141`) |
| | `NoFreeRetries` | a duel abandoned is a loss | not when it is flown again from the pause or by the R key |
| | `SearchesAreHonest` | the search never drops a pilot into a bot race | it does when another run has overtaken it |
| `MCPurseOpen` | `StipendOnce` | the stipend is once a day | its date is set after the persist (`Game.ts:4355`): a reload pays again |
| | `CupsOnce` | a cup pays its tier once | the `Tournaments` object keeps the record of the save before an import or a reset |
| | `MonthsAreSold` | a month of VIP is granted once | an entitlement the server keeps is granted anew whenever the month has lapsed (`Game.ts:5214`) |
| | `PaidForIsOwned` | what was paid for is owned | storage may take the payment's write and refuse the next (`SaveData.ts:623`) |
| | `PrestigeCosts` | a rebirth costs nest levels | it looks at `nestLevel`, which missions alone can raise (`SaveData.ts:692`) |
| `MCPeerRoomOpen` | `OnePilotPerPlace` | a place is one pilot's | the count of places stays with the leader who left (`PokiNetlib.ts:374`) |
| | `NobodyWaitsOutside` | a late peer flies too | quick match joins racing lobbies too, and the start is not said again (`PokiNetlib.ts:292`) |
| `MCSocialOpen` | `LapsedSuspensionsAreOver` | `IdentityService.ts:335`: lapses heal on every read | `FriendsService.ts:105` reads the status nobody expired |
| | `OwnersRule` | `SquadService.ts:176`: ownership by succession only | `:179` lets the owner take another role, and the squad has none |
| | `CupsNeverOverfull` | entries up to `maxEntries` | `TournamentService.ts:224` enters without the check of `:163` |
| | `PrizesAreHanded` | a granted prize reaches its pilot | a distribution banks the grant (`:297`) and hands nothing out; the claim then finds it banked (`:315`) |
| | `SuspensionsLast` | a suspension lasts | `IdentityService.ts:228`: a mute overwrites it |
| | `OpenCasesKept` | cases are decided before they go | `ModerationService.ts:59` cuts the oldest |
| | `MergesKeepScores` | `IdentityService.ts:64-65`: progress is merged | `:84` deletes the profile and leaves its scores behind |
| | `ActiveOwnersStay` | `SquadService.ts:9-12`: inactive owners are replaced | `:362` looks at activity that runs refresh only in a pilot's first squad |

### Fairness

`RaceSession!FairSpec`: the tick timer is a `setInterval` that lives as long as
the room, and time passes. Nothing is assumed of pilots. `RoomService!FairSpec`
adds the prune timer and, per room, the tick and the race cap, which
`SessionsEnd` shows every race reaches. `RaceGateway!FairSpec`: the runtime
delivers close events of sockets whose peer is gone, housekeeping and tick
timers run, and the grace of a seat nobody touches runs out (nothing is assumed of the sockets). `BreakerFairSpec`: every request ends (`fetchJson` has a timeout), clocks advance, and the game
keeps asking; the last is an assumption on the player, for without a request
nothing can heal, by design. `GameFlow!FairSpec`: the frame loop runs, so the
valve and the search's window come to their ends; nothing is assumed of the
player or of the advertising SDK. `PeerRoom!FairSpec`: links come up, deliver what
they carry and are noticed when they go down, the service's word on who leads
arrives, and the heartbeat beats; nothing is assumed of players, nor that the
service answers a join.
`Purse` and `Social` have no liveness to state: nothing there happens unless
somebody asks.

## 4. The proofs

Every theorem holds for all values of the constants that satisfy the module's
assumption (`SessionAssumption`, `ServiceAssumption` and so on, which only say
that sizes and times are natural numbers, that thresholds are positive, that the
first cooldown is no longer than the last, that subsets are subsets and that the
values standing for "none" are not ids). `ServiceAssumption` also says that the
players are finitely many. In `RoomSockets` finiteness is proved, not assumed:
the seats of a room are numbered, and a step adds one. The
bounds in the guards (`MaxDay`, `MaxSeats`, ...) are constants too, so they bound
nothing in a theorem but that each behaviour has some limit.

The runs check each property on a small instance; the theorem of the same
property says it of every size. Each module has one inductive invariant, and a
lemma per action or group of actions that keeps it; lemmas about the operators
come first.

`RaceSessionProofs` (invariants `TypeOK`, `host = HostOf(seats)`, `PlacesInv`,
`OrderInv`):

- `TypeCorrect`: one lemma per group of actions; the tick needs that the set of
  abandoned seats is finite and their places bounded.
- `HostCorrect`: `HostOf` is a function of which seats are connected, so a step
  that leaves phases alone leaves the host alone (`SamePhases`), and all others
  call `migrateHost`. Rests on the least element of a finite set of seat numbers
  (`FirstIsMember`).
- `PlacesCorrect`: `PlacesUnique` is not inductive. `PlacesInv` also says that
  every announced place is below `nextPlace` and that a seat's finish record is
  among the announcements, so the next place is new; a wave of timeouts numbers
  its seats by an injection (`AbandonedPlaces`), the race cap by distance order
  (`DistancePlaces`).
- `ResultsCorrect`: from the same induction: the race completes only when each
  seat left has a finish record.
- `StandingsCorrect`: that the standings are sorted by time and distance says
  nothing of places. `OrderInv` adds that nobody seated has given up, that no
  finish time lies beyond the race's, and that a better place was taken no later;
  then sorting by time is sorting by place (`StandingsOrder`).
- `PlacesFill`: the places announced are exactly 1 to `nextPlace - 1`. A step that
  announces as many distinct places as the counter moves on fills the gap
  (`AwardFills`: an injection between finite sets of equal size), whether it is one
  finish or a whole wave (`TickFills`).
- `RacesDoEnd`: a step that places or removes the last pilot in flight ends the
  race, since every way to do so ends in `maybeComplete`; any other step leaves the
  one in flight where he was (`FlyingStay`).
- `SeatsCorrect`, `FinishesCorrect`, `GraceCorrect`: one seat per player and the
  capacity; two action properties, by cases on the actions that write a seat.
- `Refinement`: `Init` maps to `Init` and each action to a step of `RaceRoom` or
  a stutter.

`RoomServiceProofs` (`ServiceInv`): suspensions, capacity and empty closed rooms
are invariants of each room (`RoomsOK`), and `order` is a strict total order of
the live codes, of which there are finitely many. `MatchmakingAgrees` needs the
last: there is a first candidate, and what made it one is what `join` checks.
`SlotsAreHandedBack`: if no other room takes the pilot in, the race the seat waits
in is the only candidate, full or not, and `join` reattaches it.

`RaceGatewayProofs` (`GatewayInv`): no socket names a seat number that is not drawn
yet, and one that names a seat has the session that seat is in (`LinksOK`); a pilot
has one seat of a room at most (`OneSeat`). From the first, no fresh seat can come
to life under an id some socket still holds (`OutlivedAreMute`). For `OnlyMovesStrand`
each way a socket goes away drops its seat, whether the seat has gone quiet or is
back. None has a hypothesis on rooms, tokens or REST; that a connected seat has a
socket is false with them, and is in the table above.

`RoomSocketsProofs` (`SocketsInv`, with `RegistryInv` for the registry alone):
every seat is in the locals of an open task; a token that was used is behind its
seat; and, between the two calls of a reconnect, a task has no seat of its own
and a token of the past (`ChecksAreFree`). A seat number that was drawn is not
drawn again, so no later seat can match a token. So a check that passes is for a
generation no used token has (`TokensStayShut`), although, as the table says, two
reconnects whose checks had both passed both come through.

`SocialProofs` (`SocialInv`, one part per module that is composed):

- `PilotsInv`: a profile that a platform identity leads to is no guest's, and
  only guests are merged away; that is why `LinksResolve` survives merges.
- `SquadsInv`: `OwnersMatch`, and for the goal that no run is counted after the
  goal's week, which is not after today's.
- `CupsInv`: `OneTierPerBest` is not inductive; the best of every ledger row must
  also be banked in its entry (`LedgerOK`).
- `RunsInv`: the runs of all rows and entries are in the index, and no two agree,
  so a run in the index is never taken again.

Each route changes one or two of the parts; the others are kept because what
they look at is unchanged. Three results rest on an induction of their own beside
`SocialInv`:

- `OneRequestHolds` is inductive as it stands: the one route that adds a request
  looks first for one in either direction (`RequestsGrow`).
- `StandingsHold`: prizes change what is banked and no best (`PaidSettled`), and
  entries change only before the end.
- `BlockedStayOutHolds`, an action property, needs that nobody who is blocked waits
  for an answer (`BlockedDoNotWait`): an approval does not look at the list of
  blocked pilots, so it is safe only because a block takes the request away.

`ClientProofs`, one invariant per module:

- `CircuitBreaker` (`BreakerInv`): while closed, the failures counted are fewer
  than the threshold, are the last ones of the history, and none is older than the
  window (`CountIsRecent`). Then a trip is on the threshold's failure.
- `ScoreUpload` (`UploadInv`): the places and the numbers in the queue are
  distinct, storage mirrors the queue unless the last write was refused, and an
  entry's attempts together with the drains that are sending it stay within
  `MaxTries + |Drains| - 1` (`MostTries`): overlapping drains may each post an entry
  that has one try left. What is left of the queue after a removal is found through
  the place of each entry (`Standing`), since a theorem about `SelectSeq` would be
  an induction over the sequence. `KeysAreUnique` is `OneEntryPerKey`.
- `PeerRoom` (`PeerInv`): no theorem has a hypothesis on who leaves. A place carries
  who gave it, so that places of two leaders may clash (they do, see the table) and
  those of one may not. `Awards` says of every place some screen shows, or a message
  still carries, that its giver has that pilot among those who finished and has
  counted that far, unless it has gone; that no two pilots were told the same place
  by one giver; and that of several places a leader gave itself, flight after flight,
  it shows the last. A message is taken from a link in order and its place was
  carried before, so a step adds nothing to what was told but the next place of
  a leader.

`GameFlowProofs` (`FlowInv`): nothing is assumed of promises, and the valve fires at
any time. `WebWindsAreCapped` needs that where a second wind can still be granted (an
offer, the placeholder that pays for one, or the state the valve leads back to) one is
left (`Windable`), and that on the web no promise is pending. `FlightsAreBookedOnce`
is an action property: each action's effect on the record, the flight's number and
the rating is one of a few (`Books`). It does not say that a recorded flight stays on
the ground, which is false (`FlightsCanEnd`), nor that a duel is rated once whatever
sets it up again (`DuelsRateOnce`), which is false for the same reason.

`PurseProofs` (`PurseInv`): every save, in memory, in storage or in a save code,
is right in itself: what was paid is stamped, no stamp is of a day to come, and
who owns no starter was not paid one (`PaidRight`). A claim compares its stamp
with today's before it is paid, so what is stamped earlier can be paid again only
under a later stamp; and each save that a handler persists on its way, not only
the last, is right, so that it does not matter which of them storage takes
(`WriteKeeps`). Loading, importing and booting start from a save that is right.
`NothingIsLost` adds `Kept` for as long as no write was refused: then only the
last save of a handler counts, and it is kept. `DiskCorrect` (`DiskKeepsUp`)
follows from what a step writes (`StepWrites`): what a handler leaves in memory is
what it persisted last, the stipend's stamp apart. The stipend and the cups are
outside `PaidOnce`: the stipend's stamp is not persisted, and the cups' record may be
another save's.

What attempts at proof changed in the models: `Rematch` and the first crowd of
`Social` were written with overlapping arms of a CASE, which names either; they
say now which one comes first, as the code does. `order` was a number per code,
which hid why a first candidate exists. Fields of records are written in one
update without reference to one another's old values. The outbox's filter is
written with the rank of each entry that stays (`At`) instead of `SelectSeq`, and
`Tracked` of `PeerRoom` takes the set of peers to follow instead of being called
once per peer.

Only model-checked:

- all liveness (`SessionsEnd`, `AbandonedSeatsAreFreed`, `BreakerHeals`,
  `BreaksEnd`, `SearchesResolve`, `BarrierOpens`, `GreetingsEnd`, and outside the
  runs `FinishedRoomsGo`), which the prover
  does not reach;
- `FlappingBacksOff`: the cooldown is a power of two, defined by recursion;
- the bounds in `TypeOK` of `Social` (days, numbers of squads and cups) and the
  types of requests and cases; `SocialInv` has the types of everything else.

Every other property of a passing run is a theorem, and so is every other
property of the table of those that hold.

## 5. Not modelled, and the plan

Not modelled because a finite-state model has nothing to say of it: rendering,
audio, layout, physics, JSON shapes, signatures, logging; these are most of the
lines of the repository. Left out of modules that exist:

- `RaceSession`, `RoomService`, `RaceGateway`: match tokens and signatures,
  result submission, room listings, frame decoding, rate limits.
- `RaceGateway`: two legacy sockets at once; frame numbers (they restart with the
  socket while the seat's last number does not, so that frames of a socket that came
  back are taken for replays until they overtake it, `gateways.ts:604`).
- `GameFlow`: scores, terrain, the tutorial, the shop's rewarded coins and the panels
  without control.
- `Purse`: mission progress, amounts of coins, what a crate holds.
- `PeerRoom`: motion between peers, chat and emotes; `startNow` before there is a
  connection, and rooms of AI pilots; several lobbies.
- `Social`: cooldowns of seconds and minutes (a tick is a day); mutes in squads,
  the text of shouts, reports and event lists; privacy settings other than
  friend requests; entry attempts; achievements and ghosts; token signing;
  ranks and scopes of boards, computed on reading.

Hazards met while modelling and not yet covered: club and leave routes that stop
half-way at a squad the pilot owns (`http/legacy.ts:447`); the season's snapshot
overwritten by each cup that finishes (`TournamentService.ts:142`); closing a
registration ahead of its schedule (`:112`, `:124`); the legacy submission
without a suspension check (`LeaderboardService.ts:128`); a case that is decided
before its penalty throws (`ModerationService.ts:79-88`); a second seat for a
pilot whose finished seat left the grace window (`race-session.ts:219`).

Not modelled yet, in the order in which it is planned:

1. `LegacyRooms` (`legacy.rs`): re-join under an old socket, the start barrier,
   places after a rejoin. `MotionEnvelope` (`validate.rs` and the Node
   frame checks): gaps longer than the sample interval, drift by tolerance.
2. `RaceClient` (`Realtime.ts`, `MassRace.ts`) composed with `RaceGateway`.
3. `StateFile` (`store/db.ts`: debounce, crash, failed flush) under an abstract
   durable map; `CloudSave` on top with the client's merge.
4. `Entitlements` (payment webhooks, replays) and the boards' read-then-write.
5. `GhostStore`, `Watchdog`, `DurableSet`, the rate limiter.

Abstract specifications to state with them: a set of seats with leases for both
gateways, an at-least-once register for the outbox, a durable map for the store,
an exactly-once ledger for rewards and entitlements.

Proofs that would come next: places in `PeerRoom` with a leader that hands its count
over; abstract specifications for the registry of the Rust service (seats with
leases) and for the ledger of a cup, and that they are implemented.
