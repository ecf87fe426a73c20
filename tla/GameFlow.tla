------------------------------ MODULE GameFlow ------------------------------
(***************************************************************************)
(* The life of a run in the client: src/src/game/Game.ts moves one game    *)
(* through menu, flight, pause, second wind, advertising break and result  *)
(* card, while three things outside it answer in their own time: the       *)
(* portal's advertising SDK, the search for a race, and the store a shared *)
(* run is loaded from.  One action is one UI action, one hot key, one      *)
(* settled promise or one decision of a frame; the code is synchronous     *)
(* between two of them.                                                    *)
(*                                                                         *)
(* Time is abstract: a countdown may run out at any moment.  Scores,       *)
(* terrain and physics are left out; a flight may meet any of its ends.    *)
(***************************************************************************)
EXTENDS Integers

CONSTANTS
    Tiers,      \* the players looked at, of {"free", "gold"}
    Players,    \* the builds and tiers looked at, of {"portal", "web"} \X Tiers
    WindCap,    \* second winds of a player of each tier (1, 2 or 99 in the code)
    MaxBreaks,  \* bound: unsettled breaks
    MaxWinds,   \* bound: second winds of a flight that still asks a portal for another
    MaxEpoch    \* bound: flights, and resets, of a session

VARIABLE g      \* the Game object, one field per field of the code

BreakKinds == {"resume", "multiplier", "continue"}   \* the portal's promises
GameStates == {"menu", "playing", "paused", "continue", "ad", "gameover"}
InFlight   == {"playing", "paused", "continue"}
RunKinds   == {"solo", "duel", "race", "versus", "none"}

ASSUME FlowAssumption ==
    /\ Tiers \subseteq {"free", "gold"} /\ Players \subseteq {"portal", "web"} \X Tiers
    /\ WindCap \in [Tiers -> Nat] /\ MaxBreaks \in Nat /\ MaxWinds \in Nat /\ MaxEpoch \in Nat

Games ==
    [state : GameStates, preAd : GameStates \cup {"none"}, screen : {"main", "live", "sub"},
     edition : {"portal", "web"}, tier : Tiers,
     kind : RunKinds, epoch : Int, open : BOOLEAN, recorded : BOOLEAN, asleep : BOOLEAN,
     claims : Nat, winds : Nat, flown : BOOLEAN, duel : {"", "won", "lost"},
     rated : Nat,
     mm : {"none", "searching", "waiting"}, local : BOOLEAN, room : BOOLEAN, live : BOOLEAN,
     seat : {"off", "lobby"},
     adFor : {"none", "continue", "interstitial"}, adDone : BOOLEAN, skipAd : BOOLEAN,
     loading : BOOLEAN, breaks : [BreakKinds -> Nat]]

TypeOK ==
    /\ g \in Games /\ g.epoch \in 0..MaxEpoch
    /\ g.breaks["resume"] + g.breaks["multiplier"] + g.breaks["continue"] <= MaxBreaks

Init ==
    \E p \in Players :
      g = [state |-> "menu", preAd |-> "none", screen |-> "main", edition |-> p[1], tier |-> p[2],
           kind |-> "none", epoch |-> 0, open |-> FALSE, recorded |-> FALSE, asleep |-> FALSE,
           claims |-> 0, winds |-> 0, flown |-> FALSE, duel |-> "",
           rated |-> 0,
           mm |-> "none", local |-> FALSE, room |-> FALSE, live |-> FALSE, seat |-> "off",
           adFor |-> "none", adDone |-> FALSE, skipAd |-> FALSE, loading |-> FALSE,
           breaks |-> [k \in BreakKinds |-> 0]]

-----------------------------------------------------------------------------
(* What the handlers are built from.                                       *)

\* setState: entering a break remembers where it was entered from.  What the placeholder
\* was for is read only while it is shown, and forgotten here with it.
SetState(x, s) ==
    [x EXCEPT !.state = s, !.adDone = FALSE,
              !.adFor = IF s = "ad" THEN @ ELSE "none",
              !.preAd = IF s = "ad" THEN x.state ELSE IF x.state = "ad" THEN "none" ELSE @]

\* setScreen: no race screen over a paused flight; leaving the room withdraws "ready".
SetScreen(x, s) == IF x.state = "paused" /\ s = "live" THEN x ELSE [x EXCEPT !.screen = s]

\* closePauseScreen
ClosePause(x) == SetScreen([x EXCEPT !.seat = IF x.screen = "live" THEN "off" ELSE @], "main")

\* resetRun: `idle` is the menu's demo flight, not a run of the player's.
ResetRun(x, idle) ==
    [x EXCEPT !.epoch = @ + 1, !.open = ~idle, !.recorded = FALSE, !.asleep = FALSE,
              !.claims = 0, !.winds = 0, !.flown = FALSE]

\* rebuildWorld: new hills, and the demo flight over them.
RebuildWorld(x) == ResetRun(x, TRUE)

Disconnect(x) == [x EXCEPT !.seat = "off", !.live = FALSE]

\* startRun: every launch comes through here, whatever was in the air before.
StartRun(x, kind) ==
    LET y == ResetRun([x EXCEPT !.kind = kind, !.duel = ""], FALSE)
        z == IF kind = "race" THEN [y EXCEPT !.seat = "lobby"] ELSE Disconnect(y)
    IN  SetScreen(SetState(z, "playing"), "main")

\* startVersus: two birds on one screen; nothing of it is banked.
StartVersus(x) ==
    LET y == ResetRun([Disconnect(x) EXCEPT !.room = FALSE, !.kind = "versus"], TRUE)
    IN  SetScreen(SetState(y, "playing"), "main")

\* launchMatch
LaunchMatch(x, local) ==
    LET y == [x EXCEPT !.local = local]
    IN  StartRun(IF local THEN Disconnect(y) ELSE y, "race")

\* mutant: a duel that was decided at the line is lost again
FinishRunRated(x) ==
    {[y EXCEPT !.rated = @ + (IF x.kind = "duel" /\ ~x.recorded THEN 1 ELSE 0)] :
        y \in {SetState([x EXCEPT !.recorded = TRUE, !.asleep = TRUE], "gameover")}}

\* finishRun: recorded once; a duel cut short is a loss; the card or a placeholder ad.
FinishRun(x) ==
    IF x.recorded THEN {x}
    ELSE LET lost == x.kind = "duel" /\ x.duel = ""
             y == [x EXCEPT !.recorded = TRUE, !.asleep = TRUE, !.skipAd = FALSE,
                            !.rated = IF lost THEN @ + 1 ELSE @,
                            !.duel = IF lost THEN "lost" ELSE @]
         IN  {SetState(y, "gameover")} \cup
             (IF x.edition = "web" /\ x.tier = "free" /\ ~x.skipAd
              THEN {SetState([y EXCEPT !.adFor = "interstitial"], "ad")}
              ELSE {})

\* doContinue: the second wind, whoever paid for it.
DoContinue(x) == SetState([x EXCEPT !.winds = @ + 1, !.asleep = FALSE], "playing")

\* beginMatchmaking, cancelMatchmaking
BeginSearch(x) == [Disconnect(x) EXCEPT !.room = FALSE, !.local = FALSE,
                                        !.mm = "searching", !.seat = "lobby"]
CancelSearch(x) == [Disconnect(x) EXCEPT !.mm = "none"]

\* replayRun: an online race is searched for again, anything else flown again.
ReplayRun(x) ==
    CASE x.kind = "versus" -> StartVersus(x)
      [] x.kind = "race" /\ x.room /\ ~x.local ->
           BeginSearch(SetScreen(SetState([Disconnect(x) EXCEPT !.room = FALSE], "menu"), "live"))
      [] OTHER -> StartRun(x, x.kind)

\* goToMenu: leaving a duel that has been flown for a while forfeits it.
GoToMenu(x) ==
    LET forfeit == /\ x.state \in {"playing", "paused"}
                   /\ x.kind = "duel" /\ x.duel = "" /\ ~x.recorded /\ x.flown
        y == [Disconnect(x) EXCEPT !.room = FALSE, !.kind = "none", !.duel = "",
                                   !.rated = IF forfeit THEN @ + 1 ELSE @]
    IN  SetScreen(SetState(ResetRun(y, TRUE), "menu"), "main")

-----------------------------------------------------------------------------
(* Launches.  The screens that offer them stand over the menu or the card. *)

Room == g.epoch < MaxEpoch    \* bound, on the actions that reset the run

Flyable == g.state \in {"menu", "gameover"}

\* "start", "pick-mode", "play-daily", "play-gauntlet", "play-event", "race-40", "pvp-duel"
Play == Room /\ Flyable /\ \E k \in {"solo", "duel", "race"} :
            g' = StartRun([g EXCEPT !.room = IF k = "duel" THEN FALSE ELSE @], k)

Versus == Room /\ Flyable /\ g' = StartVersus(g)

\* "ai-pvp", "practice-ranked": an AI race, from the menu
Practice == Room /\ Flyable
            /\ g' = LaunchMatch([CancelSearch(g) EXCEPT !.room = FALSE], TRUE)

\* "retry", "restart-flight", the R key
Replay == /\ Room /\ g.state \in {"gameover", "paused", "playing"}
          /\ g' = ReplayRun(IF g.state = "paused" THEN ClosePause(g) ELSE g)

\* "start-room-now": the host's own start of a room with nobody else seated
StartRoomNow == Room /\ Flyable /\ g.screen = "live" /\ g.room /\ ~g.live
                /\ g' = LaunchMatch(g, FALSE)

\* "rematch"
Rematch == /\ Room /\ g.state = "gameover"
           /\ g' = IF g.kind \in {"duel", "versus"} THEN ReplayRun(g)
                 ELSE IF g.local THEN LaunchMatch(g, TRUE)
                 ELSE BeginSearch(g)

\* "menu": the pause card, the result card, or a flight
Leave == /\ Room /\ g.state \in {"playing", "paused", "gameover"}
         /\ g' = GoToMenu(IF g.state = "paused" THEN ClosePause(g) ELSE g)

\* openPauseScreen, setScreen and backScreen, as far as the run can tell
OpenScreen == /\ g.state \in {"menu", "paused", "gameover"}
              /\ \E s \in {"main", "sub"} :
                    /\ s # g.screen
                    /\ g' = SetScreen(IF g.screen = "live" THEN [Disconnect(g) EXCEPT !.room = FALSE]
                                                           ELSE g, s)

\* setSeedMode: Gold, off the portals; the picker is on the progress screen,
\* which the pause card opens too
PickSeed == /\ Room /\ g.tier = "gold" /\ g.edition = "web" /\ g.screen = "sub"
            /\ g.state \in {"menu", "paused", "gameover"}
            /\ g' = RebuildWorld(g)

\* dayTick: the hills of a new day, only under the resting menu
NewDay == Room /\ g.state = "menu" /\ g' = RebuildWorld(g)

-----------------------------------------------------------------------------
(* The flight, one outcome of fixedUpdate at a time.                       *)

Flying == g.state = "playing" /\ g.kind # "versus"

\* the flight earns coins, and lasts long enough to be forfeited
Soar == Flying /\ ~g.asleep /\ g' = [g EXCEPT !.flown = TRUE]

\* the finish line: a duel and a ranked race are rated here
CrossLine == /\ Flying /\ ~g.recorded /\ g.kind \in {"duel", "race"}
             /\ \E won \in BOOLEAN :
                  g' \in FinishRun(IF g.kind = "duel"
                                   THEN [g EXCEPT !.rated = @ + 1,
                                                  !.duel = IF won THEN "won" ELSE "lost"]
                                   ELSE g)

\* the knockout line: last of the pack, or the last one left
KnockedOut == Flying /\ ~g.asleep /\ g.kind = "race" /\ g' \in FinishRun(g)

\* mutant: one second wind too many
SunSetsLate == /\ Flying /\ ~g.asleep
               /\ g' = IF g.winds <= WindCap[g.tier]
                       THEN SetState([g EXCEPT !.asleep = TRUE], "continue")
                       ELSE SetState([g EXCEPT !.asleep = TRUE, !.recorded = TRUE], "gameover")

\* onDaylightOut: a second wind is offered while there are any and a way to pay
SunSets ==
    /\ Flying /\ ~g.asleep
    /\ LET slept == [g EXCEPT !.asleep = TRUE]
           offer == g.winds < WindCap[g.tier]
       IN  \/ offer /\ g' = SetState(slept, "continue")
           \/ (~offer \/ g.tier = "free") /\ g' \in FinishRun(slept)

\* versusTick, finishVersus
VersusEnds == g.state = "playing" /\ g.kind = "versus" /\ g' = SetState(g, "gameover")

Pause == g.state = "playing" /\ g' = SetState(g, "paused")   \* button, key, or a hidden tab

\* the second wind: bought with coins or Gold, declined, or timed out
ContinueBought == g.state = "continue" /\ g' = DoContinue(g)
ContinueRefused == g.state = "continue" /\ g' \in FinishRun(g)

-----------------------------------------------------------------------------
(* Advertising breaks.                                                     *)

Ask(x, k) == [x EXCEPT !.breaks[k] = @ + 1]
CanAsk ==
    /\ g.edition = "portal"
    /\ g.breaks["resume"] + g.breaks["multiplier"] + g.breaks["continue"] < MaxBreaks

\* A portal build may find its SDK without an ad surface (adsLive), at any break.

\* resumeFromPause: a sub-screen only closes; with live ads the way back is a break
Resume == /\ g.state = "paused"
          /\ IF g.screen # "main" THEN g' = ClosePause(g)
             ELSE \/ CanAsk /\ g' = Ask(SetState(g, "ad"), "resume")
                  \/ g' = SetState(g, "playing")

\* "multiply-run-coins": once per run, from the card; a portal enters the break before
\* it finds out whether it has one to show
Multiply == /\ g.state = "gameover" /\ g.claims = 0 /\ g.flown
            /\ \/ CanAsk /\ g' = Ask(SetState(g, "ad"), "multiplier")
               \/ g.edition = "portal" /\ g' = SetState(g, "ad")
               \/ g.edition = "web" /\ g' = [g EXCEPT !.claims = @ + 1]

\* "continue-ad": the portal's rewarded break, or the game's own placeholder
ContinueAd == /\ g.state = "continue"
              /\ IF g.edition = "portal"
                 THEN CanAsk /\ g.winds < MaxWinds /\ g' = Ask(SetState(g, "ad"), "continue")
                 ELSE g' = SetState([g EXCEPT !.adFor = "continue"], "ad")

\* what runs when the promise of a break settles
Settled(x, k, earned) ==
    CASE k = "resume" -> IF x.state \in {"paused", "ad"} THEN SetState(x, "playing") ELSE x
      [] k = "multiplier" ->
           LET y == IF earned THEN [x EXCEPT !.claims = @ + 1] ELSE x
           IN  IF y.state = "ad" THEN SetState(y, "gameover") ELSE y
      [] k = "continue" -> IF earned THEN DoContinue(x) ELSE SetState(x, "continue")

BreakSettles == \E k \in BreakKinds, earned \in BOOLEAN :
    /\ g.breaks[k] > 0
    /\ g' = Settled([g EXCEPT !.breaks[k] = @ - 1], k, earned)

\* mutant: the valve ends only the game's own placeholder
AdValveOfPlaceholder == /\ g.state = "ad" /\ g.adFor # "none"
                        /\ g' = SetState(g, "gameover")

\* the valve of the frame loop, for the portal's break and for the game's own placeholder:
\* back to the state before it; a promise may still settle
AdValve == /\ g.state = "ad"
           /\ g' = SetState(g, IF g.preAd \in {"none", "ad"} THEN "gameover" ELSE g.preAd)

\* the placeholder: its four seconds, then "ad-skip" or "ad-gold"
AdTimer == g.state = "ad" /\ g.edition = "web" /\ ~g.adDone /\ g' = [g EXCEPT !.adDone = TRUE]
CanSkip == g.state = "ad" /\ g.edition = "web" /\ g.adDone
AdSkip == CanSkip /\ g' = IF g.adFor = "continue" THEN DoContinue(g) ELSE SetState(g, "gameover")
AdGold == /\ CanSkip
          /\ \E y \in IF g.adFor = "continue" THEN FinishRun([g EXCEPT !.skipAd = TRUE])
                                              ELSE {SetState(g, "gameover")} :
                g' = SetScreen(y, "sub")

-----------------------------------------------------------------------------
(* Rooms, the search for a race, and the shared run.                       *)

\* "quick-match", "pvp-ranked", "pvp-storm"; "mm-cancel" and the escape key
Search == g.state = "menu" /\ g' = BeginSearch(g)
StopSearch == g.mm # "none" /\ g' = CancelSearch(g)
KeepSearching == g.mm = "waiting" /\ g.state = "menu" /\ g' = [g EXCEPT !.mm = "searching"]

\* "host-room", "join-room"
EnterRoom == /\ Flyable
             /\ g' = SetScreen([g EXCEPT !.room = TRUE, !.local = FALSE,
                                         !.seat = "lobby", !.live = FALSE], "live")

\* "mm-ai": the player gives the search up for the AI flock
TakeAi == Room /\ g.mm # "none" /\ g.state = "menu"
          /\ g' = LaunchMatch([g EXCEPT !.mm = "none"], TRUE)

\* pumpMatchmaking: the run has begun elsewhere, so the search is given up
PumpAway == Room /\ g.mm # "none" /\ g.state # "menu"
            /\ g' = LaunchMatch([g EXCEPT !.mm = "none"], TRUE)

\* mutant: the window closes on pilots only
WindowClosesOnPilots == g.mm = "searching" /\ g.state = "menu" /\ g.live
                        /\ g' = [g EXCEPT !.mm = "waiting"]

\* pumpMatchmaking: the window closes on pilots (wait for them), or on nobody (AI)
WindowCloses == /\ g.mm = "searching" /\ g.state = "menu"
                /\ IF g.live THEN g' = [g EXCEPT !.mm = "waiting"]
                   ELSE Room /\ g' = LaunchMatch([g EXCEPT !.mm = "none"], TRUE)

\* pumpMatchmaking: everybody left while the lobby waited
WaitAlone == g.mm = "waiting" /\ g.state = "menu" /\ ~g.live
             /\ g' = [g EXCEPT !.mm = "searching"]

PumpMatchmaking == PumpAway \/ WindowCloses \/ WaitAlone

\* the other pilots of the lobby come and go
PilotsMove == g.seat = "lobby" /\ g' = [g EXCEPT !.live = ~@]

\* pumpNetwork "start": the room's shared start, on the room's hills
NetStart == /\ Room /\ g.seat = "lobby" /\ g.live
            /\ g.mm # "none" \/ (g.state = "menu" /\ g.screen = "live" /\ g.room)
            /\ g' = LaunchMatch(RebuildWorld([g EXCEPT !.mm = "none", !.epoch = @ - 1]), FALSE)

\* pumpNetwork "interrupted": the room is gone
NetLost == /\ g.seat = "lobby"
           /\ g' = IF g.state \in {"playing", "paused"}
                   THEN SetScreen(SetState(Disconnect(g), "menu"), "live")
                   ELSE Disconnect(g)

\* "load-run": the answer rebuilds the hills, wherever the player is by then
LoadRun == Flyable /\ ~g.loading /\ g' = [g EXCEPT !.loading = TRUE]
RunLoaded == /\ Room /\ g.loading
             /\ g' = [RebuildWorld(g) EXCEPT !.loading = FALSE]
RunMissing == g.loading /\ g' = [g EXCEPT !.loading = FALSE]

-----------------------------------------------------------------------------
Next ==
    \/ Play \/ Versus \/ Practice \/ StartRoomNow
    \/ Replay \/ Rematch \/ Leave \/ OpenScreen \/ PickSeed \/ NewDay
    \/ Soar \/ CrossLine \/ KnockedOut \/ SunSets \/ VersusEnds \/ Pause
    \/ ContinueBought \/ ContinueRefused
    \/ Resume \/ Multiply \/ ContinueAd \/ BreakSettles \/ AdValve
    \/ AdTimer \/ AdSkip \/ AdGold
    \/ Search \/ StopSearch \/ KeepSearching \/ EnterRoom \/ TakeAi \/ PumpMatchmaking
    \/ PilotsMove \/ NetStart \/ NetLost
    \/ LoadRun \/ RunLoaded \/ RunMissing

Spec == Init /\ [][Next]_g

\* Fairness of the frame loop: it looks at the break and at the search on every frame.
FairSpec == Spec /\ WF_g(AdValve) /\ WF_g(PumpMatchmaking)
-----------------------------------------------------------------------------
(* Properties.                                                             *)

\* On the web, where a second wind is paid on the spot or by a placeholder, the pilot gets
\* no more of them than the tier allows: not by leaving the placeholder to the valve, which
\* offers the same wind again, nor by a flight the valve brought back.
WebWindsAreCapped == g.edition = "web" => g.winds <= WindCap[g.tier]

\* A flight is booked once, however often the valve or a late promise brings it back into
\* the air: its record stays until the next flight is set up, and a duel moves the rating
\* by one, when the flight has no record yet and gets one, or is given up.
FlightsAreBookedOnce ==
    [][/\ g.recorded /\ ~g'.recorded => g'.epoch > g.epoch
       /\ g'.rated # g.rated => /\ g.kind = "duel" /\ g'.rated = g.rated + 1
                               /\ ~g.recorded /\ (g'.recorded \/ g'.epoch > g.epoch)]_g

\* A flight in the air, paused or offered a second wind has not been recorded: every way
\* back into a flight leads to one that can still end (finishRun returns early on a
\* recorded run).
FlightsCanEnd == g.state \in InFlight => ~g.recorded

\* One claim per run: the triple-coins bonus is paid at most once for a run.
BonusOncePerRun == g.claims <= 1

\* The sun never wins on a technicality, nor the pilot: no more second winds than the tier
\* allows, on a portal too, although the reward's promise settles long after the offer was
\* checked.
WindsAreCapped == g.winds <= WindCap[g.tier]

\* A break cannot imprison the player: the ad state is always left again, although a portal
\* that has nothing to show leaves every control inert in it, and a placeholder waits for
\* the player.
BreaksEnd == (g.state = "ad") ~> (g.state # "ad")

\* A search for a race does not go on for ever over an empty lobby, nor over a flight.
SearchesResolve == (g.mm # "none") ~> (g.mm = "none" \/ g.live \/ ~Room)

\* A duel moves the rating at most once: it is rated only while it has no result.
DuelsRateOnce ==
    [][g'.rated # g.rated => g.kind = "duel" /\ g.duel = "" /\ g'.rated = g.rated + 1]_g

\* a step that begins another run of the player's
Relaunched == g'.epoch > g.epoch /\ g'.open

\* "A duel abandoned short of the line is a loss - no free retries on rating": a flown,
\* undecided duel that gives way to another run is rated as it does.
NoFreeRetries ==
    [][g.kind = "duel" /\ g.open /\ g.flown /\ g.duel = "" /\ ~g.recorded
       /\ Relaunched => g'.rated > g.rated]_g

\* New hills never come up under a live flight (dayTick's comment): what flies was started.
HillsHoldStill == g.state \in InFlight /\ g.kind # "versus" => g.open

\* An AI race is flown off line: the search "explicitly disconnects before starting
\* local AI practice".
PracticeIsOffline == g.state = "playing" /\ g.kind = "race" /\ g.local => g.seat = "off"

\* "The search never drops a pilot into a bot race": an AI race starts from the menu's
\* search only when the window closed on an empty lobby or the player asked for it.
SearchesAreHonest ==
    [][g.mm # "none" /\ g'.mm = "none" /\ Relaunched /\ g'.local => g.state = "menu"]_g
=============================================================================
