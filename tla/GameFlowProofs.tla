--------------------------- MODULE GameFlowProofs ---------------------------
(***************************************************************************)
(* Proofs about the life of a run, whatever the portal, the search and the *)
(* store answer, and however often the safety valve fires: a flight is     *)
(* booked once, and on the web nobody gets more second winds than the tier *)
(* allows.                                                                 *)
(***************************************************************************)
EXTENDS GameFlow, TLAPS

Total(b) == b["resume"] + b["multiplier"] + b["continue"]

\* The counters are within their bounds.
Bounded(x) == x.epoch \in 0..MaxEpoch /\ Total(x.breaks) <= MaxBreaks

\* Outside a break nothing is remembered of one.
Idle(x) == x.state # "ad" => x.preAd = "none"

\* On the web no promise is pending, and the second winds are within the cap.
WebSound(x) == x.edition = "web" => /\ \A k \in BreakKinds : x.breaks[k] = 0
                                    /\ x.winds <= WindCap[x.tier]

\* There is a second wind left where one may be granted.
Windable(x) == x.edition = "web" => x.winds < WindCap[x.tier]

\* What holds of the game in the middle of a handler, too.
Sound(x) == x \in Games /\ Bounded(x) /\ Idle(x) /\ WebSound(x)

\* A second wind is granted from an offer, from the placeholder it is paid with, or from
\* where the valve leads back to: one is left in each.
FlowOK(x) ==
    /\ Sound(x)
    /\ x.state # "ad" => x.adFor = "none"
    /\ "continue" \in {x.state, x.preAd, x.adFor} => Windable(x)

FlowInv == FlowOK(g)

\* A step's bookings: a record stays with its flight, and a duel is rated by one, in a
\* flight that had no record, as it gets one or is given up.
Books(x, y) ==
    /\ x.recorded /\ ~y.recorded => y.epoch > x.epoch
    /\ y.rated # x.rated => /\ x.kind = "duel" /\ y.rated = x.rated + 1
                            /\ ~x.recorded /\ (y.recorded \/ y.epoch > x.epoch)

\* y is x as far as the bookings can tell, and as far as the invariant can tell.
SameFlight(y, x) == /\ y.recorded = x.recorded /\ y.rated = x.rated
                    /\ y.epoch = x.epoch /\ y.kind = x.kind
Alike(y, x) ==
    /\ SameFlight(y, x)
    /\ y.state = x.state /\ y.preAd = x.preAd /\ y.edition = x.edition /\ y.tier = x.tier
    /\ y.winds = x.winds /\ y.adFor = x.adFor /\ y.breaks = x.breaks

-----------------------------------------------------------------------------
(* What the handlers are built from                                        *)

\* A change of fields the invariant does not look at.
LEMMA AlikeOK ==
  ASSUME NEW x, NEW y \in Games, Alike(y, x)
  PROVE  /\ Sound(x) => Sound(y)
         /\ FlowOK(x) => FlowOK(y)
         /\ Windable(x) => Windable(y)
  BY DEF FlowOK, Sound, Alike, SameFlight, Bounded, Idle, WebSound, Windable

\* A step within a flight books nothing; one that begins another without rating neither.
LEMMA Unbooked ==
  ASSUME NEW x, NEW y, SameFlight(y, x) \/ (y.rated = x.rated /\ y.epoch > x.epoch)
  PROVE  Books(x, y)
  BY DEF Books, SameFlight

\* A fresh flight has no second wind behind it.
LEMMA CapIsNat ==
  ASSUME NEW x \in Games
  PROVE  /\ WindCap[x.tier] \in Nat /\ x.winds \in Nat /\ x.epoch \in Int /\ x.rated \in Nat
         /\ MaxEpoch \in Nat /\ MaxBreaks \in Nat /\ MaxWinds \in Nat
         /\ x.breaks \in [BreakKinds -> Nat]
  BY FlowAssumption DEF Games

\* setState writes the state, and where a break was entered from.
LEMMA SetStateGame ==
  ASSUME NEW x \in Games, NEW s \in GameStates
  PROVE  LET y == SetState(x, s)
         IN  /\ y \in Games /\ y.state = s /\ SameFlight(y, x)
             /\ y.preAd = IF s = "ad" THEN x.state ELSE IF x.state = "ad" THEN "none" ELSE x.preAd
             /\ y.adFor = IF s = "ad" THEN x.adFor ELSE "none"
             /\ y.edition = x.edition /\ y.tier = x.tier
             /\ y.winds = x.winds /\ y.breaks = x.breaks
<1>. DEFINE a == IF s = "ad" THEN x.adFor ELSE "none"
            p == IF s = "ad" THEN x.state ELSE IF x.state = "ad" THEN "none" ELSE x.preAd
            y == [x EXCEPT !.state = s, !.adDone = FALSE, !.adFor = a, !.preAd = p]
<1>1. a \in {"none", "continue", "interstitial"} /\ p \in GameStates \cup {"none"}
  BY DEF Games
<1>2. SetState(x, s) = y
  BY DEF SetState
<1>. HIDE DEF a, p
<1>3. y \in Games
  <2>1. ASSUME NEW q \in GameStates, NEW c \in {"none", "continue", "interstitial"},
               NEW r \in GameStates \cup {"none"}
        PROVE  [x EXCEPT !.state = q, !.adDone = FALSE, !.adFor = c, !.preAd = r] \in Games
    BY ZenonT(60) DEF Games
  <2>. QED  BY <1>1, <2>1
<1>4. /\ y.state = s /\ y.preAd = p /\ y.adFor = a /\ SameFlight(y, x)
      /\ y.edition = x.edition /\ y.tier = x.tier /\ y.winds = x.winds /\ y.breaks = x.breaks
  BY DEF Games, SameFlight
<1>. HIDE DEF y
<1>. QED  BY <1>2, <1>3, <1>4 DEF a, p

\* setState out of a break, or to where no break is under way.
LEMMA SetStateOK ==
  ASSUME NEW x, Sound(x), NEW s \in GameStates \ {"ad"}, s = "continue" => Windable(x)
  PROVE  FlowOK(SetState(x, s)) /\ SameFlight(SetState(x, s), x) /\ SetState(x, s).state = s
<1>. DEFINE y == SetState(x, s)
<1>0. x \in Games
  BY DEF Sound
<1>1. /\ y \in Games /\ y.state = s /\ SameFlight(y, x)
      /\ y.preAd = (IF x.state = "ad" THEN "none" ELSE x.preAd) /\ y.adFor = "none"
      /\ y.edition = x.edition /\ y.tier = x.tier
      /\ y.winds = x.winds /\ y.breaks = x.breaks
  BY <1>0, SetStateGame
<1>. HIDE DEF y
<1>2. y.preAd = "none"
  BY <1>1 DEF Sound, Idle
<1>3. Sound(y)
  BY <1>1, <1>2 DEF Sound, Bounded, Idle, WebSound, SameFlight
<1>4. FlowOK(y)
  BY <1>1, <1>2, <1>3 DEF FlowOK, Windable
<1>. QED  BY <1>1, <1>4 DEF y

\* setState into a break: what it leads back to is what it came from.
LEMMA BreakOK ==
  ASSUME NEW x, Sound(x), x.state = "continue" \/ x.adFor = "continue" => Windable(x)
  PROVE  FlowOK(SetState(x, "ad")) /\ SameFlight(SetState(x, "ad"), x)
<1>. DEFINE y == SetState(x, "ad")
<1>0. x \in Games
  BY DEF Sound
<1>1. /\ y \in Games /\ y.state = "ad" /\ SameFlight(y, x)
      /\ y.preAd = x.state /\ y.adFor = x.adFor
      /\ y.edition = x.edition /\ y.tier = x.tier
      /\ y.winds = x.winds /\ y.breaks = x.breaks
  BY <1>0, SetStateGame DEF GameStates
<1>. HIDE DEF y
<1>2. Sound(y)
  BY <1>1 DEF Sound, Bounded, Idle, WebSound, SameFlight
<1>3. FlowOK(y)
  BY <1>1, <1>2 DEF FlowOK, Windable
<1>. QED  BY <1>1, <1>3 DEF y

\* setScreen
LEMMA SetScreenGame ==
  ASSUME NEW x \in Games, NEW s \in {"main", "live", "sub"}
  PROVE  SetScreen(x, s) \in Games /\ Alike(SetScreen(x, s), x)
<1>1. CASE x.state = "paused" /\ s = "live"
  BY <1>1 DEF SetScreen, Alike, SameFlight
<1>2. CASE ~(x.state = "paused" /\ s = "live")
  <2>1. SetScreen(x, s) = [x EXCEPT !.screen = s]
    BY <1>2 DEF SetScreen
  <2>2. Alike([x EXCEPT !.screen = s], x)
    BY DEF Games, Alike, SameFlight
  <2>3. [x EXCEPT !.screen = s] \in Games
    BY DEF Games
  <2>. QED  BY <2>1, <2>2, <2>3
<1>. QED  BY <1>1, <1>2

\* A screen that opens over x.
LEMMA ScreenOver ==
  ASSUME NEW x, FlowOK(x), NEW s \in {"main", "live", "sub"}
  PROVE  FlowOK(SetScreen(x, s)) /\ Alike(SetScreen(x, s), x)
  BY SetScreenGame, AlikeOK DEF FlowOK, Sound

\* closePauseScreen
LEMMA ClosePauseGame ==
  ASSUME NEW x \in Games
  PROVE  ClosePause(x) \in Games /\ Alike(ClosePause(x), x)
<1>. DEFINE y == [x EXCEPT !.seat = IF x.screen = "live" THEN "off" ELSE @]
<1>1. y \in Games /\ Alike(y, x)
  BY ZenonT(40) DEF Games, Alike, SameFlight
<1>. HIDE DEF y
<1>2. SetScreen(y, "main") \in Games /\ Alike(SetScreen(y, "main"), y)
  BY <1>1, SetScreenGame
<1>3. ClosePause(x) = SetScreen(y, "main")
  BY DEF ClosePause, y
<1>. QED  BY <1>1, <1>2, <1>3 DEF Alike, SameFlight

\* disconnect
LEMMA DisconnectGame ==
  ASSUME NEW x \in Games
  PROVE  Disconnect(x) \in Games /\ Alike(Disconnect(x), x)
  BY ZenonT(40) DEF Games, Disconnect, Alike, SameFlight

\* resetRun writes the run, not where the game stands.
LEMMA ResetRunGame ==
  ASSUME NEW x \in Games, NEW idle \in BOOLEAN
  PROVE  LET y == ResetRun(x, idle)
         IN  /\ y \in Games /\ y.epoch = x.epoch + 1 /\ y.recorded = FALSE /\ y.winds = 0
             /\ y.state = x.state /\ y.preAd = x.preAd /\ y.adFor = x.adFor
             /\ y.edition = x.edition /\ y.tier = x.tier /\ y.kind = x.kind
             /\ y.rated = x.rated /\ y.breaks = x.breaks
<1>. DEFINE b == ~idle
            e == x.epoch + 1
            y == [x EXCEPT !.epoch = e, !.open = b, !.recorded = FALSE, !.asleep = FALSE,
                           !.claims = 0, !.winds = 0, !.flown = FALSE]
<1>1. b \in BOOLEAN
  OBVIOUS
<1>2. e \in Int
  <2>1. x.epoch \in Int
    BY DEF Games
  <2>. QED  BY <2>1
<1>3. ResetRun(x, idle) = y
  BY DEF ResetRun
<1>. HIDE DEF b, e
<1>4. y \in Games
  BY <1>1, <1>2 DEF Games
<1>5. /\ y.epoch = e /\ y.recorded = FALSE /\ y.winds = 0
      /\ y.state = x.state /\ y.preAd = x.preAd /\ y.adFor = x.adFor
      /\ y.edition = x.edition /\ y.tier = x.tier /\ y.kind = x.kind
      /\ y.rated = x.rated /\ y.breaks = x.breaks
  BY DEF Games
<1>. HIDE DEF y
<1>. QED  BY <1>3, <1>4, <1>5 DEF e

\* Another flight may be set up over x.
CanLaunch(x) == /\ x \in Games /\ x.epoch + 1 \in 0..MaxEpoch /\ Total(x.breaks) <= MaxBreaks
                /\ Idle(x) /\ WebSound(x)

LEMMA LaunchAlike ==
  ASSUME NEW x, NEW y \in Games, CanLaunch(x), Alike(y, x)
  PROVE  CanLaunch(y)
  BY DEF CanLaunch, Alike, SameFlight, Idle, WebSound

\* A flight that is set up is sound.
LEMMA ResetSound ==
  ASSUME NEW x, CanLaunch(x), NEW idle \in BOOLEAN
  PROVE  LET y == ResetRun(x, idle)
         IN  /\ Sound(y) /\ y.epoch = x.epoch + 1 /\ y.rated = x.rated
             /\ y.state = x.state /\ y.preAd = x.preAd /\ y.adFor = x.adFor
             /\ y.edition = x.edition /\ y.tier = x.tier /\ y.winds = 0
<1>. DEFINE y == ResetRun(x, idle)
<1>1. /\ y \in Games /\ y.epoch = x.epoch + 1 /\ y.winds = 0
      /\ y.state = x.state /\ y.preAd = x.preAd /\ y.adFor = x.adFor
      /\ y.edition = x.edition /\ y.tier = x.tier
      /\ y.rated = x.rated /\ y.breaks = x.breaks
  BY ResetRunGame DEF CanLaunch
<1>. HIDE DEF y
<1>2. WindCap[y.tier] \in Nat
  BY <1>1, CapIsNat
<1>3. 0 <= WindCap[y.tier]
  BY <1>2
<1>4. Bounded(y) /\ Idle(y) /\ WebSound(y)
  BY <1>1, <1>3 DEF CanLaunch, Bounded, Idle, WebSound
<1>. QED  BY <1>1, <1>4 DEF Sound, y

\* What the invariant allows to launch over.
LEMMA FlowLaunch ==
  ASSUME NEW x, FlowOK(x), x.epoch < MaxEpoch
  PROVE  CanLaunch(x)
<1>1. MaxEpoch \in Nat /\ x.epoch \in 0..MaxEpoch
  BY FlowAssumption DEF FlowOK, Sound, Bounded
<1>2. x.epoch + 1 \in 0..MaxEpoch
  BY <1>1
<1>. QED  BY <1>2 DEF FlowOK, Sound, CanLaunch, Bounded

\* rebuildWorld keeps the invariant wherever the game stands, a break included.
LEMMA RebuildOK ==
  ASSUME NEW x, FlowOK(x), x.epoch < MaxEpoch
  PROVE  LET y == RebuildWorld(x)
         IN  FlowOK(y) /\ y.rated = x.rated /\ y.epoch = x.epoch + 1
<1>. DEFINE y == RebuildWorld(x)
<1>1. /\ Sound(y) /\ y.epoch = x.epoch + 1 /\ y.rated = x.rated
      /\ y.state = x.state /\ y.preAd = x.preAd /\ y.adFor = x.adFor
      /\ y.edition = x.edition /\ y.tier = x.tier /\ y.winds = 0
  BY FlowLaunch, ResetSound DEF RebuildWorld
<1>. HIDE DEF y
<1>2. WindCap[x.tier] \in Nat /\ x.winds \in Nat
  BY CapIsNat DEF FlowOK, Sound
<1>3. Windable(x) => Windable(y)
  BY <1>1, <1>2 DEF Windable
<1>4. FlowOK(y)
  BY <1>1, <1>3 DEF FlowOK
<1>. QED  BY <1>1, <1>4 DEF y

\* startRun
LEMMA StartRunOK ==
  ASSUME NEW x, CanLaunch(x), NEW kind \in RunKinds
  PROVE  LET y == StartRun(x, kind)
         IN  FlowOK(y) /\ y.rated = x.rated /\ y.epoch = x.epoch + 1
<1>. DEFINE w == [x EXCEPT !.kind = kind, !.duel = ""]
            y == ResetRun(w, FALSE)
            z == IF kind = "race" THEN [y EXCEPT !.seat = "lobby"] ELSE Disconnect(y)
            u == SetState(z, "playing")
            v == SetScreen(u, "main")
<1>1. /\ w \in Games /\ w.epoch = x.epoch /\ w.rated = x.rated /\ w.breaks = x.breaks
      /\ w.state = x.state /\ w.preAd = x.preAd /\ w.edition = x.edition
      /\ w.tier = x.tier /\ w.winds = x.winds
  BY DEF CanLaunch, Games
<1>. HIDE DEF w
<1>2. CanLaunch(w)
  BY <1>1 DEF CanLaunch, Idle, WebSound
<1>3. Sound(y) /\ y.epoch = x.epoch + 1 /\ y.rated = x.rated
  BY <1>1, <1>2, ResetSound
<1>. HIDE DEF y
<1>4. z \in Games /\ Alike(z, y)
  <2>0. y \in Games
    BY <1>3 DEF Sound
  <2>1. CASE kind = "race"
    BY ZenonT(40), <2>0, <2>1 DEF Games, Alike, SameFlight
  <2>2. CASE kind # "race"
    BY <2>0, <2>2, DisconnectGame
  <2>. QED  BY <2>1, <2>2
<1>. HIDE DEF z
<1>5. Sound(z)
  BY <1>3, <1>4, AlikeOK
<1>6. FlowOK(u) /\ SameFlight(u, z)
  BY <1>5, SetStateOK DEF GameStates
<1>. HIDE DEF u
<1>7. FlowOK(v) /\ Alike(v, u)
  BY <1>6, ScreenOver
<1>8. StartRun(x, kind) = v
  BY DEF StartRun, v, u, z, y, w
<1>. HIDE DEF v
<1>. QED  BY <1>3, <1>4, <1>6, <1>7, <1>8 DEF Alike, SameFlight

\* startVersus
LEMMA StartVersusOK ==
  ASSUME NEW x, CanLaunch(x)
  PROVE  LET y == StartVersus(x)
         IN  FlowOK(y) /\ y.rated = x.rated /\ y.epoch = x.epoch + 1
<1>. DEFINE d == Disconnect(x)
            w == [d EXCEPT !.room = FALSE, !.kind = "versus"]
            y == ResetRun(w, TRUE)
            u == SetState(y, "playing")
            v == SetScreen(u, "main")
<1>1. d \in Games /\ Alike(d, x)
  BY DisconnectGame DEF CanLaunch
<1>. HIDE DEF d
<1>2. w \in Games
  BY ZenonT(40), <1>1 DEF Games, RunKinds
<1>3. /\ w.epoch = x.epoch /\ w.rated = x.rated /\ w.breaks = x.breaks
      /\ w.state = x.state /\ w.preAd = x.preAd /\ w.edition = x.edition
      /\ w.tier = x.tier /\ w.winds = x.winds
  BY <1>1 DEF Games, Alike, SameFlight
<1>. HIDE DEF w
<1>4. CanLaunch(w)
  BY <1>2, <1>3 DEF CanLaunch, Idle, WebSound
<1>5. Sound(y) /\ y.epoch = x.epoch + 1 /\ y.rated = x.rated
  BY ZenonT(60), <1>3, <1>4, ResetSound
<1>. HIDE DEF y
<1>6. FlowOK(u) /\ SameFlight(u, y)
  BY <1>5, SetStateOK DEF GameStates
<1>. HIDE DEF u
<1>7. FlowOK(v) /\ Alike(v, u)
  BY <1>6, ScreenOver
<1>8. StartVersus(x) = v
  BY DEF StartVersus, v, u, y, w, d
<1>. HIDE DEF v
<1>. QED  BY <1>5, <1>6, <1>7, <1>8 DEF Alike, SameFlight

\* launchMatch
LEMMA LaunchMatchOK ==
  ASSUME NEW x, CanLaunch(x), NEW local \in BOOLEAN
  PROVE  LET y == LaunchMatch(x, local)
         IN  FlowOK(y) /\ y.rated = x.rated /\ y.epoch = x.epoch + 1
<1>. DEFINE y == [x EXCEPT !.local = local]
            z == IF local THEN Disconnect(y) ELSE y
<1>1. y \in Games /\ Alike(y, x)
  BY ZenonT(40) DEF CanLaunch, Games, Alike, SameFlight
<1>. HIDE DEF y
<1>2. z \in Games /\ Alike(z, y)
  BY <1>1, DisconnectGame DEF Alike, SameFlight
<1>. HIDE DEF z
<1>3. CanLaunch(z) /\ z.rated = x.rated /\ z.epoch = x.epoch
  BY <1>1, <1>2, LaunchAlike DEF Alike, SameFlight
<1>4. LaunchMatch(x, local) = StartRun(z, "race")
  BY DEF LaunchMatch, z, y
<1>. QED  BY <1>3, <1>4, StartRunOK DEF RunKinds

\* The search's fields take the values it may have.
LEMMA NewSearchGame ==
  ASSUME NEW x \in Games
  PROVE  [x EXCEPT !.room = FALSE, !.local = FALSE, !.mm = "searching", !.seat = "lobby"] \in Games
  BY ZenonT(40) DEF Games

\* beginMatchmaking, cancelMatchmaking: the screen and the run stay.
LEMMA SearchGame ==
  ASSUME NEW x \in Games
  PROVE  /\ BeginSearch(x) \in Games /\ Alike(BeginSearch(x), x)
         /\ CancelSearch(x) \in Games /\ Alike(CancelSearch(x), x)
<1>. DEFINE d == Disconnect(x)
            b == [d EXCEPT !.room = FALSE, !.local = FALSE, !.mm = "searching", !.seat = "lobby"]
            e == [d EXCEPT !.mm = "none"]
<1>1. d \in Games /\ Alike(d, x)
  BY DisconnectGame
<1>2. BeginSearch(x) = b /\ CancelSearch(x) = e
  BY DEF BeginSearch, CancelSearch
<1>. HIDE DEF d
<1>3. b \in Games
  BY <1>1, NewSearchGame
<1>4. e \in Games
  BY ZenonT(40), <1>1 DEF Games
<1>5. Alike(b, x) /\ Alike(e, x)
  BY ZenonT(60), <1>1 DEF Games, Alike, SameFlight
<1>. QED  BY <1>2, <1>3, <1>4, <1>5

LEMMA SearchOK ==
  ASSUME NEW x, FlowOK(x)
  PROVE  /\ FlowOK(BeginSearch(x)) /\ Alike(BeginSearch(x), x)
         /\ FlowOK(CancelSearch(x)) /\ Alike(CancelSearch(x), x)
  BY SearchGame, AlikeOK DEF FlowOK, Sound

\* Bookings look at a flight only.
LEMMA BooksAlike ==
  ASSUME NEW x, NEW y, NEW z, Alike(x, z), Books(x, y)
  PROVE  Books(z, y)
  BY DEF Alike, SameFlight, Books

\* A flight that is launched books nothing.
LEMMA Launched ==
  ASSUME NEW x \in Games, NEW y, y.rated = x.rated, y.epoch = x.epoch + 1
  PROVE  Books(x, y)
<1>1. x.epoch \in Int
  BY CapIsNat
<1>2. y.epoch > x.epoch
  BY <1>1
<1>. QED  BY <1>2, Unbooked

\* replayRun
LEMMA ReplayRunOK ==
  ASSUME NEW x, FlowOK(x), x.epoch < MaxEpoch
  PROVE  FlowOK(ReplayRun(x)) /\ Books(x, ReplayRun(x))
<1>1. CanLaunch(x) /\ x \in Games
  BY FlowLaunch DEF FlowOK, Sound
<1>2. CASE x.kind = "versus"
  <2>1. ReplayRun(x) = StartVersus(x)
    BY <1>2 DEF ReplayRun
  <2>. QED  BY <1>1, <2>1, StartVersusOK, Launched
<1>3. CASE x.kind = "race" /\ x.room /\ ~x.local
  <2>. DEFINE d == Disconnect(x)
              w == [d EXCEPT !.room = FALSE]
              u == SetState(w, "menu")
              v == SetScreen(u, "live")
  <2>1. ReplayRun(x) = BeginSearch(v)
    BY <1>3 DEF ReplayRun
  <2>2. d \in Games /\ Alike(d, x)
    BY <1>1, DisconnectGame
  <2>. HIDE DEF d
  <2>3. w \in Games
    BY ZenonT(40), <2>2 DEF Games
  <2>4. Alike(w, x)
    BY <2>2 DEF Games, Alike, SameFlight
  <2>. HIDE DEF w
  <2>5. FlowOK(u) /\ SameFlight(u, w)
    BY <2>3, <2>4, AlikeOK, SetStateOK DEF GameStates, FlowOK
  <2>. HIDE DEF u
  <2>6. FlowOK(v) /\ Alike(v, u)
    BY <2>5, ScreenOver
  <2>. HIDE DEF v
  <2>7. FlowOK(BeginSearch(v)) /\ Alike(BeginSearch(v), v)
    BY <2>6, SearchOK
  <2>8. SameFlight(BeginSearch(v), x)
    BY <2>4, <2>5, <2>6, <2>7 DEF Alike, SameFlight
  <2>. QED  BY <2>1, <2>7, <2>8, Unbooked
<1>4. CASE x.kind # "versus" /\ ~(x.kind = "race" /\ x.room /\ ~x.local)
  <2>1. x.kind \in RunKinds
    BY <1>1 DEF Games
  <2>2. ReplayRun(x) = StartRun(x, x.kind)
    BY <1>4 DEF ReplayRun
  <2>. QED  BY <1>1, <2>1, <2>2, StartRunOK, Launched
<1>. QED  BY <1>2, <1>3, <1>4

\* finishRun: a run without a record gets one, and a duel that has no result is rated; a
\* recorded run is left as it is.
LEMMA FinishRunOK ==
  ASSUME NEW x, Sound(x), ~x.recorded, x.state = "continue" => Windable(x), NEW y \in FinishRun(x)
  PROVE  /\ FlowOK(y) /\ y.recorded /\ y.epoch = x.epoch
         /\ y.rated = IF x.kind = "duel" /\ x.duel = "" THEN x.rated + 1 ELSE x.rated
<1>. DEFINE lost == x.kind = "duel" /\ x.duel = ""
            r == IF lost THEN x.rated + 1 ELSE x.rated
            d == IF lost THEN "lost" ELSE x.duel
            w == [x EXCEPT !.recorded = TRUE, !.asleep = TRUE, !.skipAd = FALSE,
                           !.rated = r, !.duel = d]
            u == SetState(w, "gameover")
            i == [w EXCEPT !.adFor = "interstitial"]
            v == SetState(i, "ad")
<1>0. x \in Games
  BY DEF Sound
<1>1. r \in Nat /\ d \in {"", "won", "lost"}
  <2>1. x.rated \in Nat
    BY <1>0, CapIsNat
  <2>2. x.rated + 1 \in Nat
    BY <2>1
  <2>3. x.duel \in {"", "won", "lost"}
    BY <1>0 DEF Games
  <2>. HIDE DEF lost
  <2>. QED  BY <2>1, <2>2, <2>3
<1>2. y = u \/ y = v
  BY DEF FinishRun
<1>. HIDE DEF r, d, lost
<1>3. w \in Games
  BY <1>0, <1>1 DEF Games
<1>4. /\ w.state = x.state /\ w.preAd = x.preAd /\ w.edition = x.edition /\ w.tier = x.tier
      /\ w.epoch = x.epoch /\ w.rated = r /\ w.breaks = x.breaks /\ w.winds = x.winds
      /\ w.recorded = TRUE
  BY <1>0 DEF Games
<1>. HIDE DEF w
<1>5. Sound(w) /\ (w.state = "continue" => Windable(w))
  BY <1>3, <1>4 DEF Sound, Bounded, Idle, WebSound, Windable
<1>6. CASE y = u
  <2>1. FlowOK(u) /\ SameFlight(u, w)
    BY <1>5, SetStateOK DEF GameStates
  <2>. HIDE DEF u
  <2>. QED  BY <1>4, <1>6, <2>1 DEF r, lost, SameFlight
<1>7. CASE y = v
  <2>1. i \in Games
    BY <1>3 DEF Games
  <2>2. /\ i.state = w.state /\ i.preAd = w.preAd /\ i.edition = w.edition /\ i.tier = w.tier
        /\ SameFlight(i, w) /\ i.breaks = w.breaks /\ i.winds = w.winds
        /\ i.adFor = "interstitial"
    BY <1>3 DEF Games, SameFlight
  <2>. HIDE DEF i
  <2>3. Sound(i) /\ (i.state = "continue" => Windable(i))
    BY <1>5, <2>1, <2>2 DEF Sound, Bounded, Idle, WebSound, Windable, SameFlight
  <2>4. FlowOK(v) /\ SameFlight(v, i)
    BY <2>2, <2>3, BreakOK
  <2>. HIDE DEF v
  <2>. QED  BY <1>4, <1>7, <2>2, <2>4 DEF r, lost, SameFlight
<1>. QED  BY <1>2, <1>6, <1>7

\* finishRun as the end of a flight.
LEMMA EndOK ==
  ASSUME NEW x, FlowOK(x), NEW y \in FinishRun(x)
  PROVE  FlowOK(y) /\ Books(x, y)
<1>1. CASE x.recorded
  <2>1. y = x
    BY <1>1 DEF FinishRun
  <2>. QED  BY <2>1 DEF Books
<1>2. CASE ~x.recorded
  <2>1. Sound(x) /\ (x.state = "continue" => Windable(x))
    BY DEF FlowOK
  <2>2. /\ FlowOK(y) /\ y.recorded /\ y.epoch = x.epoch
        /\ y.rated = IF x.kind = "duel" /\ x.duel = "" THEN x.rated + 1 ELSE x.rated
    BY <1>2, <2>1, FinishRunOK
  <2>. QED  BY <1>2, <2>2 DEF Books
<1>. QED  BY <1>1, <1>2

\* doContinue
LEMMA DoContinueOK ==
  ASSUME NEW x, Sound(x), Windable(x)
  PROVE  FlowOK(DoContinue(x)) /\ SameFlight(DoContinue(x), x)
<1>. DEFINE n == x.winds + 1
            y == [x EXCEPT !.winds = n, !.asleep = FALSE]
<1>0. x \in Games
  BY DEF Sound
<1>1. n \in Nat /\ (x.winds < WindCap[x.tier] => n <= WindCap[x.tier])
  <2>1. x.winds \in Nat /\ WindCap[x.tier] \in Nat
    BY <1>0, CapIsNat
  <2>. QED  BY <2>1
<1>2. DoContinue(x) = SetState(y, "playing")
  BY DEF DoContinue
<1>. HIDE DEF n
<1>3. y \in Games
  BY <1>0, <1>1 DEF Games
<1>4. /\ SameFlight(y, x) /\ y.state = x.state /\ y.preAd = x.preAd /\ y.winds = n
      /\ y.edition = x.edition /\ y.tier = x.tier /\ y.breaks = x.breaks
  BY <1>0 DEF Games, SameFlight
<1>. HIDE DEF y
<1>5. Sound(y)
  BY <1>1, <1>3, <1>4 DEF Sound, Bounded, Idle, WebSound, Windable, SameFlight
<1>6. FlowOK(SetState(y, "playing")) /\ SameFlight(SetState(y, "playing"), y)
  BY <1>5, SetStateOK DEF GameStates
<1>. QED  BY <1>2, <1>4, <1>6 DEF SameFlight

\* goToMenu: a duel that is given up is rated, unless its flight has a record.
LEMMA GoToMenuOK ==
  ASSUME NEW x, FlowOK(x), x.epoch < MaxEpoch
  PROVE  FlowOK(GoToMenu(x)) /\ Books(x, GoToMenu(x))
<1>. DEFINE forfeit == /\ x.state \in {"playing", "paused"}
                       /\ x.kind = "duel" /\ x.duel = "" /\ ~x.recorded /\ x.flown
            r == IF forfeit THEN x.rated + 1 ELSE x.rated
            d == Disconnect(x)
            w == [d EXCEPT !.room = FALSE, !.kind = "none", !.duel = "", !.rated = r]
            y == ResetRun(w, TRUE)
            u == SetState(y, "menu")
            v == SetScreen(u, "main")
<1>1. CanLaunch(x) /\ x \in Games
  BY FlowLaunch DEF FlowOK, Sound
<1>2. r \in Nat /\ (r # x.rated => forfeit /\ r = x.rated + 1)
  <2>1. x.rated \in Nat
    BY <1>1, CapIsNat
  <2>. HIDE DEF forfeit
  <2>2. CASE forfeit
    BY <2>1, <2>2
  <2>3. CASE ~forfeit
    BY <2>1, <2>3
  <2>. QED  BY <2>2, <2>3
<1>3. d \in Games /\ Alike(d, x)
  BY <1>1, DisconnectGame
<1>4. GoToMenu(x) = v
  <2>1. w = [d EXCEPT !.room = FALSE, !.kind = "none", !.duel = "",
                      !.rated = IF forfeit THEN @ + 1 ELSE @]
    BY <1>3 DEF Alike, SameFlight
  <2>. QED  BY <2>1 DEF GoToMenu
<1>. HIDE DEF d, r
<1>5. w \in Games
  BY ZenonT(40), <1>2, <1>3 DEF Games, RunKinds
<1>6. /\ w.epoch = x.epoch /\ w.rated = r /\ w.breaks = x.breaks
      /\ w.state = x.state /\ w.preAd = x.preAd /\ w.edition = x.edition
      /\ w.tier = x.tier /\ w.winds = x.winds
  BY <1>3 DEF Games, Alike, SameFlight
<1>. HIDE DEF w
<1>7. CanLaunch(w)
  BY <1>1, <1>5, <1>6 DEF CanLaunch, Idle, WebSound
<1>8. Sound(y) /\ y.epoch = x.epoch + 1 /\ y.rated = r
  BY <1>6, <1>7, ResetSound
<1>. HIDE DEF y
<1>9. FlowOK(u) /\ SameFlight(u, y)
  BY <1>8, SetStateOK DEF GameStates
<1>. HIDE DEF u
<1>10. FlowOK(v) /\ Alike(v, u)
  BY <1>9, ScreenOver
<1>. HIDE DEF v
<1>11. v.epoch = x.epoch + 1 /\ v.rated = r /\ x.epoch \in Int
  BY <1>1, <1>8, <1>9, <1>10, CapIsNat DEF Alike, SameFlight
<1>12. v.epoch > x.epoch
  BY <1>11
<1>. QED  BY <1>2, <1>4, <1>10, <1>11, <1>12 DEF Books
-----------------------------------------------------------------------------
(* Launches, screens and hills                                             *)

\* What the invariant says of the game, for short.
LEMMA FlowGame ==
  ASSUME FlowInv
  PROVE  /\ FlowOK(g) /\ Sound(g) /\ g \in Games
         /\ Room => CanLaunch(g) /\ g.epoch < MaxEpoch
  BY FlowLaunch DEF FlowInv, FlowOK, Sound, Room

\* A launch over what is like g.
LEMMA LaunchKeeps ==
  ASSUME FlowInv, Room, NEW x \in Games, Alike(x, g), NEW local \in BOOLEAN, NEW kind \in RunKinds,
         g' = LaunchMatch(x, local) \/ g' = StartRun(x, kind)
  PROVE  FlowOK(g') /\ Books(g, g')
<1>1. g \in Games /\ CanLaunch(x)
  BY FlowGame, LaunchAlike
<1>2. FlowOK(g') /\ g'.rated = x.rated /\ g'.epoch = x.epoch + 1
  BY <1>1, LaunchMatchOK, StartRunOK
<1>3. g'.rated = g.rated /\ g'.epoch = g.epoch + 1
  BY <1>2 DEF Alike, SameFlight
<1>. QED  BY <1>1, <1>2, <1>3, Launched

\* A step to what is like g.
LEMMA AlikeKeeps ==
  ASSUME FlowInv, g' \in Games, Alike(g', g)
  PROVE  FlowOK(g') /\ Books(g, g')
  BY AlikeOK, Unbooked DEF FlowInv, Alike

\* Play
LEMMA PlayKeeps ==
  ASSUME FlowInv, Play
  PROVE  FlowOK(g') /\ Books(g, g')
<1>1. PICK k \in {"solo", "duel", "race"} :
        g' = StartRun([g EXCEPT !.room = IF k = "duel" THEN FALSE ELSE @], k)
  BY DEF Play
<1>2. g \in Games /\ Room /\ k \in RunKinds
  BY FlowGame DEF Play, RunKinds
<1>. DEFINE r == IF k = "duel" THEN FALSE ELSE g.room
            w == [g EXCEPT !.room = r]
<1>3. r \in BOOLEAN
  <2>1. g.room \in BOOLEAN
    BY <1>2 DEF Games
  <2>2. CASE k = "duel"
    BY <2>2
  <2>3. CASE k # "duel"
    BY <2>1, <2>3
  <2>. QED  BY <2>2, <2>3
<1>4. g' = StartRun(w, k)
  BY <1>1
<1>. HIDE DEF r
<1>5. w \in Games
  BY <1>2, <1>3 DEF Games
<1>6. Alike(w, g)
  BY <1>2 DEF Games, Alike, SameFlight
<1>. HIDE DEF w
<1>. QED  BY <1>2, <1>4, <1>5, <1>6, LaunchKeeps

\* Versus
LEMMA VersusKeeps ==
  ASSUME FlowInv, Versus
  PROVE  FlowOK(g') /\ Books(g, g')
<1>1. CanLaunch(g) /\ g \in Games
  BY FlowGame DEF Versus
<1>2. FlowOK(g') /\ g'.rated = g.rated /\ g'.epoch = g.epoch + 1
  BY <1>1, StartVersusOK DEF Versus
<1>. QED  BY <1>1, <1>2, Launched

\* Practice
LEMMA PracticeKeeps ==
  ASSUME FlowInv, Practice
  PROVE  FlowOK(g') /\ Books(g, g')
<1>. DEFINE e == CancelSearch(g)
            w == [e EXCEPT !.room = FALSE]
<1>1. g' = LaunchMatch(w, TRUE) /\ Room /\ g \in Games
  BY FlowGame DEF Practice
<1>2. e \in Games /\ Alike(e, g)
  BY <1>1, SearchGame
<1>. HIDE DEF e
<1>3. w \in Games
  BY ZenonT(40), <1>2 DEF Games
<1>4. Alike(w, g)
  BY <1>2 DEF Games, Alike, SameFlight
<1>. HIDE DEF w
<1>. QED  BY <1>1, <1>3, <1>4, LaunchKeeps DEF RunKinds

\* closePauseScreen, when the flight is paused.
LEMMA PauseClosed ==
  ASSUME FlowInv, NEW x, x = IF g.state = "paused" THEN ClosePause(g) ELSE g
  PROVE  FlowOK(x) /\ Alike(x, g)
<1>1. CASE g.state = "paused"
  <2>1. x \in Games /\ Alike(x, g)
    BY <1>1, ClosePauseGame, FlowGame
  <2>. QED  BY <2>1, AlikeOK DEF FlowInv
<1>2. CASE g.state # "paused"
  BY <1>2 DEF FlowInv, Alike, SameFlight
<1>. QED  BY <1>1, <1>2

\* Replay
LEMMA ReplayKeeps ==
  ASSUME FlowInv, Replay
  PROVE  FlowOK(g') /\ Books(g, g')
<1>. DEFINE x == IF g.state = "paused" THEN ClosePause(g) ELSE g
<1>1. g' = ReplayRun(x) /\ g.epoch < MaxEpoch
  BY DEF Replay, Room
<1>2. FlowOK(x) /\ Alike(x, g)
  BY PauseClosed
<1>. HIDE DEF x
<1>3. x.epoch < MaxEpoch
  BY <1>1, <1>2 DEF Alike, SameFlight
<1>4. FlowOK(g') /\ Books(x, g')
  BY <1>1, <1>2, <1>3, ReplayRunOK
<1>. QED  BY <1>2, <1>4, BooksAlike

\* StartRoomNow
LEMMA StartRoomNowKeeps ==
  ASSUME FlowInv, StartRoomNow
  PROVE  FlowOK(g') /\ Books(g, g')
<1>1. g \in Games /\ Alike(g, g) /\ Room /\ g' = LaunchMatch(g, FALSE)
  BY FlowGame DEF StartRoomNow, Alike, SameFlight
<1>. QED  BY <1>1, LaunchKeeps DEF RunKinds

\* Rematch
LEMMA RematchKeeps ==
  ASSUME FlowInv, Rematch
  PROVE  FlowOK(g') /\ Books(g, g')
<1>1. g \in Games /\ Alike(g, g) /\ Room /\ g.epoch < MaxEpoch /\ FlowOK(g)
  BY FlowGame DEF Rematch, Alike, SameFlight
<1>2. CASE g.kind \in {"duel", "versus"}
  <2>1. g' = ReplayRun(g)
    BY <1>2 DEF Rematch
  <2>. QED  BY <1>1, <2>1, ReplayRunOK
<1>3. CASE g.kind \notin {"duel", "versus"} /\ g.local
  <2>1. g' = LaunchMatch(g, TRUE)
    BY <1>3 DEF Rematch
  <2>. QED  BY <1>1, <2>1, LaunchKeeps DEF RunKinds
<1>4. CASE g.kind \notin {"duel", "versus"} /\ ~g.local
  <2>1. g' = BeginSearch(g)
    BY <1>4 DEF Rematch
  <2>2. g' \in Games /\ Alike(g', g)
    BY <1>1, <2>1, SearchGame
  <2>. QED  BY <2>2, AlikeKeeps
<1>. QED  BY <1>2, <1>3, <1>4

\* Leave
LEMMA LeaveKeeps ==
  ASSUME FlowInv, Leave
  PROVE  FlowOK(g') /\ Books(g, g')
<1>. DEFINE x == IF g.state = "paused" THEN ClosePause(g) ELSE g
<1>1. g' = GoToMenu(x) /\ g.epoch < MaxEpoch
  BY DEF Leave, Room
<1>2. FlowOK(x) /\ Alike(x, g)
  BY PauseClosed
<1>. HIDE DEF x
<1>3. x.epoch < MaxEpoch
  BY <1>1, <1>2 DEF Alike, SameFlight
<1>4. FlowOK(g') /\ Books(x, g')
  BY <1>1, <1>2, <1>3, GoToMenuOK
<1>. QED  BY <1>2, <1>4, BooksAlike

\* OpenScreen
LEMMA OpenScreenKeeps ==
  ASSUME FlowInv, OpenScreen
  PROVE  FlowOK(g') /\ Books(g, g')
<1>. DEFINE d == Disconnect(g)
            w == [d EXCEPT !.room = FALSE]
            x == IF g.screen = "live" THEN w ELSE g
<1>1. PICK s \in {"main", "sub"} : g' = SetScreen(x, s)
  BY DEF OpenScreen
<1>2. g \in Games /\ d \in Games /\ Alike(d, g)
  BY DisconnectGame, FlowGame
<1>. HIDE DEF d
<1>3. w \in Games
  BY ZenonT(40), <1>2 DEF Games
<1>4. Alike(w, d)
  BY <1>2 DEF Games, Alike, SameFlight
<1>. HIDE DEF w
<1>5. x \in Games /\ Alike(x, g)
  BY <1>2, <1>3, <1>4 DEF Alike, SameFlight
<1>. HIDE DEF x
<1>6. g' \in Games /\ Alike(g', x)
  BY <1>1, <1>5, SetScreenGame
<1>7. Alike(g', g)
  BY <1>5, <1>6 DEF Alike, SameFlight
<1>. QED  BY <1>6, <1>7, AlikeKeeps

\* PickSeed, NewDay
LEMMA HillsKeep ==
  ASSUME FlowInv, PickSeed \/ NewDay
  PROVE  FlowOK(g') /\ Books(g, g')
<1>1. g' = RebuildWorld(g) /\ g.epoch < MaxEpoch /\ g \in Games
  BY FlowGame DEF PickSeed, NewDay, Room
<1>2. FlowOK(g') /\ g'.rated = g.rated /\ g'.epoch = g.epoch + 1
  BY <1>1, RebuildOK DEF FlowInv
<1>. QED  BY <1>1, <1>2, Launched

-----------------------------------------------------------------------------
(* The flight                                                              *)

\* A step that only moves the state.
LEMMA StateKeeps ==
  ASSUME FlowInv, NEW x, Sound(x), SameFlight(x, g), NEW s \in GameStates \ {"ad"},
         s = "continue" => Windable(x), g' = SetState(x, s)
  PROVE  FlowOK(g') /\ Books(g, g')
<1>1. FlowOK(g') /\ SameFlight(g', x)
  BY SetStateOK
<1>2. SameFlight(g', g)
  BY <1>1 DEF SameFlight
<1>. QED  BY <1>1, <1>2, Unbooked

\* Soar
LEMMA SoarKeeps ==
  ASSUME FlowInv, Soar
  PROVE  FlowOK(g') /\ Books(g, g')
<1>0. g \in Games
  BY FlowGame
<1>. DEFINE y == [g EXCEPT !.flown = TRUE]
<1>1. y \in Games
  BY <1>0 DEF Games
<1>2. Alike(y, g)
  BY <1>0 DEF Games, Alike, SameFlight
<1>3. g' = y
  BY DEF Soar
<1>. QED  BY <1>1, <1>2, <1>3, AlikeKeeps

\* CrossLine: the duel that is rated at the line has its result when its record is made.
LEMMA CrossLineKeeps ==
  ASSUME FlowInv, CrossLine
  PROVE  FlowOK(g') /\ Books(g, g')
<1>1. g \in Games /\ Sound(g) /\ ~g.recorded /\ g.state # "continue" /\ FlowOK(g)
  BY FlowGame DEF CrossLine, Flying
<1>2. CASE g.kind = "duel"
  <2>1. PICK won \in BOOLEAN :
          g' \in FinishRun([g EXCEPT !.rated = @ + 1, !.duel = IF won THEN "won" ELSE "lost"])
    BY <1>2 DEF CrossLine
  <2>. DEFINE r == g.rated + 1
              d == IF won THEN "won" ELSE "lost"
              w == [g EXCEPT !.rated = r, !.duel = d]
  <2>2. r \in Nat
    <3>1. g.rated \in Nat
      BY <1>1, CapIsNat
    <3>. QED  BY <3>1
  <2>3. d \in {"", "won", "lost"} /\ d # ""
    OBVIOUS
  <2>4. g' \in FinishRun(w)
    BY <2>1
  <2>. HIDE DEF r, d
  <2>5. w \in Games
    BY <1>1, <2>2, <2>3 DEF Games
  <2>6. /\ w.epoch = g.epoch /\ w.breaks = g.breaks /\ w.recorded = g.recorded
        /\ w.state = g.state /\ w.preAd = g.preAd /\ w.edition = g.edition /\ w.tier = g.tier
        /\ w.winds = g.winds /\ w.rated = r /\ w.duel = d
    BY <1>1 DEF Games
  <2>. HIDE DEF w
  <2>7. Sound(w) /\ ~w.recorded /\ w.state # "continue"
    BY <1>1, <2>5, <2>6 DEF Sound, Bounded, Idle, WebSound
  <2>8. FlowOK(g') /\ g'.recorded /\ g'.epoch = g.epoch /\ g'.rated = r
    BY <2>3, <2>4, <2>6, <2>7, FinishRunOK
  <2>. QED  BY <1>1, <1>2, <2>8 DEF Books, r
<1>3. CASE g.kind # "duel"
  <2>1. g' \in FinishRun(g)
    BY <1>3 DEF CrossLine
  <2>. QED  BY <1>1, <2>1, EndOK
<1>. QED  BY <1>2, <1>3

\* KnockedOut, ContinueRefused
LEMMA CutShortKeeps ==
  ASSUME FlowInv, KnockedOut \/ ContinueRefused
  PROVE  FlowOK(g') /\ Books(g, g')
  BY EndOK DEF KnockedOut, ContinueRefused, FlowInv

\* SunSets: a second wind is offered while one is left.
LEMMA SunSetsKeeps ==
  ASSUME FlowInv, SunSets
  PROVE  FlowOK(g') /\ Books(g, g')
<1>1. g \in Games /\ FlowOK(g)
  BY FlowGame
<1>. DEFINE w == [g EXCEPT !.asleep = TRUE]
<1>2. w \in Games
  BY <1>1 DEF Games
<1>3. Alike(w, g)
  BY <1>1 DEF Games, Alike, SameFlight
<1>4. \/ g.winds < WindCap[g.tier] /\ g' = SetState(w, "continue")
      \/ g' \in FinishRun(w)
  BY DEF SunSets
<1>. HIDE DEF w
<1>5. FlowOK(w) /\ Sound(w)
  BY <1>1, <1>2, <1>3, AlikeOK DEF FlowOK
<1>6. CASE g.winds < WindCap[g.tier] /\ g' = SetState(w, "continue")
  <2>1. Windable(w) /\ SameFlight(w, g)
    BY <1>3, <1>6 DEF Windable, Alike
  <2>. QED  BY <1>5, <1>6, <2>1, StateKeeps DEF GameStates
<1>7. CASE g' \in FinishRun(w)
  <2>1. FlowOK(g') /\ Books(w, g')
    BY <1>5, <1>7, EndOK
  <2>. QED  BY <1>3, <2>1, BooksAlike
<1>. QED  BY <1>4, <1>6, <1>7

\* VersusEnds, Pause
LEMMA PauseKeeps ==
  ASSUME FlowInv, VersusEnds \/ Pause
  PROVE  FlowOK(g') /\ Books(g, g')
<1>1. PICK s \in {"gameover", "paused"} : g' = SetState(g, s)
  BY DEF VersusEnds, Pause
<1>2. Sound(g) /\ SameFlight(g, g)
  BY FlowGame DEF SameFlight
<1>. QED  BY <1>1, <1>2, StateKeeps DEF GameStates

\* A second wind is granted.
LEMMA WindKeeps ==
  ASSUME FlowInv, NEW x, Sound(x), SameFlight(x, g), Windable(x), g' = DoContinue(x)
  PROVE  FlowOK(g') /\ Books(g, g')
<1>1. FlowOK(g') /\ SameFlight(g', x)
  BY DoContinueOK
<1>2. SameFlight(g', g)
  BY <1>1 DEF SameFlight
<1>. QED  BY <1>1, <1>2, Unbooked

\* ContinueBought
LEMMA ContinueBoughtKeeps ==
  ASSUME FlowInv, ContinueBought
  PROVE  FlowOK(g') /\ Books(g, g')
<1>1. g' = DoContinue(g) /\ Sound(g) /\ Windable(g) /\ SameFlight(g, g)
  BY FlowGame DEF ContinueBought, FlowOK, SameFlight
<1>. QED  BY <1>1, WindKeeps
-----------------------------------------------------------------------------
(* Advertising breaks                                                      *)

\* A break on a portal: its promise is counted.
LEMMA BreakKeeps ==
  ASSUME FlowInv, CanAsk, NEW k \in BreakKinds, g' = Ask(SetState(g, "ad"), k)
  PROVE  FlowOK(g') /\ Books(g, g')
<1>. DEFINE x == SetState(g, "ad")
            b == [x.breaks EXCEPT ![k] = @ + 1]
            y == [x EXCEPT !.breaks = b]
<1>1. g.edition = "portal" /\ Total(g.breaks) < MaxBreaks
  BY DEF CanAsk, Total
<1>2. FlowOK(x) /\ SameFlight(x, g) /\ x.edition = "portal" /\ x.breaks = g.breaks
  <2>1. Sound(g) /\ (g.state = "continue" \/ g.adFor = "continue" => Windable(g))
    BY FlowGame DEF FlowOK
  <2>2. FlowOK(x) /\ SameFlight(x, g)
    BY <2>1, BreakOK
  <2>3. x.edition = g.edition /\ x.breaks = g.breaks
    BY FlowGame, SetStateGame DEF GameStates
  <2>. QED  BY <1>1, <2>2, <2>3
<1>3. g' = y
  BY DEF Ask
<1>. HIDE DEF x
<1>4. x \in Games /\ x.breaks \in [BreakKinds -> Nat] /\ MaxBreaks \in Nat
  BY <1>2, CapIsNat DEF FlowOK, Sound
<1>5. b \in [BreakKinds -> Nat] /\ Total(b) <= MaxBreaks
  <2>1. b \in [BreakKinds -> Nat]
    BY <1>4
  <2>2. x.breaks["resume"] \in Nat /\ x.breaks["multiplier"] \in Nat /\ x.breaks["continue"] \in Nat
    BY <1>4 DEF BreakKinds
  <2>3. x.breaks["resume"] + x.breaks["multiplier"] + x.breaks["continue"] < MaxBreaks
    BY <1>1, <1>2 DEF Total
  <2>4. CASE k = "resume"
    <3>1. /\ b["resume"] = x.breaks["resume"] + 1 /\ b["multiplier"] = x.breaks["multiplier"]
          /\ b["continue"] = x.breaks["continue"]
      BY <1>4, <2>4 DEF BreakKinds
    <3>. QED  BY <1>4, <2>1, <2>2, <2>3, <3>1 DEF Total
  <2>5. CASE k = "multiplier"
    <3>1. /\ b["resume"] = x.breaks["resume"] /\ b["multiplier"] = x.breaks["multiplier"] + 1
          /\ b["continue"] = x.breaks["continue"]
      BY <1>4, <2>5 DEF BreakKinds
    <3>. QED  BY <1>4, <2>1, <2>2, <2>3, <3>1 DEF Total
  <2>6. CASE k = "continue"
    <3>1. /\ b["resume"] = x.breaks["resume"] /\ b["multiplier"] = x.breaks["multiplier"]
          /\ b["continue"] = x.breaks["continue"] + 1
      BY <1>4, <2>6 DEF BreakKinds
    <3>. QED  BY <1>4, <2>1, <2>2, <2>3, <3>1 DEF Total
  <2>. QED  BY <2>4, <2>5, <2>6 DEF BreakKinds
<1>. HIDE DEF b
<1>6. y \in Games
  BY <1>4, <1>5 DEF Games
<1>7. /\ SameFlight(y, x) /\ y.breaks = b /\ y.state = x.state /\ y.preAd = x.preAd
      /\ y.adFor = x.adFor /\ y.edition = "portal"
  BY <1>2, <1>4 DEF Games, SameFlight
<1>. HIDE DEF y
<1>8. FlowOK(y)
  BY <1>2, <1>5, <1>6, <1>7 DEF FlowOK, Sound, Bounded, Idle, WebSound, Windable, SameFlight
<1>9. SameFlight(y, g)
  BY <1>2, <1>7 DEF SameFlight
<1>. QED  BY <1>3, <1>8, <1>9, Unbooked

\* Resume
LEMMA ResumeKeeps ==
  ASSUME FlowInv, Resume
  PROVE  FlowOK(g') /\ Books(g, g')
<1>1. g \in Games /\ Sound(g) /\ SameFlight(g, g)
  BY FlowGame DEF SameFlight
<1>2. \/ g' = ClosePause(g)
      \/ CanAsk /\ g' = Ask(SetState(g, "ad"), "resume")
      \/ g' = SetState(g, "playing")
  BY DEF Resume
<1>3. CASE g' = ClosePause(g)
  BY <1>1, <1>3, ClosePauseGame, AlikeKeeps
<1>4. CASE CanAsk /\ g' = Ask(SetState(g, "ad"), "resume")
  BY <1>4, BreakKeeps DEF BreakKinds
<1>5. CASE g' = SetState(g, "playing")
  BY <1>1, <1>5, StateKeeps DEF GameStates
<1>. QED  BY <1>2, <1>3, <1>4, <1>5

\* A break without a promise, and the placeholder.
LEMMA SilentBreakKeeps ==
  ASSUME FlowInv, NEW x, Sound(x), SameFlight(x, g),
         x.state = "continue" \/ x.adFor = "continue" => Windable(x), g' = SetState(x, "ad")
  PROVE  FlowOK(g') /\ Books(g, g')
<1>1. FlowOK(g') /\ SameFlight(g', x)
  BY BreakOK
<1>2. SameFlight(g', g)
  BY <1>1 DEF SameFlight
<1>. QED  BY <1>1, <1>2, Unbooked

\* The claim of the bonus.
LEMMA ClaimGame ==
  ASSUME NEW x \in Games
  PROVE  [x EXCEPT !.claims = @ + 1] \in Games /\ Alike([x EXCEPT !.claims = @ + 1], x)
<1>. DEFINE n == x.claims + 1
            y == [x EXCEPT !.claims = n]
<1>1. n \in Nat
  <2>1. x.claims \in Nat
    BY DEF Games
  <2>. QED  BY <2>1
<1>. HIDE DEF n
<1>2. y \in Games
  BY <1>1 DEF Games
<1>3. Alike(y, x)
  BY DEF Games, Alike, SameFlight
<1>. QED  BY <1>2, <1>3 DEF n

\* Multiply
LEMMA MultiplyKeeps ==
  ASSUME FlowInv, Multiply
  PROVE  FlowOK(g') /\ Books(g, g')
<1>1. /\ g \in Games /\ Sound(g) /\ SameFlight(g, g) /\ g.state = "gameover"
      /\ g.adFor = "none"
  BY FlowGame DEF Multiply, SameFlight, FlowOK
<1>2. \/ CanAsk /\ g' = Ask(SetState(g, "ad"), "multiplier")
      \/ g' = SetState(g, "ad")
      \/ g' = [g EXCEPT !.claims = @ + 1]
  BY DEF Multiply
<1>3. CASE CanAsk /\ g' = Ask(SetState(g, "ad"), "multiplier")
  BY <1>3, BreakKeeps DEF BreakKinds
<1>4. CASE g' = SetState(g, "ad")
  BY <1>1, <1>4, SilentBreakKeeps
<1>5. CASE g' = [g EXCEPT !.claims = @ + 1]
  BY <1>1, <1>5, ClaimGame, AlikeKeeps
<1>. QED  BY <1>2, <1>3, <1>4, <1>5

\* ContinueAd
LEMMA ContinueAdKeeps ==
  ASSUME FlowInv, ContinueAd
  PROVE  FlowOK(g') /\ Books(g, g')
<1>1. g \in Games /\ Sound(g) /\ Windable(g)
  BY FlowGame DEF ContinueAd, FlowOK
<1>. DEFINE w == [g EXCEPT !.adFor = "continue"]
<1>2. \/ CanAsk /\ g' = Ask(SetState(g, "ad"), "continue")
      \/ g' = SetState(w, "ad")
  BY DEF ContinueAd
<1>3. CASE CanAsk /\ g' = Ask(SetState(g, "ad"), "continue")
  BY <1>3, BreakKeeps DEF BreakKinds
<1>4. CASE g' = SetState(w, "ad")
  <2>1. w \in Games
    BY ZenonT(60), <1>1 DEF Games
  <2>2. /\ SameFlight(w, g) /\ w.state = g.state /\ w.preAd = g.preAd /\ w.edition = g.edition
        /\ w.tier = g.tier /\ w.winds = g.winds /\ w.breaks = g.breaks
    BY <1>1 DEF Games, SameFlight
  <2>. HIDE DEF w
  <2>3. Sound(w) /\ Windable(w)
    BY <1>1, <2>1, <2>2 DEF Sound, Bounded, Idle, WebSound, Windable, SameFlight
  <2>. QED  BY <1>4, <2>2, <2>3, SilentBreakKeeps
<1>. QED  BY <1>2, <1>3, <1>4

\* A promise that settles is a portal's, and is counted no longer.
LEMMA SettledGame ==
  ASSUME FlowInv, NEW k \in BreakKinds, g.breaks[k] > 0,
         NEW x, x = [g EXCEPT !.breaks[k] = @ - 1]
  PROVE  Sound(x) /\ FlowOK(x) /\ Windable(x) /\ SameFlight(x, g)
<1>. DEFINE b == [g.breaks EXCEPT ![k] = @ - 1]
            y == [g EXCEPT !.breaks = b]
<1>1. g \in Games /\ FlowOK(g) /\ MaxBreaks \in Nat /\ g.breaks \in [BreakKinds -> Nat]
  BY FlowGame, CapIsNat
<1>2. g.edition # "web"
  BY <1>1 DEF FlowOK, Sound, WebSound
<1>3. b \in [BreakKinds -> Nat] /\ Total(b) <= MaxBreaks
  <2>1. b \in [BreakKinds -> Nat]
    BY <1>1
  <2>2. /\ b["resume"] <= g.breaks["resume"] /\ b["multiplier"] <= g.breaks["multiplier"]
        /\ b["continue"] <= g.breaks["continue"]
    BY <1>1 DEF BreakKinds
  <2>3. /\ b["resume"] \in Nat /\ b["multiplier"] \in Nat /\ b["continue"] \in Nat
        /\ g.breaks["resume"] \in Nat /\ g.breaks["multiplier"] \in Nat
        /\ g.breaks["continue"] \in Nat
    BY <1>1, <2>1 DEF BreakKinds
  <2>4. Total(g.breaks) <= MaxBreaks
    BY <1>1 DEF FlowOK, Sound, Bounded
  <2>. HIDE DEF b
  <2>. QED  BY <1>1, <2>1, <2>2, <2>3, <2>4 DEF Total
<1>4. x = y
  OBVIOUS
<1>. HIDE DEF b
<1>5. y \in Games
  BY <1>1, <1>3 DEF Games
<1>6. /\ y.breaks = b /\ SameFlight(y, g) /\ y.state = g.state /\ y.preAd = g.preAd
      /\ y.edition = g.edition /\ y.adFor = g.adFor
  BY <1>1 DEF Games, SameFlight
<1>. HIDE DEF y
<1>7. FlowOK(y) /\ Windable(y)
  BY <1>1, <1>2, <1>3, <1>5, <1>6
     DEF FlowOK, Sound, Bounded, Idle, WebSound, Windable, SameFlight
<1>. QED  BY <1>4, <1>6, <1>7 DEF FlowOK

\* BreakSettles
LEMMA BreakSettlesKeeps ==
  ASSUME FlowInv, BreakSettles
  PROVE  FlowOK(g') /\ Books(g, g')
<1>1. PICK k \in BreakKinds, earned \in BOOLEAN :
        g.breaks[k] > 0 /\ g' = Settled([g EXCEPT !.breaks[k] = @ - 1], k, earned)
  BY DEF BreakSettles
<1>. DEFINE x == [g EXCEPT !.breaks[k] = @ - 1]
<1>2. Sound(x) /\ FlowOK(x) /\ Windable(x) /\ SameFlight(x, g)
  BY <1>1, SettledGame
<1>3. g' = Settled(x, k, earned)
  BY <1>1
<1>. HIDE DEF x
<1>4. CASE k = "resume"
  <2>1. g' = SetState(x, "playing") \/ g' = x
    BY <1>3, <1>4 DEF Settled
  <2>. QED  BY <1>2, <2>1, StateKeeps, Unbooked DEF GameStates
<1>5. CASE k = "multiplier"
  <2>. DEFINE y == IF earned THEN [x EXCEPT !.claims = @ + 1] ELSE x
  <2>1. g' = SetState(y, "gameover") \/ g' = y
    BY <1>3, <1>5 DEF Settled
  <2>2. y \in Games /\ Alike(y, x)
    BY <1>2, ClaimGame DEF Sound, Alike, SameFlight
  <2>. HIDE DEF y
  <2>3. Sound(y) /\ FlowOK(y) /\ SameFlight(y, g)
    BY <1>2, <2>2, AlikeOK DEF Alike, SameFlight
  <2>. QED  BY <2>1, <2>3, StateKeeps, Unbooked DEF GameStates
<1>6. CASE k = "continue"
  <2>1. g' = DoContinue(x) \/ g' = SetState(x, "continue")
    BY <1>3, <1>6 DEF Settled
  <2>. QED  BY <1>2, <2>1, StateKeeps, WindKeeps DEF GameStates
<1>. QED  BY <1>4, <1>5, <1>6 DEF BreakKinds

\* AdValve: it leads back to where the break was entered from, whatever is pending.
LEMMA AdValveKeeps ==
  ASSUME FlowInv, AdValve
  PROVE  FlowOK(g') /\ Books(g, g')
<1>1. Sound(g) /\ FlowOK(g) /\ SameFlight(g, g) /\ g \in Games
  BY FlowGame DEF SameFlight
<1>2. g.preAd \in GameStates \cup {"none"}
  BY <1>1 DEF Games
<1>. DEFINE s == IF g.preAd \in {"none", "ad"} THEN "gameover" ELSE g.preAd
<1>3. s \in GameStates \ {"ad"} /\ (s = "continue" => g.preAd = "continue")
  BY <1>2 DEF GameStates
<1>4. g' = SetState(g, s)
  BY DEF AdValve
<1>. HIDE DEF s
<1>5. s = "continue" => Windable(g)
  BY <1>1, <1>3 DEF FlowOK
<1>. QED  BY <1>1, <1>3, <1>4, <1>5, StateKeeps

\* AdTimer
LEMMA AdTimerKeeps ==
  ASSUME FlowInv, AdTimer
  PROVE  FlowOK(g') /\ Books(g, g')
<1>0. g \in Games
  BY FlowGame
<1>. DEFINE y == [g EXCEPT !.adDone = TRUE]
<1>1. y \in Games
  BY <1>0 DEF Games
<1>2. Alike(y, g)
  BY <1>0 DEF Games, Alike, SameFlight
<1>3. g' = y
  BY DEF AdTimer
<1>. QED  BY <1>1, <1>2, <1>3, AlikeKeeps

\* AdSkip
LEMMA AdSkipKeeps ==
  ASSUME FlowInv, AdSkip
  PROVE  FlowOK(g') /\ Books(g, g')
<1>1. Sound(g) /\ SameFlight(g, g) /\ (g.adFor = "continue" => Windable(g))
  BY FlowGame DEF SameFlight, FlowOK
<1>2. \/ g.adFor = "continue" /\ g' = DoContinue(g)
      \/ g' = SetState(g, "gameover")
  BY DEF AdSkip
<1>. QED  BY <1>1, <1>2, WindKeeps, StateKeeps DEF GameStates

\* AdGold
LEMMA AdGoldKeeps ==
  ASSUME FlowInv, AdGold
  PROVE  FlowOK(g') /\ Books(g, g')
<1>1. g \in Games /\ FlowOK(g) /\ Sound(g)
  BY FlowGame
<1>. DEFINE w == [g EXCEPT !.skipAd = TRUE]
<1>2. PICK y \in IF g.adFor = "continue" THEN FinishRun(w) ELSE {SetState(g, "gameover")} :
        g' = SetScreen(y, "sub")
  BY DEF AdGold
<1>3. w \in Games
  BY <1>1 DEF Games
<1>4. Alike(w, g)
  BY <1>1 DEF Games, Alike, SameFlight
<1>5. y \in FinishRun(w) \/ y = SetState(g, "gameover")
  BY <1>2
<1>. HIDE DEF w
<1>6. FlowOK(y) /\ Books(g, y)
  <2>1. CASE y \in FinishRun(w)
    <3>1. FlowOK(w)
      BY <1>1, <1>3, <1>4, AlikeOK
    <3>2. FlowOK(y) /\ Books(w, y)
      BY <2>1, <3>1, EndOK
    <3>. QED  BY <1>4, <3>2, BooksAlike
  <2>2. CASE y = SetState(g, "gameover")
    <3>1. FlowOK(y) /\ SameFlight(y, g)
      BY <1>1, <2>2, SetStateOK DEF GameStates
    <3>. QED  BY <3>1, Unbooked
  <2>. QED  BY <1>5, <2>1, <2>2
<1>7. FlowOK(g') /\ Alike(g', y)
  BY <1>2, <1>6, ScreenOver
<1>. QED  BY <1>6, <1>7 DEF Books, Alike, SameFlight

-----------------------------------------------------------------------------
(* Rooms, the search and the shared run                                    *)

\* The search's state is written, and nothing else.
LEMMA MmGame ==
  ASSUME FlowInv, NEW m \in {"none", "searching", "waiting"}
  PROVE  [g EXCEPT !.mm = m] \in Games /\ Alike([g EXCEPT !.mm = m], g)
<1>0. g \in Games
  BY FlowGame
<1>1. [g EXCEPT !.mm = m] \in Games
  BY <1>0 DEF Games
<1>2. Alike([g EXCEPT !.mm = m], g)
  BY <1>0 DEF Games, Alike, SameFlight
<1>. QED  BY <1>1, <1>2

\* Search, StopSearch, KeepSearching, TakeAi, and the three steps of pumpMatchmaking
LEMMA SearchKeeps ==
  ASSUME FlowInv, Search \/ StopSearch \/ KeepSearching \/ TakeAi \/ PumpMatchmaking
  PROVE  FlowOK(g') /\ Books(g, g')
<1>0. g \in Games
  BY FlowGame
<1>1. \/ g' = BeginSearch(g)
      \/ g' = CancelSearch(g)
      \/ Room /\ g' = LaunchMatch([g EXCEPT !.mm = "none"], TRUE)
      \/ g' = [g EXCEPT !.mm = "searching"]
      \/ g' = [g EXCEPT !.mm = "waiting"]
  BY DEF Search, StopSearch, KeepSearching, TakeAi, PumpMatchmaking, PumpAway, WindowCloses,
         WaitAlone
<1>2. CASE g' = BeginSearch(g) \/ g' = CancelSearch(g)
  BY <1>0, <1>2, SearchGame, AlikeKeeps
<1>3. CASE Room /\ g' = LaunchMatch([g EXCEPT !.mm = "none"], TRUE)
  <2>. DEFINE x == [g EXCEPT !.mm = "none"]
  <2>1. x \in Games /\ Alike(x, g) /\ g' = LaunchMatch(x, TRUE)
    BY <1>3, MmGame
  <2>. HIDE DEF x
  <2>. QED  BY <1>3, <2>1, LaunchKeeps DEF RunKinds
<1>4. CASE g' = [g EXCEPT !.mm = "searching"] \/ g' = [g EXCEPT !.mm = "waiting"]
  BY <1>4, MmGame, AlikeKeeps
<1>. QED  BY <1>1, <1>2, <1>3, <1>4

\* The fields of a room that is entered.
LEMMA EnteredGame ==
  ASSUME NEW x \in Games
  PROVE  [x EXCEPT !.room = TRUE, !.local = FALSE, !.seat = "lobby", !.live = FALSE] \in Games
  BY ZenonT(40) DEF Games

\* EnterRoom
LEMMA EnterRoomKeeps ==
  ASSUME FlowInv, EnterRoom
  PROVE  FlowOK(g') /\ Books(g, g')
<1>1. g \in Games
  BY FlowGame
<1>. DEFINE w == [g EXCEPT !.room = TRUE, !.local = FALSE, !.seat = "lobby", !.live = FALSE]
<1>2. w \in Games
  BY <1>1, EnteredGame
<1>3. Alike(w, g)
  BY <1>1 DEF Games, Alike, SameFlight
<1>4. g' = SetScreen(w, "live")
  BY DEF EnterRoom
<1>. HIDE DEF w
<1>5. g' \in Games /\ Alike(g', w)
  BY <1>2, <1>4, SetScreenGame
<1>6. Alike(g', g)
  BY <1>3, <1>5 DEF Alike, SameFlight
<1>. QED  BY <1>5, <1>6, AlikeKeeps

\* PilotsMove
LEMMA PilotsMoveKeeps ==
  ASSUME FlowInv, PilotsMove
  PROVE  FlowOK(g') /\ Books(g, g')
<1>1. g \in Games
  BY FlowGame
<1>. DEFINE l == ~g.live
            y == [g EXCEPT !.live = l]
<1>2. l \in BOOLEAN
  OBVIOUS
<1>3. g' = y
  BY DEF PilotsMove
<1>. HIDE DEF l
<1>4. y \in Games
  BY <1>1, <1>2 DEF Games
<1>5. Alike(y, g)
  BY <1>1 DEF Games, Alike, SameFlight
<1>. QED  BY <1>3, <1>4, <1>5, AlikeKeeps

\* NetStart
LEMMA NetStartKeeps ==
  ASSUME FlowInv, NetStart
  PROVE  FlowOK(g') /\ Books(g, g')
<1>1. g \in Games /\ CanLaunch(g) /\ Sound(g)
  BY FlowGame DEF NetStart
<1>. DEFINE e == g.epoch - 1
            w == [g EXCEPT !.mm = "none", !.epoch = e]
            y == RebuildWorld(w)
<1>2. g' = LaunchMatch(y, FALSE)
  BY DEF NetStart
<1>3. e \in Int /\ e + 1 = g.epoch
  <2>1. g.epoch \in Int
    BY <1>1 DEF Games
  <2>. QED  BY <2>1
<1>. HIDE DEF e
<1>4. w \in Games
  BY <1>1, <1>3 DEF Games
<1>5. /\ w.epoch = e /\ w.rated = g.rated /\ w.breaks = g.breaks /\ w.state = g.state
      /\ w.preAd = g.preAd /\ w.edition = g.edition /\ w.tier = g.tier /\ w.winds = g.winds
  BY <1>1 DEF Games
<1>. HIDE DEF w
<1>6. w.epoch + 1 \in 0..MaxEpoch
  BY <1>1, <1>3, <1>5 DEF Sound, Bounded
<1>7. CanLaunch(w)
  BY <1>1, <1>4, <1>5, <1>6 DEF CanLaunch, Idle, WebSound
<1>8. Sound(y) /\ y.epoch = g.epoch /\ y.rated = g.rated
  BY <1>3, <1>5, <1>7, ResetSound DEF RebuildWorld
<1>. HIDE DEF y
<1>9. CanLaunch(y)
  BY <1>1, <1>8 DEF CanLaunch, Sound, Bounded
<1>10. FlowOK(g') /\ g'.rated = g.rated /\ g'.epoch = g.epoch + 1
  BY <1>2, <1>8, <1>9, LaunchMatchOK
<1>. QED  BY <1>1, <1>10, Launched

\* NetLost
LEMMA NetLostKeeps ==
  ASSUME FlowInv, NetLost
  PROVE  FlowOK(g') /\ Books(g, g')
<1>. DEFINE d == Disconnect(g)
            u == SetState(d, "menu")
<1>1. d \in Games /\ Alike(d, g) /\ FlowOK(g)
  BY DisconnectGame, FlowGame
<1>2. g' = d \/ g' = SetScreen(u, "live")
  BY DEF NetLost
<1>. HIDE DEF d
<1>3. CASE g' = d
  BY <1>1, <1>3, AlikeKeeps
<1>4. CASE g' = SetScreen(u, "live")
  <2>1. Sound(d)
    BY <1>1, AlikeOK DEF FlowOK
  <2>2. FlowOK(u) /\ SameFlight(u, d)
    BY <2>1, SetStateOK DEF GameStates
  <2>. HIDE DEF u
  <2>3. FlowOK(g') /\ Alike(g', u)
    BY <1>4, <2>2, ScreenOver
  <2>4. SameFlight(g', g)
    BY <1>1, <2>2, <2>3 DEF Alike, SameFlight
  <2>. QED  BY <2>3, <2>4, Unbooked
<1>. QED  BY <1>2, <1>3, <1>4

\* The note that a shared run is being loaded.
LEMMA LoadingGame ==
  ASSUME NEW x \in Games, NEW b \in BOOLEAN
  PROVE  [x EXCEPT !.loading = b] \in Games /\ Alike([x EXCEPT !.loading = b], x)
<1>1. [x EXCEPT !.loading = b] \in Games
  BY DEF Games
<1>2. Alike([x EXCEPT !.loading = b], x)
  BY DEF Games, Alike, SameFlight
<1>. QED  BY <1>1, <1>2

\* LoadRun, RunLoaded, RunMissing
LEMMA LoadKeeps ==
  ASSUME FlowInv, LoadRun \/ RunLoaded \/ RunMissing
  PROVE  FlowOK(g') /\ Books(g, g')
<1>0. TRUE \in BOOLEAN /\ FALSE \in BOOLEAN /\ g \in Games
  BY FlowGame
<1>1. CASE LoadRun \/ RunMissing
  <2>1. PICK b \in BOOLEAN : g' = [g EXCEPT !.loading = b]
    BY <1>0, <1>1 DEF LoadRun, RunMissing
  <2>. QED  BY <1>0, <2>1, LoadingGame, AlikeKeeps
<1>2. CASE RunLoaded
  <2>. DEFINE y == RebuildWorld(g)
  <2>1. FlowOK(y) /\ y.rated = g.rated /\ y.epoch = g.epoch + 1
    BY <1>2, RebuildOK DEF RunLoaded, Room, FlowInv
  <2>2. g' = [y EXCEPT !.loading = FALSE]
    BY <1>2 DEF RunLoaded
  <2>. HIDE DEF y
  <2>3. g' \in Games /\ Alike(g', y)
    BY <1>0, <2>1, <2>2, LoadingGame DEF FlowOK, Sound
  <2>4. FlowOK(g')
    BY <2>1, <2>3, AlikeOK
  <2>5. g'.rated = g.rated /\ g'.epoch = g.epoch + 1
    BY <2>1, <2>3 DEF Alike, SameFlight
  <2>. QED  BY <1>0, <2>4, <2>5, Launched
<1>. QED  BY <1>1, <1>2

-----------------------------------------------------------------------------
(* The theorems                                                            *)

\* Init satisfies the invariant: nothing flies, and no break is under way.
LEMMA InitOK == Init => FlowInv
<1>. SUFFICES ASSUME Init PROVE FlowOK(g)
  BY DEF FlowInv
<1>. DEFINE z == [k \in BreakKinds |-> 0]
<1>1. PICK p \in Players :
      g = [state |-> "menu", preAd |-> "none", screen |-> "main", edition |-> p[1], tier |-> p[2],
           kind |-> "none", epoch |-> 0, open |-> FALSE, recorded |-> FALSE, asleep |-> FALSE,
           claims |-> 0, winds |-> 0, flown |-> FALSE, duel |-> "",
           rated |-> 0,
           mm |-> "none", local |-> FALSE, room |-> FALSE, live |-> FALSE, seat |-> "off",
           adFor |-> "none", adDone |-> FALSE, skipAd |-> FALSE, loading |-> FALSE,
           breaks |-> z]
  BY DEF Init
<1>2. p[1] \in {"portal", "web"} /\ p[2] \in Tiers
  BY <1>1, FlowAssumption
<1>3. z \in [BreakKinds -> Nat] /\ Total(z) = 0 /\ \A k \in BreakKinds : z[k] = 0
  BY DEF Total, BreakKinds
<1>. HIDE DEF z
<1>4. g \in Games
  <2>1. 0 \in Nat /\ 0 \in Int /\ "menu" \in GameStates /\ "none" \in RunKinds
    BY DEF GameStates, RunKinds
  <2>2. [state |-> "menu", preAd |-> "none", screen |-> "main", edition |-> p[1], tier |-> p[2],
         kind |-> "none", epoch |-> 0, open |-> FALSE, recorded |-> FALSE, asleep |-> FALSE,
         claims |-> 0, winds |-> 0, flown |-> FALSE, duel |-> "",
         rated |-> 0,
         mm |-> "none", local |-> FALSE, room |-> FALSE, live |-> FALSE, seat |-> "off",
         adFor |-> "none", adDone |-> FALSE, skipAd |-> FALSE, loading |-> FALSE,
         breaks |-> z] \in Games
    BY <1>2, <1>3, <2>1 DEF Games
  <2>. QED  BY <1>1, <2>2
<1>5. /\ g.state = "menu" /\ g.preAd = "none" /\ g.adFor = "none" /\ g.epoch = 0
      /\ g.winds = 0 /\ g.breaks = z
  BY <1>1
<1>6. MaxEpoch \in Nat /\ MaxBreaks \in Nat /\ WindCap[g.tier] \in Nat
  BY <1>4, CapIsNat
<1>7. 0 \in 0..MaxEpoch /\ 0 <= MaxBreaks /\ 0 <= WindCap[g.tier]
  BY <1>6
<1>8. Sound(g)
  BY <1>3, <1>4, <1>5, <1>7 DEF Sound, Bounded, Idle, WebSound
<1>. QED  BY <1>5, <1>8 DEF FlowOK

\* Every step keeps the invariant, and books a flight once.
LEMMA StepOK ==
  ASSUME FlowInv, [Next]_g
  PROVE  FlowInv' /\ Books(g, g')
<1>. SUFFICES FlowOK(g') /\ Books(g, g')
  BY DEF FlowInv
<1>1. CASE Play \/ Versus \/ Practice \/ StartRoomNow
  BY <1>1, PlayKeeps, VersusKeeps, PracticeKeeps, StartRoomNowKeeps
<1>2. CASE Replay \/ Rematch \/ Leave \/ OpenScreen \/ PickSeed \/ NewDay
  BY <1>2, ReplayKeeps, RematchKeeps, LeaveKeeps, OpenScreenKeeps, HillsKeep
<1>3. CASE Soar \/ CrossLine \/ KnockedOut \/ SunSets \/ VersusEnds \/ Pause
  BY <1>3, SoarKeeps, CrossLineKeeps, CutShortKeeps, SunSetsKeeps, PauseKeeps
<1>4. CASE ContinueBought \/ ContinueRefused
  BY <1>4, ContinueBoughtKeeps, CutShortKeeps
<1>5. CASE Resume \/ Multiply \/ ContinueAd \/ BreakSettles \/ AdValve
  BY <1>5, ResumeKeeps, MultiplyKeeps, ContinueAdKeeps, BreakSettlesKeeps, AdValveKeeps
<1>6. CASE AdTimer \/ AdSkip \/ AdGold
  BY <1>6, AdTimerKeeps, AdSkipKeeps, AdGoldKeeps
<1>7. CASE Search \/ StopSearch \/ KeepSearching \/ EnterRoom \/ TakeAi \/ PumpMatchmaking
  BY <1>7, SearchKeeps, EnterRoomKeeps
<1>8. CASE PilotsMove \/ NetStart \/ NetLost
  BY <1>8, PilotsMoveKeeps, NetStartKeeps, NetLostKeeps
<1>9. CASE LoadRun \/ RunLoaded \/ RunMissing
  BY <1>9, LoadKeeps
<1>10. CASE UNCHANGED g
  BY <1>10 DEF FlowInv, Books
<1>. QED  BY <1>1, <1>2, <1>3, <1>4, <1>5, <1>6, <1>7, <1>8, <1>9, <1>10 DEF Next

\* The inductive invariant: a second wind is left wherever one may be granted on the web.
THEOREM Inductive == Spec => []FlowInv
<1>1. FlowInv /\ [Next]_g => FlowInv'
  BY StepOK
<1>. QED  BY InitOK, <1>1, PTL DEF Spec

\* Every field of the game has its type, and its counters keep their bounds.
THEOREM TypeCorrect == Spec => []TypeOK
<1>1. FlowInv => TypeOK
  BY DEF FlowInv, FlowOK, Sound, Bounded, Total, TypeOK
<1>. QED  BY Inductive, <1>1, PTL

\* On the web no player gets more second winds than the tier allows, whatever placeholder
\* is left to the safety valve and whatever flight the valve brings back (onDaylightOut,
\* doContinue, the ad state of frame).
THEOREM WindsCorrect == Spec => []WebWindsAreCapped
<1>1. FlowInv => WebWindsAreCapped
  BY DEF FlowInv, FlowOK, Sound, WebSound, WebWindsAreCapped
<1>. QED  BY Inductive, <1>1, PTL

\* A flight is booked once: at the line (fixedUpdate), when it ends (finishRun) or when it
\* is given up (goToMenu), in both editions and with the valve.
THEOREM BookedOnce == Spec => FlightsAreBookedOnce
<1>1. FlowInv /\ [Next]_g
      => [/\ g.recorded /\ ~g'.recorded => g'.epoch > g.epoch
          /\ g'.rated # g.rated => /\ g.kind = "duel" /\ g'.rated = g.rated + 1
                                  /\ ~g.recorded /\ (g'.recorded \/ g'.epoch > g.epoch)]_g
  BY StepOK DEF Books
<1>. QED  BY Inductive, <1>1, PTL DEF Spec, FlightsAreBookedOnce
=============================================================================
