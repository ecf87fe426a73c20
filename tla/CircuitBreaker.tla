--------------------------- MODULE CircuitBreaker ---------------------------
(***************************************************************************)
(* The circuit breaker of one endpoint: step, allows and Breakers.allow /  *)
(* record (src/src/game/resilience/CircuitBreaker.ts), driven by the       *)
(* overlapping requests of fetchJson (src/src/game/resilience/fetchJson.ts)*)
(*                                                                         *)
(* A request asks the breaker when it starts and tells it the outcome when *)
(* it ends; any number of others start and end in between.                 *)
(*                                                                         *)
(* Abstractions.  A time stamp is kept as its age, and ages stop growing   *)
(* once nothing compares them with more.  The retries inside fetchJson are *)
(* one request: the breaker hears of the last attempt only.                *)
(***************************************************************************)
EXTENDS Integers, Sequences

CONSTANTS
  Requests,     \* requests that may be under way at once
  Threshold,    \* cfg.threshold
  Window,       \* cfg.windowMs
  Cooldown,     \* cfg.cooldownMs
  MaxCooldown   \* cfg.maxCooldownMs

ASSUME BreakerAssumption ==
  /\ Threshold \in Nat \ {0} /\ Window \in Nat
  /\ Cooldown \in Nat \ {0} /\ MaxCooldown \in Nat /\ Cooldown <= MaxCooldown

VARIABLES
  state,        \* "closed", "open" or "half-open"
  failures,     \* failures counted
  openAge,      \* time since openedAt, 0 while closed
  windowAge,    \* time since windowStart, NoWindow when there is none
  cooldown,     \* cooldownMs
  req,          \* requests: idle, let through closed, or let through as a probe
  up,           \* the endpoint has recovered for good
  recent,       \* history: ages of the failures since the last success
  reopened      \* history: failed probes since the last success

breaker     == <<state, failures, openAge, windowAge, cooldown>>
breakerVars == <<state, failures, openAge, windowAge, cooldown, req, up, recent, reopened>>

NoWindow == -1
OldestAge == Window + 1
Outcomes == {"ok", "client", "outage"}   \* an answer, a 4xx, a 5xx or no answer
Lower(a, b) == IF a < b THEN a ELSE b

BreakerInit ==
  /\ state = "closed" /\ failures = 0 /\ openAge = 0 /\ windowAge = NoWindow
  /\ cooldown = Cooldown
  /\ req = [r \in Requests |-> "idle"] /\ up = FALSE
  /\ recent = <<>> /\ reopened = 0
----------------------------------------------------------------------------
(* step                                                                    *)

Cooled == openAge >= cooldown

\* Mutant: a failure long after the window began is still in it.
OnceInWindow == windowAge # NoWindow
\* The window starts at the first failure after a success and never moves.
InWindow == windowAge # NoWindow /\ windowAge <= Window

\* Mutant: one failure too many before the breaker trips.
OverThreshold(n) == n > Threshold
Trips(n)         == n >= Threshold

\* Mutant: a failed probe starts over with the first cooldown.
SameCooldown == Cooldown
Doubled == Lower(MaxCooldown, cooldown * 2)

FailureOpen == state = "open" /\ UNCHANGED breaker

FailedProbe ==
  /\ state = "half-open" /\ state' = "open"
  /\ openAge' = 0 /\ cooldown' = Doubled
  /\ UNCHANGED <<failures, windowAge>>

FailureClosed ==
  /\ state = "closed"
  /\ failures' = IF InWindow THEN failures + 1 ELSE 1
  /\ state' = IF Trips(failures') THEN "open" ELSE "closed"
  /\ openAge' = 0
  /\ windowAge' = IF Trips(failures') \/ windowAge # NoWindow THEN windowAge ELSE 0
  /\ cooldown' = IF Trips(failures') THEN Cooldown ELSE cooldown

Failure == FailureOpen \/ FailedProbe \/ FailureClosed

\* Mutant: a success clears the count and leaves the breaker where it is.
ForgiveOnly ==
  /\ failures' = 0 /\ windowAge' = NoWindow
  /\ UNCHANGED <<state, openAge, cooldown>>
Success ==
  /\ state' = "closed" /\ failures' = 0 /\ openAge' = 0
  /\ windowAge' = NoWindow /\ cooldown' = Cooldown

\* shouldCountAsFailure: an HttpError counts whatever its status.
Counts(o) == o # "ok"

Recorded(o) == IF Counts(o) THEN Failure ELSE Success
----------------------------------------------------------------------------
(* The requests of fetchJson, and the world                                *)

\* allow: closed and half-open let every request through, open lets one
\* through that finds the cooldown over, and is half-open then.
Allow(r) ==
  /\ req[r] = "idle"
  /\ state = "open" => Cooled
  /\ state' = IF state = "closed" THEN "closed" ELSE "half-open"
  /\ req' = [req EXCEPT ![r] = IF state = "closed" THEN "flying" ELSE "probe"]
  /\ UNCHANGED <<failures, openAge, windowAge, cooldown, up, recent, reopened>>

\* The request ends; record.
Answer(r, o) ==
  /\ req[r] # "idle" /\ (up => o = "ok")
  /\ req' = [req EXCEPT ![r] = "idle"]
  /\ Recorded(o)
  /\ recent' = IF o = "ok" THEN <<>>
               ELSE LET longer == Append(recent, 0)
                    IN IF Len(longer) > Threshold THEN Tail(longer) ELSE longer
  /\ reopened' = CASE o = "ok" -> 0
                   [] state = "half-open" /\ o # "ok" -> Lower(reopened + 1, MaxCooldown)
                   [] OTHER -> reopened
  /\ UNCHANGED up

\* Time passes while something still depends on it.
Tick ==
  /\ \/ state = "open" /\ ~Cooled
     \/ windowAge \in 0..Window
     \/ \E i \in DOMAIN recent : recent[i] < OldestAge
  /\ openAge' = IF state = "closed" THEN 0 ELSE Lower(openAge + 1, MaxCooldown)
  /\ windowAge' = IF windowAge = NoWindow THEN NoWindow ELSE Lower(windowAge + 1, OldestAge)
  /\ recent' = [i \in DOMAIN recent |-> Lower(recent[i] + 1, OldestAge)]
  /\ UNCHANGED <<state, failures, cooldown, req, up, reopened>>

Recover ==
  /\ ~up /\ up' = TRUE
  /\ UNCHANGED <<state, failures, openAge, windowAge, cooldown, req, recent, reopened>>

BreakerNext ==
  \/ \E r \in Requests : Allow(r)
  \/ \E r \in Requests, o \in Outcomes : Answer(r, o)
  \/ Tick \/ Recover

BreakerSpec == BreakerInit /\ [][BreakerNext]_breakerVars

\* fetchJson bounds every request by a timeout, clocks advance, and the game
\* keeps asking: uploadBest runs whenever a board is opened.
BreakerFairSpec ==
  /\ BreakerSpec /\ WF_breakerVars(Tick)
  /\ \A r \in Requests : WF_breakerVars(Allow(r)) /\ WF_breakerVars(\E o \in Outcomes : Answer(r, o))
----------------------------------------------------------------------------
(* Properties                                                              *)

BreakerTypeOK ==
  /\ state \in {"closed", "open", "half-open"}
  /\ failures \in 0..Threshold /\ openAge \in 0..MaxCooldown
  /\ windowAge \in {NoWindow} \cup 0..OldestAge
  /\ cooldown \in Cooldown..MaxCooldown
  /\ req \in [Requests -> {"idle", "flying", "probe"}] /\ up \in BOOLEAN
  /\ recent \in Seq(0..OldestAge) /\ Len(recent) <= Threshold
  /\ reopened \in Nat

\* "failures that must occur" in the window (BreakerConfig): the breaker never
\* trips but on Threshold failures in a row, all within one window, whatever
\* answers arrive late and out of order.
TripsAreEarned ==
  [][(state = "closed" /\ state' = "open") =>
       /\ Len(recent') = Threshold
       /\ \A i \in DOMAIN recent' : recent'[i] <= Window]_breakerVars

\* "a flapping endpoint backs off instead of getting probed every second"
\* (header): the cooldown has doubled with every failed probe since the last
\* success, up to the cap.
FlappingBacksOff ==
  state # "closed" => cooldown = Lower(MaxCooldown, Cooldown * 2^reopened)

\* "The endpoint recovers, the next probe succeeds, the game heals" (header):
\* when the endpoint stays up, the breaker closes for good.
BreakerHeals == []<>(up => state = "closed") /\ (<>up => <>[](state = "closed"))

\* "exactly the probe that gets one request through" (allows): never are two
\* probes under way.
OneProbe == \A r, s \in Requests : req[r] = "probe" /\ req[s] = "probe" => r = s

\* "Doubles per failed probe" (BreakerConfig): only a probe's failure doubles
\* the cooldown.
OnlyProbesDouble ==
  [][\A r \in Requests : (req[r] = "flying" /\ req'[r] = "idle") => cooldown' <= cooldown]_breakerVars

\* "Sliding window: failures older than windowMs fall out of the count"
\* (step): Threshold failures within a window, with no success among them,
\* find the breaker tripped.
BurstsTrip ==
  (Len(recent) = Threshold /\ \A i \in DOMAIN recent : recent[i] <= Window)
    => state # "closed"

\* "A 5xx or a network error is" evidence against the endpoint
\* (shouldCountAsFailure): an endpoint that rejects requests with a 4xx is
\* not cut off.
RejectionsAreAnswers ==
  [][\A r \in Requests : Answer(r, "client") => (state' = "open" => state = "open")]_breakerVars
=============================================================================
