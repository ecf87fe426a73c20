---------------------------- MODULE RoomSockets ----------------------------
(***************************************************************************)
(* The socket tasks of the Rust service over the room registry             *)
(* (rust/crates/sunbird-server/src/ws.rs), with its seat tokens (auth.rs). *)
(*                                                                         *)
(* Every socket has a task of its own on a multi-threaded runtime.  Each   *)
(* call into the registry is atomic; a handler that makes two calls, as    *)
(* Reconnect does (seat_generation, then reconnect), can be interleaved    *)
(* between them.  A peer that vanished is noticed late: its task is still  *)
(* there when the pilot is back on a new socket.                           *)
(*                                                                         *)
(* Abstractions.  A token is the room, seat and generation it was signed   *)
(* for; tokens expire at any time.  Frames are the messages they carry;    *)
(* payload limits and rate limits are a socket that ends at any time.      *)
(***************************************************************************)
EXTENDS RoomRegistry

CONSTANTS
  Sockets,   \* the connections of a run
  MaxGen     \* bound: the largest generation of a seat

ASSUME SocketAssumption == MaxGen \in Nat \ {0}

VARIABLES
  sockets,   \* the tasks' local variables
  tokens,    \* valid tokens: <<room, seat, generation>>
  redeemed   \* history: <<socket, token>> of every successful Reconnect

vars == <<rooms, byCode, roomsMade, seatsMade, sockets, tokens, redeemed>>

NoSeat  == <<0, 0>>
NoToken == <<0, 0, 0>>

\* seat: Option<(room_id, seat_id)>; feed: the room the forwarder task
\* subscribed to; checked: a token between its check and its use.
Socket == [up : {"new", "open", "gone"},
           seat : (RoomIds \X SeatIds) \cup {NoSeat},
           feed : RoomIds \cup {0},
           checked : (RoomIds \X SeatIds \X Nat) \cup {NoToken}]

NewSocket == [up |-> "new", seat |-> NoSeat, feed |-> 0, checked |-> NoToken]

Init ==
  /\ RegistryInit
  /\ sockets = [k \in Sockets |-> NewSocket] /\ tokens = {} /\ redeemed = {}

\* A task at the top of its read loop.
Reading(k) == sockets[k].up = "open" /\ sockets[k].checked = NoToken
Free(k)    == Reading(k) /\ sockets[k].seat = NoSeat
Holds(k)   == sockets[k].up = "open" /\ sockets[k].seat # NoSeat
RoomOf(k)  == sockets[k].seat[1]
SeatOf(k)  == sockets[k].seat[2]

Open(k) ==
  /\ sockets[k].up = "new"
  /\ sockets' = [sockets EXCEPT ![k].up = "open"]
  /\ UNCHANGED <<registry, tokens, redeemed>>

\* The welcome: the seat, a forwarder for its room, a token (fill_reconnect_token).
Welcome(k, r, s, gen) ==
  /\ sockets' = [sockets EXCEPT ![k].seat = <<r, s>>, ![k].feed = r,
                                ![k].checked = NoToken]
  /\ tokens' = tokens \cup {<<r, s, gen>>}

\* Mutant: a seated socket may join again.
MayJoinAgain(k) == Reading(k)
MayJoin(k) == Free(k)

JoinFrame(k) ==
  /\ MayJoin(k)
  /\ \E code \in Codes, seed \in Seeds : Join(code, seed)
  /\ \E r \in DOMAIN rooms' :
       seatsMade' \in DOMAIN rooms'[r].seats /\ Welcome(k, r, seatsMade', 1)
  /\ UNCHANGED redeemed

\* "leave" of the socket's own seat; the forwarder stays.
LeaveFrame(k) ==
  /\ Reading(k) /\ Holds(k) /\ Leave(RoomOf(k), SeatOf(k))
  /\ sockets' = [sockets EXCEPT ![k].seat = NoSeat]
  /\ UNCHANGED <<tokens, redeemed>>

ReadyFrame(k) ==
  /\ Reading(k) /\ Holds(k)
  /\ \E ready \in BOOLEAN : SetReady(RoomOf(k), SeatOf(k), ready)
  /\ UNCHANGED <<sockets, tokens, redeemed>>

HeartbeatFrame(k) ==
  /\ Reading(k) /\ Holds(k) /\ Heartbeat(RoomOf(k), SeatOf(k))
  /\ UNCHANGED <<sockets, tokens, redeemed>>

\* "reconnect", first call: the token is good and of the current generation.
CheckToken(k, t) ==
  /\ Free(k) /\ t \in tokens
  /\ Generation(t[1], t[2]) = t[3]
  /\ sockets' = [sockets EXCEPT ![k].checked = t]
  /\ UNCHANGED <<registry, tokens, redeemed>>

\* The generation a successful reconnect grants.
GrantGen(t) == NextGen(rooms[t[1]].seats[t[2]])

\* Second call: the seat is reattached.
Reattach(k) ==
  LET t == sockets[k].checked
  IN /\ sockets[k].up = "open" /\ t # NoToken
     /\ Reconnect(t[1], t[2]) /\ GrantGen(t) <= MaxGen
     /\ Welcome(k, t[1], t[2], GrantGen(t))
     /\ redeemed' = redeemed \cup {<<k, t>>}

\* Mutant: no 404 for a seat that is gone.
OfSameGen(r, s, gen) == Generation(r, s) = gen

\* What the HTTP issuer asks of a request: a seat, and its current generation.
Issuable(r, s, gen) == Generation(r, s) # 0 /\ Generation(r, s) = gen

IssueToken ==
  /\ \E r \in RoomIds, s \in SeatIds, gen \in 0..MaxGen :
       Issuable(r, s, gen) /\ tokens' = tokens \cup {<<r, s, gen>>}
  /\ UNCHANGED <<registry, sockets, redeemed>>

ExpireToken(t) ==
  /\ t \in tokens /\ tokens' = tokens \ {t}
  /\ UNCHANGED <<registry, sockets, redeemed>>

Released(k) == [sockets EXCEPT ![k] = [NewSocket EXCEPT !.up = "gone"]]

Frees(k) == Holds(k) /\ Generation(RoomOf(k), SeatOf(k)) # 0

\* The end of a task, for any reason: close, a fatal error on a seat that is
\* gone, a rate limit, a network that gave up.  "Socket gone: free the seat".
SocketGone(k) ==
  /\ sockets[k].up = "open"
  /\ IF Frees(k) THEN Leave(RoomOf(k), SeatOf(k)) ELSE UNCHANGED registry
  /\ sockets' = Released(k)
  /\ UNCHANGED <<tokens, redeemed>>

TimerStep ==
  /\ \/ Sweep
     \/ \E r \in Live : \E s \in Seats(r) : FallSilent(r, s)
  /\ UNCHANGED <<sockets, tokens, redeemed>>

SocketStep(k) ==
  \/ Open(k) \/ JoinFrame(k) \/ LeaveFrame(k) \/ ReadyFrame(k) \/ HeartbeatFrame(k)
  \/ \E t \in tokens : CheckToken(k, t)
  \/ Reattach(k) \/ SocketGone(k)

Next == \/ \E k \in Sockets : SocketStep(k)
        \/ IssueToken \/ (\E t \in tokens : ExpireToken(t))
        \/ TimerStep

Spec == Init /\ [][Next]_vars
----------------------------------------------------------------------------
(* Properties                                                              *)

TypeOK ==
  /\ RegistryTypeOK
  /\ sockets \in [Sockets -> Socket]
  /\ tokens \subseteq RoomIds \X SeatIds \X (1..MaxGen)
  /\ redeemed \subseteq Sockets \X (RoomIds \X SeatIds \X (1..MaxGen))

\* No seat without a socket: a seat is in the registry only while some task
\* is there to free it, however joins, reattachments, leaves, sweeps and
\* late disconnects interleave.
SeatsHaveSockets ==
  \A r \in Live : \A s \in Seats(r) :
    \E k \in Sockets : Holds(k) /\ sockets[k].seat = <<r, s>>

\* A token that was used is behind its seat: "a token issued for generation N
\* stops authorising once the seat is reattached" (seat_generation).
UsedTokensAreStale ==
  \A e \in redeemed :
    LET t == e[2] IN Generation(t[1], t[2]) # 0 => t[3] < Generation(t[1], t[2])

\* What there is to "a captured token goes stale on first reuse"
\* (seat_generation): once a socket is back on a token no check passes with
\* it, whatever is issued or swept and however many reconnects that had
\* passed theirs before still come through.
UsedTokensStayShut ==
  [][\A k \in Sockets, e \in redeemed :
       sockets'[k].checked = e[2] => sockets[k].checked = e[2]]_vars

\* "A broadcast event fanned out to every socket seated in the room"
\* (RoomEvent), and to no other: a socket that left hears it no more.
OnlySeatedSocketsHear ==
  \A k \in Sockets : sockets[k].feed # 0 => Holds(k)

\* "a captured token goes stale on first reuse" (seat_generation): no token
\* reattaches two sockets.
TokensWorkOnce == \A a, b \in redeemed : a[2] = b[2] => a[1] = b[1]

\* "Reattach to an existing seat after a dropped socket" (reconnect): when
\* the dropped socket's task ends, the seat it lost to a newer one stays.
LateCloseSparesSeat ==
  [][\A k, l \in Sockets :
       (/\ SocketGone(k) /\ k # l /\ Holds(l) /\ sockets[l].seat = sockets[k].seat
        /\ \E t \in tokens : <<l, t>> \in redeemed /\ t[1] = RoomOf(k) /\ t[2] = SeatOf(k)
        /\ Generation(RoomOf(k), SeatOf(k)) # 0)
       => RoomOf(k) \in DOMAIN rooms' /\ SeatOf(k) \in DOMAIN rooms'[RoomOf(k)].seats]_vars
=============================================================================
