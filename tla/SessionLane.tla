------------------------------ MODULE SessionLane ------------------------------
(***************************************************************************)
(* The session lane (src/session_lane.rs), the pure part: the record a     *)
(* socket keeps of its lane, the rules of a frame in each direction, the   *)
(* mirror an identity's hub keeps for the HTTP lane, and the window of     *)
(* HTTP counters it takes.  Frames are the client's own, so the MAC holds. *)
(***************************************************************************)
EXTENDS Integers, Sequences, Functions

CONSTANTS
    Idle,       \* SESSION_IDLE_MS
    Slack,      \* MIRROR_REFRESH_SLACK_MS
    Life,       \* LANE_MAX_LIFETIME_MS
    Window      \* HTTP_REPLAY_WINDOW, and the bits of seen_mask

ASSUME LaneBounds ==
    /\ {Idle, Slack, Life} \subseteq Nat
    /\ Window \in Nat \ {0}
    /\ Slack < Idle /\ Idle < Life

\* A lane is numbered by its mint; 0 is no lane.  `round` stands for the nonces
\* its key is derived from.
NoLane == [id |-> 0, round |-> 0, exp |-> 0, minted |-> 0,
           lastIn |-> 0, nextOut |-> 1, active |-> FALSE]

Mint(id, round, now) ==
    [NoLane EXCEPT !.id = id, !.round = round, !.exp = now + Idle, !.minted = now]

PastLifetime(l, now) == now > l.minted + Life

IsLive(l, now) == now <= l.exp /\ ~PastLifetime(l, now)

-----------------------------------------------------------------------------
\* verify_inbound: the verdict on a frame [lane, n], in the code's order.
VerifyInbound(l, f, now) ==
    CASE l.id = 0 \/ f.lane # l.id -> "unknown-session"
      [] l.id # 0 /\ f.lane = l.id /\ ~IsLive(l, now) -> "expired"
      [] l.id # 0 /\ f.lane = l.id /\ IsLive(l, now) /\ f.n <= l.lastIn -> "replay"
      [] OTHER -> "ok"

\* An accepted frame moves the counter and the window, and activates the lane.
Received(l, f, now) == [l EXCEPT !.lastIn = f.n, !.exp = now + Idle, !.active = TRUE]

\* seal_outbound: the next counter, and the window.
SealedSame(l, now) == [l EXCEPT !.exp = now + Idle]

Sealed(l, now) == [l EXCEPT !.nextOut = @ + 1, !.exp = now + Idle]

-----------------------------------------------------------------------------
\* HubMirror.  `seen` is seen_mask: bit b stands for the counter last_h - b.
\* `took` is not in the code: the counters the mirror took, in that order.
NoMirror == [id |-> 0, exp |-> 0, minted |-> 0, lastH |-> 0, seen |-> {}, took |-> <<>>]

\* HubMirror::new, of the update a forward carries.
NewMirror(update) ==
    [NoMirror EXCEPT !.id = update.id, !.exp = update.exp, !.minted = update.minted]

RefreshDue(m, exp) == exp > m.exp + Slack

\* upsert_session_mirror: a mirror is made once, and then only its window moves.
UpsertMirror(m, update) ==
    CASE m.id = 0 -> NewMirror(update)
      [] m.id # 0 /\ RefreshDue(m, update.exp) -> [m EXCEPT !.exp = update.exp]
      [] OTHER -> m

\* counter_is_fresh
CounterIsFreshAtEdge(m, h) ==
    h > m.lastH \/ (m.lastH - h <= Window /\ (m.lastH - h) \notin m.seen)

CounterIsFresh(m, h) ==
    h > m.lastH \/ (m.lastH - h < Window /\ (m.lastH - h) \notin m.seen)

\* accept_counter: a newer counter shifts the mask, which keeps Window bits.
AcceptCounter(m, h) ==
    IF h > m.lastH
    THEN [m EXCEPT !.lastH = h,
                   !.seen = ({b + (h - m.lastH) : b \in @} \cap (0 .. Window - 1)) \cup {0}]
    ELSE [m EXCEPT !.seen = @ \cup {m.lastH - h}]

\* verify_http, of a mirror that is there.
VerifyHttp(m, h, now) ==
    CASE ~IsLive(m, now) -> "expired"
      [] IsLive(m, now) /\ (h = 0 \/ ~CounterIsFresh(m, h)) -> "replay"
      [] OTHER -> "ok"

\* An accepted call moves the counter and the window.
HttpAccepted(m, h, now) ==
    [AcceptCounter(m, h) EXCEPT !.exp = now + Idle, !.took = Append(m.took, h)]

-----------------------------------------------------------------------------
\* The window is exact: a counter is fresh just when the mirror has not taken it
\* and it is less than Window behind the newest; so none is taken twice.
WindowExact(m, counters) ==
    /\ IsInjective(m.took)
    /\ \A h \in counters :
          CounterIsFresh(m, h) <=> (h \notin Range(m.took) /\ h > m.lastH - Window)
=============================================================================
