----------------------------- MODULE EngineSession -----------------------------
(***************************************************************************)
(* Who a socket speaks for: one Engine.IO session (src/engineio), from its *)
(* polling transport to the end of its WebSocket.  The session's object    *)
(* keeps the rounds of the handshake in its storage; the Worker answers a  *)
(* polling client and hands its rounds over; the socket's attachment       *)
(* carries the rest through an eviction.  A verified client gets a lane,   *)
(* by its own ask or by an attach its identity's hub vouched for, and each *)
(* event it forwards puts the lane's mirror in the hub, which then judges  *)
(* HTTP calls by it.                                                       *)
(*                                                                         *)
(* While a handler awaits its own storage no other event is delivered; at  *)
(* a call to another object the handlers interleave.                       *)
(***************************************************************************)
EXTENDS SessionLane, Sequences, SequencesExt

CONSTANTS
    Workloads,  \* what the client does at most, and where the hub ids go
    RoundCap,   \* how many completed rounds the object keeps
    Attempts,   \* FORWARD_MAX_ATTEMPTS
    Counters,   \* the counters of HTTP calls
    MaxRound,   \* bound: rounds the client begins
    MaxLane     \* bound: lanes minted

ASSUME EngineBounds ==
    /\ RoundCap \in Nat \ {0} /\ Attempts \in Nat \ {0}
    /\ Counters \subseteq Nat /\ MaxRound \in Nat /\ MaxLane \in Nat

ASSUME WorkloadBounds == \A w \in Workloads : w.store \in {"kv", "sql"}

VARIABLES
    store,      \* HUB_STORE: "kv" or "sql"
    rounds,     \* the object's storage, "auth-rounds"
    inner,      \* SessionState, in memory
    att,        \* WsAttachment, on the socket
    waits,      \* handlers of the object that await the hub
    queue,      \* the polling queue, in KV
    worker,     \* the Worker's polling POST and polling GET
    posts,      \* calls of the object under way to the KV hub
    mirror,     \* per hub and lane: the lane's mirror
    calls,      \* session-verify calls under way in the SQL hub
    client,     \* what the client holds
    up,         \* frames under way on the socket, to the object
    down,       \* and to the client, whose verifications end in any order
    left,       \* what the client may still do
    now,        \* the clock
    ghost       \* what happened, for the properties

session == <<rounds, inner, att, waits, posts>>
polling == <<queue, worker>>
hubs == <<mirror, calls>>
clientVars == <<client, up, down, left>>
vars == <<store, session, polling, hubs, clientVars, now, ghost>>

-----------------------------------------------------------------------------
\* A round is numbered by its InitialRequest; an attach makes a state of its own.
None == 0
Attached == -1

NoRounds == [held |-> FALSE, current |-> None, list |-> <<>>]

\* SessionState::new.  `closed` is not carried by an attachment.
Blank == [on |-> TRUE, auth |-> None, connected |-> FALSE, emitted |-> FALSE,
          tried |-> FALSE, lane |-> NoLane]
Absent == [Blank EXCEPT !.on = FALSE]

Woken(i, a) == IF i.on THEN i ELSE a

\* persist_to_ws_attachment: nowhere to persist without a socket.
Persist(i) == att' = IF att.on THEN i ELSE att

-----------------------------------------------------------------------------
\* remember_auth_round
RememberOnlyLast(r, state) == [held |-> TRUE, current |-> state, list |-> <<state>>]

Remember(r, state) ==
    LET first == IF r.list = <<>> /\ r.current # None THEN <<r.current>> ELSE <<>>
        all == r.list \o first \o <<state>>
    IN  [held |-> TRUE,
         current |-> IF r.current = None THEN state ELSE r.current,
         list |-> IF Len(all) > RoundCap THEN Tail(all) ELSE all]

\* advance_auth_rounds of a General: the round its nonce names, if it is kept.
Known(r, nonce) == nonce = r.current \/ \E n \in DOMAIN r.list : r.list[n] = nonce

Advance(r, nonce) == [r EXCEPT !.held = TRUE, !.current = IF Known(r, nonce) THEN nonce ELSE @]

\* auth_round: the stored rounds, or the session's own state where none are.
Stored(i) == IF rounds.held THEN rounds ELSE [held |-> FALSE, current |-> i.auth, list |-> <<>>]

\* Its end: memory and attachment follow the storage.
Authenticated(i, r) ==
    [i EXCEPT !.auth = r.current, !.connected = @ \/ r.current # None]

-----------------------------------------------------------------------------
\* MirrorUpdate: every forward carries the lane once the client has spoken on it.
Update(l) == IF l.active THEN [id |-> l.id, exp |-> l.exp, minted |-> l.minted]
             ELSE [id |-> 0, exp |-> 0, minted |-> 0]

\* emit_on_session_lane: the relay's counter moves before the frame is sent; on
\* the reference lane otherwise.
OnLane(l) == l.id # 0 /\ l.active /\ IsLive(l, now)

\* mint_session_lane: a lane of the next number, under the nonces of `round`.
MintLane(round) == Mint(ghost.minted + 1, round, now)

\* unregister_with_message_hub: the lane is taken, its id rides the call.  The
\* attachment keeps its copy.
Unregister(i) ==
    /\ inner' = [i EXCEPT !.lane = NoLane]
    /\ posts' = IF i.auth = None THEN posts
                ELSE posts \cup {[k |-> "unregister", lane |-> i.lane.id]}

\* teardown_ws_transport: the socket is gone; what a handler awaits goes on.
SocketEnds ==
    /\ att' = Absent
    /\ Unregister(Woken(inner, att))
    /\ up' = <<>> /\ down' = {}

-----------------------------------------------------------------------------
\* The polling transport.  The Worker completes the handshake on its own, hands
\* the round to the object, and only then queues the response.
PollInitial ==
    /\ left.rounds > 0 /\ ~att.on /\ ~ghost.ended /\ worker.post = "idle" /\ ~worker.closed
    /\ client.asked < MaxRound
    /\ left' = [left EXCEPT !.rounds = @ - 1]
    /\ client' = [client EXCEPT !.asked = @ + 1]
    /\ worker' = [worker EXCEPT !.post = "hand off", !.round = client.asked + 1]
    /\ UNCHANGED <<store, session, queue, hubs, up, down, now, ghost>>

\* mark_closed, when the call to the object fails.
MarkedClosed == [worker EXCEPT !.post = "idle", !.closed = TRUE]

\* auth_round_in_do.  A call that fails may have been done all the same.
HandOff ==
    /\ worker.post = "hand off"
    /\ \/ LET i == Woken(Woken(inner, att), Blank)
              r == Remember(Stored(i), worker.round)
          IN  /\ rounds' = r
              /\ inner' = Authenticated(i, r)
              /\ Persist(Authenticated(i, r))
              /\ ghost' = [ghost EXCEPT !.remembered = Append(@, worker.round)]
              /\ worker' \in {[worker EXCEPT !.post = "append"], MarkedClosed}
       \/ /\ worker' = MarkedClosed
          /\ UNCHANGED <<rounds, inner, att, ghost>>
    /\ UNCHANGED <<store, waits, posts, queue, hubs, clientVars, now>>

\* append_to_queue and drain_queue read, then write what they read.
AppendReads ==
    /\ worker.post = "append"
    /\ worker' = [worker EXCEPT !.post = "write", !.read = Append(queue, worker.round)]
    /\ UNCHANGED <<store, session, queue, hubs, clientVars, now, ghost>>

AppendWrites ==
    /\ worker.post = "write"
    /\ queue' = worker.read
    /\ worker' = [worker EXCEPT !.post = "idle", !.read = <<>>]
    /\ UNCHANGED <<store, session, hubs, clientVars, now, ghost>>

DrainReads ==
    /\ worker.get = <<>> /\ queue # <<>>
    /\ worker' = [worker EXCEPT !.get = queue]
    /\ UNCHANGED <<store, session, queue, hubs, clientVars, now, ghost>>

DrainWrites ==
    /\ worker.get # <<>>
    /\ queue' = <<>>
    /\ client' = [client EXCEPT !.heard = @ \cup Range(worker.get)]
    /\ worker' = [worker EXCEPT !.get = <<>>]
    /\ UNCHANGED <<store, session, hubs, up, down, left, now, ghost>>

-----------------------------------------------------------------------------
\* handle_ws_upgrade: the durable rounds are the authority.  Where there are none
\* KV is read, and has no state either: the Worker saves one there only after the
\* object has written its rounds.
Upgrade ==
    /\ left.upgrade > 0 /\ ~att.on /\ ~ghost.ended
    /\ left' = [left EXCEPT !.upgrade = @ - 1]
    /\ LET i == Woken(inner, Blank)
       IN  inner' = IF rounds.current # None THEN Authenticated(i, rounds) ELSE i
    /\ att' = inner'
    /\ UNCHANGED <<store, rounds, waits, posts, polling, hubs, client, up, down, now, ghost>>

\* The object is evicted, or restarted while a handler awaits the hub.
Evict ==
    /\ inner.on /\ left.evicts > 0
    /\ left' = [left EXCEPT !.evicts = @ - 1]
    /\ inner' = Absent /\ waits' = {}
    /\ UNCHANGED <<store, rounds, att, posts, polling, hubs, client, up, down, now, ghost>>

-----------------------------------------------------------------------------
\* What the client puts on its socket.
Sends(f) == up' = Append(up, f)

SendInitial ==
    /\ att.on /\ left.rounds > 0 /\ client.attach # "sent" /\ client.asked < MaxRound
    /\ left' = [left EXCEPT !.rounds = @ - 1]
    /\ client' = [client EXCEPT !.asked = @ + 1]
    /\ Sends([k |-> "initial", round |-> client.asked + 1])
    /\ UNCHANGED <<store, session, polling, hubs, down, now, ghost>>

\* An `authenticated` General with a laneAsk, under a round the client heard of.
SendAsk ==
    /\ att.on /\ left.asks > 0
    /\ \E r \in client.heard :
          /\ client' = [client EXCEPT !.ask = @ + 1, !.askRound = r]
          /\ Sends([k |-> "ask", round |-> r, ask |-> client.ask + 1])
    /\ left' = [left EXCEPT !.asks = @ - 1]
    /\ UNCHANGED <<store, session, polling, hubs, down, now, ghost>>

SendAttach ==
    /\ att.on /\ left.attach > 0 /\ client.attach # "sent" /\ client.asked = 0
    /\ left' = [left EXCEPT !.attach = @ - 1]
    /\ client' = [client EXCEPT !.attach = "sent"]
    /\ Sends([k |-> "attach"])
    /\ UNCHANGED <<store, session, polling, hubs, down, now, ghost>>

\* The client's attach wait is over: it falls back to a handshake.
AttachTimesOut ==
    /\ client.attach = "sent"
    /\ client' = [client EXCEPT !.attach = "over"]
    /\ UNCHANGED <<store, session, polling, hubs, up, down, left, now, ghost>>

\* A frame of the lane; a frame may be sent again under its counter.
SendEvent ==
    /\ att.on /\ client.lane # 0 /\ left.events > 0
    /\ left' = [left EXCEPT !.events = @ - 1]
    /\ \E n \in {client.n, client.n - 1} \ {0} :
          /\ client' = [client EXCEPT !.n = n + 1]
          /\ Sends([k |-> "event", lane |-> client.lane, n |-> n])
    /\ UNCHANGED <<store, session, polling, hubs, down, now, ghost>>

SendBye ==
    /\ att.on /\ left.byes > 0
    /\ left' = [left EXCEPT !.byes = @ - 1]
    /\ Sends([k |-> "bye"])
    /\ UNCHANGED <<store, session, polling, hubs, client, down, now, ghost>>

\* The client verifies a frame of the relay.
Hears(f) ==
    /\ f \in down
    /\ down' = down \ {f}
    /\ client' =
         CASE f.k = "response" -> [client EXCEPT !.heard = @ \cup {f.round}]
           [] f.k = "offer" /\ f.ask = client.ask ->
                 [client EXCEPT !.lane = f.lane, !.laneRound = client.askRound, !.n = 1]
           [] f.k = "attached" /\ client.attach = "sent" ->
                 [client EXCEPT !.attach = "over", !.lane = f.lane, !.laneRound = Attached, !.n = 1]
           [] f.k = "attachRefused" /\ client.attach = "sent" -> [client EXCEPT !.attach = "over"]
           [] OTHER -> client
    /\ UNCHANGED <<store, session, polling, hubs, up, left, now, ghost>>

-----------------------------------------------------------------------------
\* A General over polling: the object judges it, an unknown round is only
\* logged.  A failed call closes the session, whether it was done or not.
PollGeneral ==
    /\ left.generals > 0 /\ ~att.on /\ ~ghost.ended /\ worker.post = "idle" /\ ~worker.closed
    /\ left' = [left EXCEPT !.generals = @ - 1]
    /\ \E r \in client.heard :
          LET i == Woken(inner, Blank)
              after == Advance(Stored(i), r)
          IN  \/ /\ rounds' = after
                 /\ inner' = Authenticated(i, after)
                 /\ ghost' = IF Known(Stored(i), r) THEN ghost
                             ELSE [ghost EXCEPT !.unknown = @ \cup {r}]
                 /\ worker' \in {worker, MarkedClosed}
              \/ worker' = MarkedClosed /\ UNCHANGED <<rounds, inner, ghost>>
    /\ UNCHANGED <<store, att, waits, posts, queue, hubs, client, up, down, now>>

\* websocket_message: the session is rehydrated, and the packet dispatched.
Frame(kind) == up # <<>> /\ att.on /\ Head(up).k = kind

HandleInitial ==
    /\ Frame("initial")
    /\ LET i == Woken(inner, att)
           r == Remember(Stored(i), Head(up).round)
       IN  /\ rounds' = r
           /\ inner' = Authenticated(i, r)
           /\ Persist(Authenticated(i, r))
    /\ up' = Tail(up)
    /\ down' = down \cup {[k |-> "response", round |-> Head(up).round]}
    /\ ghost' = [ghost EXCEPT !.remembered = Append(@, Head(up).round)]
    /\ UNCHANGED <<store, waits, posts, polling, hubs, client, left, now>>

\* dispatch_auth_message of an `authenticated` General with an ask: the round it
\* proves is selected, and a lane is minted under that round's nonces.
HandleAsk ==
    /\ Frame("ask")
    /\ LET i == Woken(inner, att)
           round == Head(up).round
           lane == MintLane(round)
           verified == [Authenticated(i, Advance(Stored(i), round)) EXCEPT
                            !.emitted = TRUE, !.lane = lane]
       IN  /\ rounds' = Advance(Stored(i), round)
           /\ \/ /\ Known(Stored(i), round) /\ ghost.minted < MaxLane
                 /\ inner' = verified
                 /\ Persist(verified)
                 /\ up' = Tail(up)
                 /\ down' = down \cup {[k |-> "offer", lane |-> lane.id, ask |-> Head(up).ask]}
                 /\ ghost' = [ghost EXCEPT !.minted = @ + 1]
                 /\ posts' = posts
              \/ /\ ~Known(Stored(i), round)       \* authentication failed; reconnect
                 /\ SocketEnds
                 /\ ghost' = [ghost EXCEPT !.unknown = @ \cup {round}, !.ended = TRUE]
    /\ UNCHANGED <<store, waits, polling, hubs, client, left, now>>

\* attach_exchange up to its call: one attach per socket, spent before the hub
\* is asked.
AttachGate(i) == i.auth = None /\ ~i.tried
AttachWait == [k |-> "attach"]

HandleAttach ==
    /\ Frame("attach")
    /\ LET i == Woken(inner, att)
       IN  \/ /\ ~AttachGate(i)
              /\ inner' = i /\ att' = att /\ waits' = waits
              /\ down' = down \cup {[k |-> "attachRefused"]}
           \/ /\ AttachGate(i)
              /\ inner' = [i EXCEPT !.tried = TRUE]
              /\ Persist([i EXCEPT !.tried = TRUE])
              /\ waits' = waits \cup {AttachWait}
              /\ down' = down
    /\ up' = Tail(up)
    /\ UNCHANGED <<store, rounds, posts, polling, hubs, client, left, now, ghost>>

\* Its end, at the hub's verdict: a handshake that completed meanwhile owns the
\* socket; the state and the lane land together, or neither does.
CommitBlindly(i) == TRUE

CommitWon(i) == i.auth = None

AttachAnswered ==
    /\ AttachWait \in waits
    /\ waits' = waits \ {AttachWait}
    /\ LET lane == MintLane(Attached)
           done == [inner EXCEPT !.auth = Attached, !.emitted = TRUE, !.lane = lane]
       IN  \/ /\ CommitWon(inner) /\ ghost.minted < MaxLane
              /\ inner' = done
              /\ Persist(done)
              /\ ghost' = [ghost EXCEPT !.minted = @ + 1]
              /\ down' = IF att.on THEN down \cup {[k |-> "attached", lane |-> lane.id]} ELSE down
           \/ /\ UNCHANGED <<inner, att, ghost>>       \* lost, refused, or no answer
              /\ down' = IF att.on THEN down \cup {[k |-> "attachRefused"]} ELSE down
    /\ UNCHANGED <<store, rounds, posts, polling, hubs, client, up, left, now>>

-----------------------------------------------------------------------------
\* dispatch_session_message.  An accepted counter is persisted before the event
\* is routed; a refusal goes out on the reference lane and changes nothing.
Forward(l, n) == [k |-> "forward", n |-> n, lane |-> l.id, update |-> Update(l),
                  tries |-> 1, answered |-> FALSE]

EventPost(w) == [k |-> "event", update |-> w.update, try |-> <<w.lane, w.n, w.tries>>]

HandleEvent ==
    /\ Frame("event")
    /\ LET i == Woken(inner, att)
           verdict == VerifyInbound(i.lane, Head(up), now)
           lane == Received(i.lane, Head(up), now)
       IN  \/ /\ verdict = "ok"
              /\ inner' = [i EXCEPT !.lane = lane]
              /\ Persist([i EXCEPT !.lane = lane])
              /\ waits' = waits \cup {Forward(lane, Head(up).n)}
              /\ posts' = posts \cup {EventPost(Forward(lane, Head(up).n))}
              /\ ghost' = [ghost EXCEPT !.routed = Append(@, <<lane.id, Head(up).n>>)]
           \/ /\ verdict # "ok"
              /\ inner' = i
              /\ UNCHANGED <<att, waits, posts, ghost>>
    /\ up' = Tail(up)
    /\ UNCHANGED <<store, rounds, polling, hubs, client, down, left, now>>

\* emit_on_session_lane, of one event; the reference lane has no counter.
Emit(i) ==
    IF OnLane(i.lane)
    THEN LET sealed == [i EXCEPT !.lane = Sealed(@, now)]
         IN  /\ inner' = sealed
             /\ Persist(sealed)
             /\ ghost' = [ghost EXCEPT !.stamped = Append(@, <<i.lane.id, i.lane.nextOut>>)]
    ELSE inner' = i /\ UNCHANGED <<att, ghost>>

\* run_forward_with_retry: an attempt that timed out may still land.
ForwardAnswered(w) ==
    /\ w \in waits /\ w.k = "forward" /\ w.answered
    /\ waits' = waits \ {w}
    /\ Emit(inner)
    /\ UNCHANGED <<store, rounds, posts, polling, hubs, clientVars, now>>

ForwardRetries(w) ==
    /\ w \in waits /\ w.k = "forward" /\ ~w.answered /\ w.tries < Attempts
    /\ LET again == [w EXCEPT !.tries = @ + 1]
       IN  /\ waits' = (waits \ {w}) \cup {again}
           /\ posts' = posts \cup {EventPost(again)}
    /\ UNCHANGED <<store, rounds, inner, att, polling, hubs, clientVars, now, ghost>>

ForwardGivesUp(w) ==
    /\ w \in waits /\ w.k = "forward" /\ ~w.answered /\ w.tries = Attempts
    /\ waits' = waits \ {w}
    /\ UNCHANGED <<store, rounds, inner, att, posts, polling, hubs, clientVars, now, ghost>>

\* handle_socketio_broadcast: a delivery of the hub.
Broadcast ==
    /\ att.on /\ left.deliveries > 0
    /\ LET i == Woken(inner, att)
       IN  IF i.auth = None THEN inner' = i /\ UNCHANGED <<att, ghost>> ELSE Emit(i)
    /\ left' = [left EXCEPT !.deliveries = @ - 1]
    /\ UNCHANGED <<store, rounds, waits, posts, polling, hubs, client, up, down, now>>

\* A DISCONNECT packet, and the end of the socket.
HandleBye ==
    /\ Frame("bye")
    /\ Unregister(Woken(inner, att))
    /\ up' = Tail(up)
    /\ UNCHANGED <<store, rounds, att, waits, polling, hubs, client, down, left, now, ghost>>

WebsocketClose ==
    /\ att.on /\ left.closes > 0
    /\ left' = [left EXCEPT !.closes = @ - 1]
    /\ SocketEnds
    /\ ghost' = [ghost EXCEPT !.ended = TRUE]
    /\ UNCHANGED <<store, rounds, waits, polling, hubs, client, now>>

-----------------------------------------------------------------------------
\* The identity's hubs.  Forwards and unregisters go to the KV hub whatever
\* HUB_STORE says; session-verify goes where HUB_STORE says.
Stores == {"kv", "sql"}
Lanes == 1 .. MaxLane

Put(ms, hub, l, m) == [ms EXCEPT ![hub] = [ms[hub] EXCEPT ![l] = m]]

\* handle_socketio_event: the mirror before the dispatch.
HubEvent(p) ==
    /\ p \in posts /\ p.k = "event"
    /\ posts' = posts \ {p}
    /\ LET l == p.update.id
       IN  mirror' = IF l = 0 THEN mirror
                     ELSE Put(mirror, "kv", l, UpsertMirror(mirror["kv"][l], p.update))
    /\ waits' = {IF w.k = "forward" /\ EventPost(w) = p THEN [w EXCEPT !.answered = TRUE] ELSE w :
                     w \in waits}
    /\ UNCHANGED <<store, rounds, inner, att, polling, calls, clientVars, now, ghost>>

\* handle_socketio_unregister, revoke_session_mirror
HubUnregister(p) ==
    /\ p \in posts /\ p.k = "unregister"
    /\ posts' = posts \ {p}
    /\ mirror' = IF p.lane = 0 THEN mirror ELSE Put(mirror, "kv", p.lane, NoMirror)
    /\ UNCHANGED <<store, rounds, inner, att, waits, polling, calls, clientVars, now, ghost>>

PostLost(p) ==
    /\ p \in posts
    /\ posts' = posts \ {p}
    /\ UNCHANGED <<store, rounds, inner, att, waits, polling, hubs, clientVars, now, ghost>>

\* sweep_expired_session_mirrors, when any session of the identity registers.
Sweep ==
    /\ \E l \in Lanes : mirror["kv"][l].id # 0 /\ ~IsLive(mirror["kv"][l], now)
    /\ mirror' = [mirror EXCEPT !["kv"] =
          [l \in Lanes |-> IF IsLive(mirror["kv"][l], now) THEN mirror["kv"][l] ELSE NoMirror]]
    /\ UNCHANGED <<store, session, polling, calls, clientVars, now, ghost>>

\* verify_session, in the hub that holds the mirrors ms.
VerifySession(ms, hub, l, h) ==
    LET m == ms[hub][l]
        verdict == IF m.id = 0 THEN "unknown-session" ELSE VerifyHttp(m, h, now)
    IN  mirror' = CASE verdict = "ok" -> Put(ms, hub, l, HttpAccepted(m, h, now))
                    [] verdict = "expired" -> Put(ms, hub, l, NoMirror)
                    [] OTHER -> ms

\* An HTTP call on the lane; the counters arrive in any order, and again.
HttpCall(h) ==
    /\ client.lane # 0 /\ left.https > 0
    /\ left' = [left EXCEPT !.https = @ - 1]
    /\ \/ /\ store = "kv" \/ mirror["sql"][client.lane].id # 0
          /\ VerifySession(mirror, store, client.lane, h)
          /\ calls' = calls
       \/ /\ store = "sql" /\ mirror["sql"][client.lane].id = 0
          /\ calls' = Append(calls, [lane |-> client.lane, h |-> h, taken |-> FALSE, m |-> NoMirror])
          /\ UNCHANGED mirror
    /\ UNCHANGED <<store, session, polling, client, up, down, now, ghost>>

\* MessageHubSql::handle_session_verify of a lane it has no mirror of: the KV
\* hub hands its own over, and deletes it; the answer may be lost.
SessionTake(n) ==
    /\ n \in DOMAIN calls /\ ~calls[n].taken
    /\ mirror' = Put(mirror, "kv", calls[n].lane, NoMirror)
    /\ \E m \in {mirror["kv"][calls[n].lane], NoMirror} :
          calls' = [calls EXCEPT ![n] = [calls[n] EXCEPT !.taken = TRUE, !.m = m]]
    /\ UNCHANGED <<store, session, polling, clientVars, now, ghost>>

SessionKept(n) ==
    /\ n \in DOMAIN calls /\ calls[n].taken
    /\ LET c == calls[n]
           kept == IF c.m.id = 0 THEN mirror ELSE Put(mirror, "sql", c.lane, c.m)
       IN  VerifySession(kept, "sql", c.lane, c.h)
    /\ calls' = RemoveAt(calls, n)
    /\ UNCHANGED <<store, session, polling, clientVars, now, ghost>>

Tick ==
    /\ left.ticks > 0
    /\ left' = [left EXCEPT !.ticks = @ - 1]
    /\ now' = now + 1
    /\ UNCHANGED <<store, session, polling, hubs, client, up, down, ghost>>

-----------------------------------------------------------------------------
Init ==
    /\ \E w \in Workloads : store = w.store /\ left = w.left
    /\ rounds = NoRounds /\ inner = Absent /\ att = Absent /\ waits = {} /\ posts = {}
    /\ queue = <<>>
    /\ worker = [post |-> "idle", round |-> 0, read |-> <<>>, get |-> <<>>, closed |-> FALSE]
    /\ mirror = [hub \in Stores |-> [l \in Lanes |-> NoMirror]]
    /\ calls = <<>>
    /\ client = [asked |-> 0, heard |-> {}, ask |-> 0, askRound |-> None, attach |-> "no",
                 lane |-> 0, laneRound |-> None, n |-> 1]
    /\ up = <<>> /\ down = {}
    /\ now = 0
    /\ ghost = [remembered |-> <<>>, unknown |-> {}, minted |-> 0, routed |-> <<>>,
                stamped |-> <<>>, ended |-> FALSE]

Next ==
    \/ PollInitial \/ HandOff \/ AppendReads \/ AppendWrites \/ DrainReads \/ DrainWrites
    \/ PollGeneral \/ Upgrade \/ Evict
    \/ SendInitial \/ SendAsk \/ SendAttach \/ AttachTimesOut \/ SendEvent \/ SendBye
    \/ \E f \in down : Hears(f)
    \/ HandleInitial \/ HandleAsk \/ HandleAttach \/ AttachAnswered \/ HandleEvent \/ HandleBye
    \/ \E w \in waits : ForwardAnswered(w) \/ ForwardRetries(w) \/ ForwardGivesUp(w)
    \/ Broadcast \/ WebsocketClose
    \/ \E p \in posts : HubEvent(p) \/ HubUnregister(p) \/ PostLost(p)
    \/ Sweep
    \/ \E h \in Counters : HttpCall(h)
    \/ \E n \in DOMAIN calls : SessionTake(n) \/ SessionKept(n)
    \/ Tick

Spec == Init /\ [][Next]_vars

-----------------------------------------------------------------------------
Rounds == None .. MaxRound
AuthStates == Rounds \cup {Attached}
LaneIds == 0 .. MaxLane

Lane == [id : LaneIds, round : AuthStates, exp : Nat, minted : Nat, lastIn : Nat, nextOut : Nat,
         active : BOOLEAN]
RoundsKept == [held : BOOLEAN, current : AuthStates, list : Seq(AuthStates)]
Session == [on : BOOLEAN, auth : AuthStates, connected : BOOLEAN, emitted : BOOLEAN,
            tried : BOOLEAN, lane : Lane]
LaneUpdate == [id : LaneIds, exp : Nat, minted : Nat]
Mirror == [id : LaneIds, exp : Nat, minted : Nat, lastH : Nat, seen : SUBSET (0 .. Window - 1),
           took : Seq(Counters)]
ForwardWait == [k : {"forward"}, n : Nat, lane : LaneIds, update : LaneUpdate, tries : Nat,
                answered : BOOLEAN]
HubPost == [k : {"event"}, update : LaneUpdate, try : LaneIds \X Nat \X Nat]
               \cup [k : {"unregister"}, lane : LaneIds]
UpFrame == [k : {"initial"}, round : Rounds] \cup [k : {"ask"}, round : Rounds, ask : Nat]
               \cup [k : {"attach"}] \cup [k : {"event"}, lane : Lanes, n : Nat] \cup [k : {"bye"}]
DownFrame == [k : {"response"}, round : Rounds] \cup [k : {"offer"}, lane : Lanes, ask : Nat]
                 \cup [k : {"attached"}, lane : Lanes] \cup [k : {"attachRefused"}]
HubCall == [lane : Lanes, h : Counters, taken : BOOLEAN, m : Mirror]
Worker == [post : {"idle", "hand off", "append", "write"}, round : Rounds, read : Seq(Rounds),
           get : Seq(Rounds), closed : BOOLEAN]
Client == [asked : Rounds, heard : SUBSET Rounds, ask : Nat, askRound : Rounds,
           attach : {"no", "sent", "over"}, lane : LaneIds, laneRound : AuthStates, n : Nat \ {0}]
Happened == [remembered : Seq(Rounds), unknown : SUBSET Rounds, minted : LaneIds,
             routed : Seq(LaneIds \X Nat), stamped : Seq(LaneIds \X Nat), ended : BOOLEAN]

\* Type correctness of the object, its socket, its rounds, the polling queue,
\* the client, what is under way between them, and the hubs' mirrors.
TypeOK ==
    /\ store \in Stores
    /\ rounds \in RoundsKept /\ inner \in Session /\ att \in Session
    /\ waits \subseteq {AttachWait} \cup ForwardWait /\ posts \subseteq HubPost
    /\ queue \in Seq(Rounds) /\ worker \in Worker
    /\ mirror \in [Stores -> [Lanes -> Mirror]] /\ calls \in Seq(HubCall)
    /\ client \in Client /\ up \in Seq(UpFrame) /\ down \subseteq DownFrame
    /\ now \in Nat /\ ghost \in Happened

\* advance_auth_rounds, the Worker's hand-off and the upgrade: a General under a
\* round the client was answered in is known to the object, whichever transport
\* each went by and whatever was evicted; unless RoundCap later rounds were
\* completed while another was selected.
GeneralIsKnown ==
    \A r \in ghost.unknown :
        \E n \in DOMAIN ghost.remembered :
            ghost.remembered[n] = r /\ Len(ghost.remembered) - n >= RoundCap

\* mint_session_lane and the attach's compare-and-set: a lane the client took,
\* with no ask or attach of its own still open, is the socket's lane, and both
\* derived its key from the same nonces.
LaneAgreed ==
    LET i == Woken(inner, att)
        settled == /\ att.on /\ client.attach # "sent"
                   /\ \A n \in DOMAIN up : up[n].k \notin {"ask", "attach", "bye"}
                   /\ \A f \in down : f.k # "offer"
    IN  settled /\ client.lane # 0 /\ i.lane.id # 0
            => i.lane.id = client.lane /\ i.lane.round = client.laneRound

\* dispatch_session_message and emit_on_session_lane persist the counter first:
\* no frame of the client is routed twice, and no counter stamped twice, though
\* the object is evicted between any two steps.
CountersOnce == IsInjective(ghost.routed) /\ IsInjective(ghost.stamped)

\* verify_http: each mirror takes a counter once, in any order, and refuses one
\* it has not taken only when it is Window behind.
WindowIsExact ==
    \A hub \in Stores, l \in Lanes :
        mirror[hub][l].id # 0 => WindowExact(mirror[hub][l], Counters)
=============================================================================
