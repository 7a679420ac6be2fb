------------------------------- MODULE Heartbeat -------------------------------
(***************************************************************************)
(* The heartbeat of one Engine.IO session (src/engineio/session.rs): the   *)
(* object of a sid, the one WebSocket attached to it and the client at its *)
(* other end.  The object pings from an alarm that re-arms itself; it may  *)
(* be evicted, and then knows only what the socket's attachment holds; the *)
(* platform may lose the alarm, and then any wake repairs the chain.  The  *)
(* session's entry in its hub, and what a lapsed lease does to it, is the  *)
(* subject of Departures; here its renewal is an await of the alarm.       *)
(*                                                                         *)
(* Times are kept as ages, in ticks: 0 is now, Never is the code's None.   *)
(* While a handler awaits its own storage no other event is delivered, so  *)
(* a step runs from one call to another object to the next.                *)
(***************************************************************************)
EXTENDS Integers, Sequences

CONSTANTS
    Interval,   \* PING_INTERVAL_MS
    Timeout,    \* PING_TIMEOUT_MS
    Grace,      \* ALARM_LATE_GRACE_MS, PING_OVERDUE_GRACE_MS
    NudgeLate,  \* how late a ping is when the client nudges
    Delay,      \* the longest a frame, or a call to the hub, is under way
    Wire,       \* frames of the client under way at once
    LateWarmUp  \* the Worker's warm-up may arrive after an eviction

ASSUME HeartbeatTimes ==
    /\ {Interval, Timeout, Grace, NudgeLate, Delay, Wire} \subseteq Nat
    /\ Interval > Timeout                   \* asserted by the code
    /\ Grace > 0 /\ Grace + Delay <= NudgeLate    \* why the grace is two seconds
    /\ NudgeLate + 2 * Delay < Timeout      \* its answer comes in time
    /\ LateWarmUp \in BOOLEAN

VARIABLES
    inner,      \* SessionState: what the object holds in memory
    att,        \* WsAttachment, on the socket
    alarm,      \* the object's alarm: its row, and whether it will ever fire
    tick,       \* the age of the call the alarm handler awaits, or Never
    client,     \* the client: up or dead
    heard,      \* the age of the last ping the client heard
    nudged,     \* the client has nudged since
    down,       \* pings under way to the client, by age
    up,         \* frames under way to the object
    warmUp,     \* the Worker's /__init has still to arrive
    ended       \* how the socket ended

object == <<inner, att, alarm, tick>>
clientVars == <<client, heard, nudged, down, up>>
heartbeatVars == <<object, clientVars, warmUp, ended>>

-----------------------------------------------------------------------------
Never == -1
Transports == {"polling", "pending", "websocket"}
Frames == {"upgrade", "pong", "nudge", "event", "disconnect"}
Endings == {"no", "closed", "error", "ping timeout", "send failed", "silence"}

\* Ages stop counting once every test of them has the same answer.
OldPing == Interval + Grace
Deadline == Interval + Timeout

Capped(a, cap) == IF a = Never \/ a = cap THEN a ELSE a + 1

\* SessionState::new: a session nothing is known of.
Blank == [on |-> TRUE, transport |-> "polling", awaiting |-> Never, lastPing |-> Never]
Absent == [Blank EXCEPT !.on = FALSE]

NoAlarm == [set |-> FALSE, in |-> 0, lost |-> FALSE]

ArmIn(ms) == [set |-> TRUE, in |-> ms, lost |-> FALSE]

\* The next tick of an alarm that finds a socket; without one it is the last.
Rearmed(a) == IF a.on THEN ArmIn(Interval) ELSE NoAlarm

\* from_attachment and to_attachment carry every field here both ways.
Rehydrated(i, a) == IF i.on THEN i ELSE a

-----------------------------------------------------------------------------
\* heartbeat_on_alarm: an unanswered ping closes, anything else pings.
MustCloseAfterPing(a) == a.awaiting # Never /\ 0 >= Timeout

MustClose(a) == a.awaiting # Never /\ a.awaiting >= Timeout

\* heartbeat_repair.  The schedule is the truth: a ping overdue by more than
\* the grace did not run, whatever the alarm's row says.
Overdue(a) == a.lastPing # Never /\ a.lastPing >= Interval + Grace
RowIsTimely(al) == al.set /\ al.in + Grace >= 0

HeartbeatRepairByRow(a, al) ==
    CASE al.set /\ al.in + 2 * NudgeLate >= 0 -> "armed"
      [] a.lastPing # Never /\ a.lastPing < Interval -> "arm"
      [] OTHER -> "ping"

HeartbeatRepair(a, al) ==
    CASE Overdue(a) -> "ping"
      [] ~Overdue(a) /\ RowIsTimely(al) -> "armed"
      [] ~Overdue(a) /\ ~RowIsTimely(al) /\ a.lastPing # Never /\ a.lastPing < Interval -> "arm"
      [] OTHER -> "ping"

Pinged(s) == [s EXCEPT !.awaiting = 0, !.lastPing = 0]

\* ensure_heartbeat on the socket: what a wake of any kind makes of a, i and al.
Ensure(a, i, al) ==
    LET repair == IF a.on /\ a.transport = "websocket" THEN HeartbeatRepair(a, al) ELSE "none"
    IN  CASE repair = "ping" ->
                [att |-> Pinged(a), inner |-> IF i.on THEN Pinged(i) ELSE i,
                 alarm |-> ArmIn(Interval), ping |-> <<0>>]
          [] repair = "arm" ->
                [att |-> a, inner |-> i, alarm |-> ArmIn(Interval - a.lastPing), ping |-> <<>>]
          [] OTHER -> [att |-> a, inner |-> i, alarm |-> al, ping |-> <<>>]

\* A ping is sent to a client that is there to hear it.
Sent(ping) == down' = IF client = "up" THEN down \o ping ELSE down

-----------------------------------------------------------------------------
\* handle_init: the Worker's warm-up, a fetch it does not wait for.
WarmUp ==
    /\ warmUp
    /\ warmUp' = FALSE
    /\ inner' = IF inner.on THEN inner ELSE Blank
    /\ UNCHANGED <<att, alarm, tick, clientVars, ended>>

\* handle_ws_upgrade.  The client comes with its sid once it has it.
WsUpgrade ==
    /\ ~att.on /\ ended = "no" /\ client = "up"
    /\ warmUp => LateWarmUp
    /\ inner' = [Rehydrated(inner, Blank) EXCEPT !.transport = "pending"]
    /\ att' = inner'
    /\ UNCHANGED <<alarm, tick, clientVars, warmUp, ended>>

\* The object is evicted: the socket and its attachment stay.  An alarm handler
\* that awaits a call dies with it.
Evict ==
    /\ inner.on \/ tick # Never
    /\ warmUp => LateWarmUp
    /\ inner' = Absent /\ tick' = Never
    /\ UNCHANGED <<att, alarm, clientVars, warmUp, ended>>

\* note_pong: the ping is answered, on the attachment and in memory.
NotePong(e) == [e EXCEPT !.att.awaiting = Never, !.inner.awaiting = Never]

\* The `5` that commits the upgrade: the schedule starts here.
Committed(e) ==
    LET i == [e.inner EXCEPT !.transport = "websocket", !.awaiting = Never, !.lastPing = 0]
    IN  [e EXCEPT !.inner = i, !.att = i, !.alarm = ArmIn(Interval)]

\* persist_to_ws_attachment, after an event of the client.
Persisted(e) == [e EXCEPT !.att = e.inner]

\* websocket_message: rehydrate, repair the heartbeat, dispatch the packet.
WebsocketMessage ==
    /\ up # <<>> /\ att.on
    /\ LET kind == Head(up).kind
           woken == Ensure(att, Rehydrated(inner, att), alarm)
           done == CASE kind = "pong" -> NotePong(woken)
                     [] kind = "upgrade" -> Committed(woken)
                     [] kind = "event" -> Persisted(woken)
                     [] OTHER -> woken
       IN  /\ att' = done.att /\ inner' = done.inner /\ alarm' = done.alarm
           /\ Sent(woken.ping)
    /\ up' = Tail(up)
    /\ UNCHANGED <<tick, client, heard, nudged, warmUp, ended>>

\* fetch with a delivery of the hub: repair, rehydrate, emit.  A delivery on
\* the session lane moves its counter, which persists the session.
Broadcast ==
    /\ att.on
    /\ LET woken == Ensure(att, inner, alarm)
           awake == [woken EXCEPT !.inner = Rehydrated(woken.inner, woken.att)]
       IN  /\ \E e \in {awake, Persisted(awake)} : att' = e.att
           /\ inner' = awake.inner /\ alarm' = awake.alarm
           /\ Sent(awake.ping)
    /\ UNCHANGED <<tick, client, heard, nudged, up, warmUp, ended>>

-----------------------------------------------------------------------------
\* The socket ends, as the object sees it.  teardown_ws_transport rehydrates the
\* session to know which entry of which hub to drop.
Ends(how) ==
    /\ ended' = how
    /\ att' = Absent
    /\ inner' = IF inner.on THEN inner ELSE att
    /\ down' = <<>> /\ up' = <<>>

\* websocket_close, the socket the client closes or has given up on; and
\* websocket_error, which leaves the alarm to find nobody there.
WebsocketClose ==
    /\ att.on
    /\ \E how \in {"closed", "silence"} :
          /\ how = "silence" <=> (client = "up" /\ att.transport = "websocket" /\ heard >= Deadline)
          /\ Ends(how)
    /\ alarm' = NoAlarm
    /\ UNCHANGED <<tick, client, heard, nudged, warmUp>>

WebsocketError ==
    /\ att.on
    /\ Ends("error")
    /\ UNCHANGED <<alarm, tick, client, heard, nudged, warmUp>>

\* alarm: the next tick is armed before anything else.  A ping also renews the
\* lease of the session's entry in its hub (hub_lease_renewal_due) and refreshes
\* the broadcast registry (registry_refresh_due), each once in a longer window:
\* whether this ping does is left open.
AlarmFires ==
    /\ alarm.set /\ alarm.in <= 0 /\ ~alarm.lost /\ tick = Never
    /\ alarm' = Rearmed(att)
    /\ \/ /\ ~att.on \/ att.transport # "websocket"
          /\ UNCHANGED <<inner, att, tick, ended, down, up>>
       \/ /\ att.on /\ att.transport = "websocket" /\ MustClose(att)
          /\ Ends("ping timeout")
          /\ tick' = tick
       \/ /\ att.on /\ att.transport = "websocket" /\ ~MustClose(att)
          /\ att' = Pinged(att)
          /\ inner' = IF inner.on THEN Pinged(inner) ELSE inner
          /\ tick' \in {Never, 0}
          /\ Sent(<<0>>)
          /\ UNCHANGED <<ended, up>>
       \/ /\ att.on /\ att.transport = "websocket" /\ ~MustClose(att) /\ client = "dead"
          /\ ended' = "send failed"       \* the close alone: no teardown here
          /\ att' = Absent /\ up' = <<>> /\ down' = <<>>
          /\ UNCHANGED <<inner, tick>>
    /\ UNCHANGED <<client, heard, nudged, warmUp>>

\* Back from register_identity or renew_hub_lease, the rest of the alarm.
\* Nothing is written to the attachment here: a pong may have landed meanwhile.
TickWritesBack ==
    /\ tick # Never
    /\ tick' = Never
    /\ att' = IF att.on THEN [att EXCEPT !.awaiting = att.lastPing] ELSE att
    /\ alarm' = ArmIn(Interval)
    /\ UNCHANGED <<inner, clientVars, warmUp, ended>>

TickResumes ==
    /\ tick # Never
    /\ tick' = Never
    /\ alarm' = ArmIn(Interval)
    /\ UNCHANGED <<inner, att, clientVars, warmUp, ended>>

\* External: the platform loses an alarm, and its row stays or goes.
AlarmLost ==
    /\ alarm.set /\ ~alarm.lost /\ att.on
    /\ alarm' \in {[alarm EXCEPT !.lost = TRUE], NoAlarm}
    /\ UNCHANGED <<inner, att, tick, clientVars, warmUp, ended>>

-----------------------------------------------------------------------------
\* External: the client.  It answers a ping, and nudges when one is late.
Frame(kind) == [kind |-> kind, age |-> 0]

ClientHears ==
    /\ client = "up" /\ down # <<>>
    /\ down' = Tail(down)
    /\ heard' = 0 /\ nudged' = FALSE
    /\ up' = Append(up, Frame("pong"))
    /\ UNCHANGED <<object, client, warmUp, ended>>

Silent == client = "up" /\ att.transport = "websocket" /\ heard >= Interval + NudgeLate

ClientNudges ==
    /\ Silent /\ ~nudged
    /\ nudged' = TRUE
    /\ up' = Append(up, Frame("nudge"))
    /\ UNCHANGED <<object, client, heard, down, warmUp, ended>>

ClientSends(kind) ==
    /\ client = "up" /\ att.on /\ Len(up) < Wire
    /\ kind = "upgrade" <=> att.transport = "pending"
    /\ \A n \in DOMAIN up : up[n].kind # "upgrade"
    /\ heard' = IF kind = "upgrade" THEN 0 ELSE heard
    /\ nudged' = IF kind = "upgrade" THEN FALSE ELSE nudged
    /\ up' = Append(up, Frame(kind))
    /\ UNCHANGED <<object, client, down, warmUp, ended>>

ClientDies ==
    /\ client = "up" /\ att.on
    /\ client' = "dead"
    /\ down' = <<>>
    /\ UNCHANGED <<object, heard, nudged, up, warmUp, ended>>

\* Time passes once what is due has happened: frames and calls arrive within
\* Delay, an alarm that is not lost fires well within Grace, the client is prompt.
TimePasses ==
    /\ \A n \in DOMAIN down : down[n] < Delay
    /\ \A n \in DOMAIN up : up[n].age < Delay
    /\ tick = Never \/ tick < Delay
    /\ alarm.set /\ ~alarm.lost => alarm.in > 0
    /\ ~(Silent /\ ~nudged)
    /\ ~(client = "up" /\ att.transport = "websocket" /\ heard >= Deadline)
    /\ down' = [n \in DOMAIN down |-> down[n] + 1]
    /\ up' = [n \in DOMAIN up |-> [up[n] EXCEPT !.age = @ + 1]]
    /\ tick' = Capped(tick, Delay)
    /\ alarm' = IF alarm.set /\ alarm.in > -Grace - 1 THEN [alarm EXCEPT !.in = @ - 1] ELSE alarm
    /\ LET Older(s) == [s EXCEPT !.awaiting = Capped(@, Timeout), !.lastPing = Capped(@, OldPing)]
       IN  att' = Older(att) /\ inner' = Older(inner)
    /\ heard' = Capped(heard, Deadline)
    /\ UNCHANGED <<client, nudged, warmUp, ended>>

-----------------------------------------------------------------------------
HeartbeatInit ==
    /\ inner = Absent /\ att = Absent /\ alarm = NoAlarm /\ tick = Never
    /\ client = "up" /\ heard = 0 /\ nudged = FALSE /\ down = <<>> /\ up = <<>>
    /\ warmUp = TRUE /\ ended = "no"

HeartbeatNext ==
    \/ WarmUp \/ WsUpgrade \/ Evict
    \/ WebsocketMessage \/ Broadcast \/ WebsocketClose \/ WebsocketError
    \/ AlarmFires \/ TickResumes \/ AlarmLost
    \/ ClientHears \/ ClientNudges \/ ClientDies
    \/ \E kind \in {"upgrade", "event", "disconnect"} : ClientSends(kind)
    \/ TimePasses

HeartbeatSpec == HeartbeatInit /\ [][HeartbeatNext]_heartbeatVars

\* Time goes on; the platform delivers the alarms it has not lost, the frames
\* and the answers it was given.
FairSpec ==
    /\ HeartbeatSpec
    /\ WF_heartbeatVars(TimePasses) /\ WF_heartbeatVars(AlarmFires) /\ WF_heartbeatVars(TickResumes)
    /\ WF_heartbeatVars(WebsocketMessage) /\ WF_heartbeatVars(ClientHears) /\ WF_heartbeatVars(ClientNudges)

-----------------------------------------------------------------------------
Session(cap) == [on : BOOLEAN, transport : Transports,
                 awaiting : Never .. Timeout, lastPing : Never .. cap]

\* Type correctness of the session, its socket, its alarm and its client.
HeartbeatTypeOK ==
    /\ {inner, att} \subseteq Session(OldPing)
    /\ alarm \in [set : BOOLEAN, in : -Grace - 1 .. Interval, lost : BOOLEAN]
    /\ tick \in Never .. Delay
    /\ client \in {"up", "dead"} /\ heard \in 0 .. Deadline /\ nudged \in BOOLEAN
    /\ down \in Seq(0 .. Delay) /\ up \in Seq([kind : Frames, age : 0 .. Delay])
    /\ warmUp \in BOOLEAN /\ ended \in Endings

\* heartbeat_on_alarm closes the socket of a client that is gone, never of one
\* that answers its pings: whatever was evicted, lost, repaired or persisted
\* between the ping and the tick that judges it.
AnsweringIsKept == ended = "ping timeout" => client = "dead"

\* ensure_heartbeat: a client that nudges hears a ping before its own deadline
\* of pingInterval + pingTimeout, though the platform lost the alarm.
NeverSilenced == ended # "silence"

\* alarm: the socket of a client that died is closed, unless the platform lost
\* the alarm that would have seen it.
DeadIsSeen ==
    (client = "dead" /\ att.transport = "websocket") ~> (~att.on \/ alarm.lost \/ ~alarm.set)
=============================================================================
