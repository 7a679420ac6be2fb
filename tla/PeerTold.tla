------------------------------- MODULE PeerTold -------------------------------
(***************************************************************************)
(* How a hub's owner hears of its peer in one room (src/message_hub.rs).   *)
(* The peer's hub pushes peerJoined after a join and peerLeft after a      *)
(* confirmed departure (Departures); the owner's hub compares a push with  *)
(* what it last told, fans a change out to the owner's sessions, and parks *)
(* what reached none.  A session that joins is handed what was parked, or  *)
(* a replay of the last departure, and then a snapshot it reads from the   *)
(* peer's hub.  Both hubs know each other as the room's counterparty.      *)
(*                                                                         *)
(* A step runs from one call to another object to the next.                *)
(***************************************************************************)
EXTENDS Integers, Sequences, SequencesExt

CONSTANTS
    Raws,       \* the owner's raw sockets
    Sios,       \* the owner's socket.io sessions
    Casts,      \* who acts, how often, and what may go wrong
    Ttl,        \* PARKED_PEER_LEFT_TTL_MS
    ReplayWindow \* PEER_LEFT_REPLAY_MS

Sessions == Raws \cup Sios

\* reorder: calls of a hub to another object overtake each other; fail: a call
\* to a session fails.
Faults == {"reorder", "fail"}

Cast == [sessions : SUBSET Sessions, joins : Nat, ticks : Nat, faults : SUBSET Faults]

ASSUME PeerToldBounds ==
    /\ Raws \cap Sios = {}
    /\ Casts \subseteq Cast
    /\ Ttl \in Nat /\ ReplayWindow \in Nat /\ ReplayWindow <= Ttl

VARIABLES
    cast,       \* chosen once
    peer,       \* the peer in its own hub: seat, pending departure, marker, join
    calls,      \* peerLeft and peerJoined under way to the owner's hub
    told,       \* presence_told: what the owner was last told
    parked,     \* parkedleft and parkedjoined: when, or NotYet
    lastLeft,   \* lastleft: when a departure was last delivered, or NotYet
    work,       \* push handlers that await the owner's sessions
    conn,       \* per session: its connection
    entry,      \* per session: what the owner's hub holds of it
    join,       \* per session: the rest of a join that awaits another object
    view,       \* per session: the last its client heard of the peer
    now,
    unheard     \* history: a change that was handed to no session yet

peerVars == <<peer, calls>>
hub == <<told, parked, lastLeft, work>>
sessionVars == <<conn, entry, join, view>>
vars == <<cast, peerVars, hub, sessionVars, now, unheard>>

-----------------------------------------------------------------------------
NotYet == -1
Presences == {"present", "absent"}
NoJoin == [at |-> "no", says |-> "nothing"]
NoneParked == [left |-> NotYet, joined |-> NotYet]

\* told_transition: a push is news when it is not what was told.
Tells(observed) == told # observed

Fresh(at) == at # NotYet /\ now - at <= Ttl

\* parked_presence_choice: what was told last decides, then the newer.
ParkedChoice ==
    LET left == Fresh(parked.left) /\ told # "present"
        joined == Fresh(parked.joined) /\ told # "absent"
    IN  CASE joined /\ (left => parked.joined >= parked.left) -> "present"
          [] left /\ (joined => parked.joined < parked.left) -> "absent"
          [] OTHER -> "nothing"

\* departure_replay_due
ReplayDue == lastLeft # NotYet /\ told = "absent" /\ now - lastLeft <= ReplayWindow

\* Faulty: only a seated peer is told.
PresenceAnswerSeated == IF peer.seated THEN "present" ELSE "nothing"

\* presence_answer of the peer's hub: an empty room is absent once confirmed.
PresenceAnswer ==
    CASE peer.seated -> "present"
      [] ~peer.seated /\ ~peer.pending /\ peer.gone -> "absent"
      [] OTHER -> "nothing"

Told(s, says) == IF says = "nothing" \/ conn[s] # "live" THEN view ELSE [view EXCEPT ![s] = says]

-----------------------------------------------------------------------------
(* The peer, as its own hub sees it *)

PeerJoins ==
    /\ ~peer.seated /\ peer.join = "no" /\ peer.joins < cast.joins
    /\ peer' = [peer EXCEPT !.seated = TRUE, !.gone = FALSE, !.join = "ask", !.joins = @ + 1]
    /\ UNCHANGED <<cast, calls, hub, sessionVars, now, unheard>>

\* push_peer_joined, after the snapshot the join asks for.
PushPeerJoined ==
    /\ peer.join = "ask"
    /\ peer' = [peer EXCEPT !.join = "no"]
    /\ calls' = Append(calls, "present")
    /\ UNCHANGED <<cast, hub, sessionVars, now, unheard>>

PeerCloses ==
    /\ peer.seated
    /\ peer' = [peer EXCEPT !.seated = FALSE, !.pending = TRUE]
    /\ UNCHANGED <<cast, calls, hub, sessionVars, now, unheard>>

\* No call that says the peer is present is still under way.
NoLateArrival ==
    /\ peer.join = "no" /\ calls = <<>>
    /\ \A n \in DOMAIN work : work[n].says # "present"
    /\ \A s \in Sessions : join[s] # [at |-> "answer", says |-> "present"]

\* run_departure_debounce_alarm, push_peer_left.  Nothing bounds a call by the
\* debounce window: that the arrival's calls are over is part of calls in order.
DebounceEnds ==
    /\ peer.pending
    /\ "reorder" \in cast.faults \/ NoLateArrival
    /\ peer' = [peer EXCEPT !.pending = FALSE, !.gone = ~peer.seated]
    /\ calls' = IF peer.seated THEN calls ELSE Append(calls, "absent")
    /\ UNCHANGED <<cast, hub, sessionVars, now, unheard>>

-----------------------------------------------------------------------------
(* A push in the owner's hub *)

\* Faulty: an arrival is not parked.
SettlesLeftOnly(says, delivered) ==
    /\ parked' = IF ~delivered /\ says = "absent" THEN [parked EXCEPT !.left = now] ELSE parked
    /\ lastLeft' = IF delivered /\ says = "absent" THEN now ELSE lastLeft

\* The end of a push handler: a change nobody took is parked, a departure that
\* was delivered is remembered.
Settles(says, delivered) ==
    /\ parked' = CASE delivered -> parked
                   [] ~delivered /\ says = "absent" -> [parked EXCEPT !.left = now]
                   [] ~delivered /\ says = "present" -> [parked EXCEPT !.joined = now]
    /\ lastLeft' = IF delivered /\ says = "absent" THEN now ELSE lastLeft

Taken(says, delivered) == IF delivered /\ unheard = says THEN "nothing" ELSE unheard

\* handle_peer_left and handle_peer_joined, up to the first call to a session.
\* A raw socket hears it if it joined the room; every entry of the registry is
\* called, its client listens once it joined.
HandlePush(n) ==
    /\ n \in DOMAIN calls /\ ("reorder" \in cast.faults \/ n = 1)
    /\ calls' = RemoveAt(calls, n)
    /\ LET says == calls[n]
           raws == {s \in Raws : entry[s] = "joined"}
           listed == {s \in Sios : entry[s] # "none"}
       IN  \/ /\ ~Tells(says)
              /\ UNCHANGED <<hub, view, unheard>>
           \/ /\ Tells(says)
              /\ told' = says
              /\ view' = [s \in Sessions |-> IF s \in raws /\ conn[s] = "live" THEN says ELSE view[s]]
              /\ unheard' = IF raws # {} THEN "nothing" ELSE says
              /\ IF listed = {}
                 THEN Settles(says, raws # {}) /\ work' = work
                 ELSE /\ work' = Append(work, [says |-> says, todo |-> listed, delivered |-> raws # {}])
                      /\ UNCHANGED <<parked, lastLeft>>
    /\ UNCHANGED <<cast, peer, conn, entry, join, now>>

\* The call to one session: any answer counts as a delivery, also of a session
\* whose socket is gone; a failed call does not.
CallSession(n, s) ==
    /\ n \in DOMAIN work /\ s \in work[n].todo
    /\ \/ "reorder" \in cast.faults
       \/ join[s].at # "parked" /\ \A m \in 1 .. n - 1 : s \notin work[m].todo
    /\ \E ok \in IF "fail" \in cast.faults \/ conn[s] # "live" THEN BOOLEAN ELSE {TRUE} :
          LET says == work[n].says
              delivered == work[n].delivered \/ ok
              rest == work[n].todo \ {s}
          IN  /\ view' = IF ok /\ entry[s] = "joined" THEN Told(s, says) ELSE view
              /\ unheard' = Taken(says, ok)
              /\ IF rest = {}
                 THEN Settles(says, delivered) /\ work' = RemoveAt(work, n)
                 ELSE /\ work' = [work EXCEPT ![n] = [@ EXCEPT !.todo = rest, !.delivered = delivered]]
                      /\ UNCHANGED <<parked, lastLeft>>
    /\ UNCHANGED <<cast, peerVars, told, conn, entry, join, now>>

-----------------------------------------------------------------------------
(* The owner's sessions *)

\* An upgrade, or a connection of socket.io; its register is optional.
Open(s) ==
    /\ conn[s] = "new" /\ s \in cast.sessions
    /\ conn' = [conn EXCEPT ![s] = "live"]
    /\ entry' \in {[entry EXCEPT ![s] = "held"]} \cup (IF s \in Sios THEN {entry} ELSE {})
    /\ UNCHANGED <<cast, peerVars, hub, join, view, now, unheard>>

\* deliver_parked_presence, up to its call: both records go before it.
DeliverParked(s, then) ==
    /\ parked' = NoneParked
    /\ LET says == CASE parked # NoneParked -> ParkedChoice
                     [] parked = NoneParked /\ ReplayDue -> "absent"
                     [] OTHER -> "nothing"
           stale == \/ unheard = "absent" /\ parked.left # NotYet /\ ~Fresh(parked.left)
                    \/ unheard = "present" /\ parked.joined # NotYet /\ ~Fresh(parked.joined)
       IN  /\ join' = [join EXCEPT ![s] = IF says = "nothing" THEN [at |-> then, says |-> says]
                                          ELSE [at |-> "parked", says |-> says]]
           /\ unheard' = IF stale THEN "nothing" ELSE Taken(says, TRUE)

\* joinRoom: a socket.io session that adds the room is first handed what is
\* parked for it.
JoinRoom(s) ==
    /\ conn[s] = "live" /\ join[s].at = "no"
    /\ entry' = [entry EXCEPT ![s] = "joined"]
    /\ IF s \in Sios /\ entry[s] # "joined" THEN DeliverParked(s, "ask")
       ELSE /\ join' = [join EXCEPT ![s] = [at |-> "ask", says |-> "nothing"]]
            /\ UNCHANGED <<parked, unheard>>
    /\ UNCHANGED <<cast, peerVars, told, lastLeft, work, conn, view, now>>

\* handle_socketio_register of a session that was there: its rooms are kept.
Register(s) ==
    /\ s \in Sios /\ conn[s] = "live" /\ entry[s] = "joined" /\ join[s].at = "no"
    /\ parked # NoneParked
    /\ DeliverParked(s, "no")
    /\ UNCHANGED <<cast, peerVars, told, lastLeft, work, conn, entry, view, now>>

\* The parked event, or the replay, reaches the session; then the join goes on.
ParkedHeard(s) ==
    /\ join[s].at = "parked"
    /\ view' \in {Told(s, join[s].says)} \cup (IF "fail" \in cast.faults THEN {view} ELSE {})
    /\ join' = [join EXCEPT ![s] = [at |-> "ask", says |-> "nothing"]]
    /\ UNCHANGED <<cast, peerVars, hub, conn, entry, now, unheard>>

\* presence_snapshot: the peer's hub is asked ...
AskPeer(s) ==
    /\ join[s].at = "ask"
    /\ join' = [join EXCEPT ![s] = [at |-> "answer", says |-> PresenceAnswer]]
    /\ UNCHANGED <<cast, peerVars, hub, conn, entry, view, now, unheard>>

\* ... and the answer goes to the session, to a socket.io one after the owner's
\* own peerJoined was pushed.
Snapshot(s) ==
    /\ join[s].at = "answer"
    /\ view' = Told(s, join[s].says)
    /\ join' = [join EXCEPT ![s] = NoJoin]
    /\ UNCHANGED <<cast, peerVars, hub, conn, entry, now, unheard>>

\* The socket dies, and the hub hears of it later.
Dies(s) ==
    /\ conn[s] = "live"
    /\ conn' = [conn EXCEPT ![s] = "dead"]
    /\ UNCHANGED <<cast, peerVars, hub, entry, join, view, now, unheard>>

Unregister(s) ==
    /\ conn[s] = "dead" /\ entry[s] # "none"
    /\ entry' = [entry EXCEPT ![s] = "none"]
    /\ UNCHANGED <<cast, peerVars, hub, conn, join, view, now, unheard>>

Tick ==
    /\ now < cast.ticks
    /\ now' = now + 1
    /\ UNCHANGED <<cast, peerVars, hub, sessionVars, unheard>>

-----------------------------------------------------------------------------
PeerInit ==
    /\ cast \in Casts
    /\ peer = [seated |-> FALSE, pending |-> FALSE, gone |-> FALSE, join |-> "no", joins |-> 0]
    /\ calls = <<>>
    /\ told = "nothing" /\ parked = NoneParked /\ lastLeft = NotYet /\ work = <<>>
    /\ conn = [s \in Sessions |-> "new"] /\ entry = [s \in Sessions |-> "none"]
    /\ join = [s \in Sessions |-> NoJoin] /\ view = [s \in Sessions |-> "nothing"]
    /\ now = 0 /\ unheard = "nothing"

PeerNext ==
    \/ PeerJoins \/ PushPeerJoined \/ PeerCloses \/ DebounceEnds
    \/ \E n \in DOMAIN calls : HandlePush(n)
    \/ \E n \in DOMAIN work, s \in Sios : CallSession(n, s)
    \/ \E s \in Sessions :
          \/ Open(s) \/ JoinRoom(s) \/ Register(s) \/ ParkedHeard(s) \/ AskPeer(s) \/ Snapshot(s)
          \/ Dies(s) \/ Unregister(s)
    \/ Tick

PeerSpec == PeerInit /\ [][PeerNext]_vars

-----------------------------------------------------------------------------
\* Nothing is under way, and the session stays in the room.
Quiet ==
    /\ calls = <<>> /\ work = <<>> /\ peer.join = "no" /\ ~peer.pending
    /\ \A s \in Sessions : join[s].at = "no"
Listening(s) == conn[s] = "live" /\ entry[s] = "joined"

\* handle_peer_left and handle_peer_joined: a change that reached no session is
\* parked, or its handler is still at it, until a session is handed it or it is
\* too old to be news; whatever joins, leaves and pushes overlap.
NewsIsParked ==
    \/ unheard = "nothing"
    \/ unheard = "absent" /\ parked.left # NotYet
    \/ unheard = "present" /\ parked.joined # NotYet
    \/ \E n \in DOMAIN work : work[n].says = unheard

\* A departure the peer's hub confirmed is known to every session of the owner in
\* the room once nothing is under way: by the push, what was parked, the replay
\* or the snapshot, though the session it was pushed to was being replaced.  It
\* is about calls in order, the arrival's over when the departure is confirmed:
\* one that a later call overtakes leaves the older word standing.
GoneIsHeard ==
    Quiet /\ peer.gone /\ cast.faults = {} =>
        \A s \in Sessions : Listening(s) => view[s] = "absent"
=============================================================================
