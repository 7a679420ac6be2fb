------------------------------ MODULE Departures ------------------------------
(***************************************************************************)
(* How a hub learns that its owner left a room, and tells the room's peer  *)
(* (src/message_hub.rs).  Sessions are raw sockets, whose attachment is    *)
(* their record of rooms, and socket.io sessions, whose record is a leased *)
(* entry of the hub's registry.  The close of the last session in a room   *)
(* arms a pending departure; the hub's alarm looks again a window later    *)
(* and pushes peerLeft only if the room is still empty.  While a handler   *)
(* awaits its Durable Object's own storage no other event is delivered, so *)
(* a step runs from one call to another object to the next.                *)
(***************************************************************************)
EXTENDS Integers, FiniteSets

CONSTANTS
    Rooms,
    Lobby,      \* the lobby rooms: a clean leave of one is forgotten
    Raws,       \* raw sockets
    Sios,       \* socket.io sessions, by sid
    Casts       \* who acts, in which rooms, and what may go wrong

Sessions == Raws \cup Sios

\* store: the put or the alarm of an arm fails; alarm: a set alarm is lost;
\* restart: the hub is evicted inside an await; push: messages are fanned out
\* to the registry, which any of them may change; late: an event of a socket.io
\* session arrives after its close.
Faults == {"store", "alarm", "restart", "push", "late"}

Cast == [sessions : SUBSET Sessions, rooms : SUBSET Rooms, faults : SUBSET Faults]

ASSUME RawsAreNotSios == Raws \cap Sios = {}
ASSUME LobbyIsRooms == Lobby \subseteq Rooms
ASSUME CastsTyped ==
    Casts \subseteq Cast /\ \A c \in Casts : ~({"store", "restart"} \subseteq c.faults)

VARIABLES
    cast,       \* chosen once
    conn,       \* per session: the client's connection and what the hub heard of it
    rec,        \* per session: attachment or registry entry
    join,       \* per session: the rest of a join that awaits another object
    walk,       \* per session: the rooms its close has still to walk
    pending,    \* per room: pendingleft, and whether its time has come
    alarm,      \* the hub's alarm is set
    tick,       \* the alarm handler, awaiting a push, with the list it took
    confirmed,  \* per room: confirmed_gone
    fan,        \* a message's fan-out, awaiting, with the entries it listed
    own,        \* history, per session: what its own events make of its record
    issued,     \* history, per room: peerLeft was pushed since the last join
    ungreeted,  \* history: rooms whose last join has not yet cleared the marker
    lost        \* history, per session: rooms a fan-out took out of its entry

hub == <<rec, join, walk, pending, alarm, tick, confirmed, fan>>
history == <<own, issued, ungreeted, lost>>
vars == <<cast, conn, hub, history>>

-----------------------------------------------------------------------------
Record == [held : BOOLEAN, live : BOOLEAN, joined : SUBSET Rooms, left : SUBSET Rooms]

NoRecord == [held |-> FALSE, live |-> FALSE, joined |-> {}, left |-> {}]
Fresh    == [held |-> TRUE, live |-> TRUE, joined |-> {}, left |-> {}]

NoJoin == [at |-> "none", rooms |-> {}]
NoTick == [on |-> FALSE, due |-> {}, next |-> FALSE]
NoFan  == [on |-> FALSE, entries |-> [s \in Sios |-> NoRecord], open |-> {}]

\* renew_lease, and a registration of a known session
Renewed(e) == [held |-> TRUE, live |-> TRUE, joined |-> e.joined, left |-> e.left]

\* record_join; a room mutation renews an entry's lease.
RecordJoin(e, r) ==
    [held |-> TRUE, live |-> TRUE, joined |-> e.joined \cup {r}, left |-> e.left \ {r}]

\* record_leave
RecordLeave(e, r) ==
    [held |-> TRUE, live |-> TRUE, joined |-> e.joined \ {r},
     left |-> e.left \cup ((e.joined \cap {r}) \ Lobby)]

\* Faulty: the rooms left and not rejoined are not walked.
CloseWalkJoined(e) == e.joined

\* close_walk
CloseWalk(e) == e.joined \cup e.left

Occupied(R, r) == \E s \in Sessions : r \in R[s].joined
RawIn(R, r) == \E s \in Raws : r \in R[s].joined

\* list_subscribers drops the entries whose lease lapsed; lapsed_departures
\* are the rooms they leave empty.
Lapsed(R) == {s \in Sios : R[s].held /\ ~R[s].live}
Listed(R) == [s \in Sessions |-> IF s \in Lapsed(R) THEN NoRecord ELSE R[s]]
LapsedDepartures(R) ==
    {r \in Rooms : ~Occupied(Listed(R), r) /\ \E s \in Lapsed(R) : r \in CloseWalk(R[s])}

\* room_still_occupied reads the raw sockets first, and lists only then.
Looked(R, rooms) == IF \E r \in rooms : ~RawIn(R, r) THEN Listed(R) ELSE R
LookArms(R, rooms) == IF \E r \in rooms : ~RawIn(R, r) THEN LapsedDepartures(R) ELSE {}

\* arm_departure of several rooms.  One that cannot be stored, or for which no
\* alarm can be set, is pushed at once (and the push is awaited: a step ends
\* there on a close's walk, not inside a listing).
Unstored(rooms) == IF "store" \in cast.faults THEN SUBSET rooms ELSE {{}}
Armed(p, rooms, pushed) ==
    [r \in Rooms |-> IF r \in pushed THEN "none" ELSE IF r \in rooms THEN "waits" ELSE p[r]]
Issued(rooms) == [r \in Rooms |-> issued[r] \/ r \in rooms]

-----------------------------------------------------------------------------
(* Sessions *)

\* An upgrade writes the attachment; a socket.io session registers, or its
\* first join makes its entry.
Open(s) ==
    /\ conn[s] = "new" /\ s \in cast.sessions
    /\ conn' = [conn EXCEPT ![s] = "open"]
    /\ \/ rec' = [rec EXCEPT ![s] = Fresh]
       \/ s \in Sios /\ UNCHANGED rec
    /\ UNCHANGED <<cast, join, walk, pending, alarm, tick, confirmed, fan, history>>

\* Registering again keeps the rooms and renews the lease; so does a heartbeat
\* (renew_lease), which never makes an entry.
Register(s) ==
    /\ s \in Sios /\ conn[s] = "open"
    /\ rec' = [rec EXCEPT ![s] = Renewed(rec[s])]
    /\ UNCHANGED <<cast, conn, join, walk, pending, alarm, tick, confirmed, fan, history>>

\* Events of a socket.io session come from another object, each call by itself:
\* one may arrive after the session's close, and once after its unregister.
Speaks(s) ==
    conn[s] = "open" \/ (s \in Sios /\ "late" \in cast.faults /\ conn[s] \in {"closed", "done"})
Spoke(s) == conn' = [conn EXCEPT ![s] = IF @ = "done" THEN "over" ELSE @]

\* joinRoom.  A socket.io session that adds a room is first handed what was
\* parked for it; any other join clears the marker at once.  One join of a
\* session at a time.
JoinRoom(s, r) ==
    LET parked == s \in Sios /\ r \notin rec[s].joined IN
    /\ Speaks(s) /\ r \in cast.rooms /\ join[s] = NoJoin
    /\ Spoke(s)
    /\ rec' = [rec EXCEPT ![s] = RecordJoin(rec[s], r)]
    /\ join' = [join EXCEPT ![s] = [at |-> IF parked THEN "parked" ELSE "ask", rooms |-> {r}]]
    /\ confirmed' = IF parked THEN confirmed ELSE [confirmed EXCEPT ![r] = "present"]
    /\ own' = [own EXCEPT ![s] = RecordJoin(own[s], r)]
    /\ issued' = [issued EXCEPT ![r] = FALSE]
    /\ ungreeted' = IF parked THEN ungreeted \cup {r} ELSE ungreeted \ {r}
    /\ lost' = [lost EXCEPT ![s] = @ \ {r}]
    /\ UNCHANGED <<cast, walk, pending, alarm, tick, fan>>

\* Faulty: a join leaves the marker as it was.
GreetKeepsMarker(s) ==
    /\ join[s].at = "parked"
    /\ join' = [join EXCEPT ![s].at = "ask"]
    /\ ungreeted' = ungreeted \ join[s].rooms
    /\ UNCHANGED <<cast, conn, rec, walk, pending, alarm, tick, confirmed, fan, own, issued, lost>>

\* write_confirmed_gone(Present), then the peer's hub is asked for a snapshot
Greet(s) ==
    /\ join[s].at = "parked"
    /\ join' = [join EXCEPT ![s].at = "ask"]
    /\ confirmed' = [r \in Rooms |-> IF r \in join[s].rooms THEN "present" ELSE confirmed[r]]
    /\ ungreeted' = ungreeted \ join[s].rooms
    /\ UNCHANGED <<cast, conn, rec, walk, pending, alarm, tick, fan, own, issued, lost>>

\* The snapshot is answered, and peerJoined pushed.
Joined(s) ==
    /\ join[s].at = "ask"
    /\ join' = [join EXCEPT ![s] = NoJoin]
    /\ UNCHANGED <<cast, conn, rec, walk, pending, alarm, tick, confirmed, fan, history>>

\* The hub heard that the session ended, and walked the room.
Handled(s, r) == conn[s] \in {"done", "over"} /\ r \notin walk[s]

Without(e, r) == [e EXCEPT !.joined = e.joined \ {r}, !.left = e.left \ {r}]

\* leaveRoom signals nothing.  The owner who leaves a lobby last is not missed.
LeaveRoom(s, r) ==
    /\ Speaks(s) /\ r \in cast.rooms
    /\ s \in Raws => r \in rec[s].joined
    /\ Spoke(s)
    /\ rec' = [rec EXCEPT ![s] = RecordLeave(rec[s], r)]
    /\ own' = IF r \in Lobby THEN [t \in Sessions |-> IF t = s \/ Handled(t, r)
                                                     THEN Without(own[t], r) ELSE own[t]]
              ELSE [own EXCEPT ![s] = RecordLeave(own[s], r)]
    /\ UNCHANGED <<cast, join, walk, pending, alarm, tick, confirmed, fan, issued, ungreeted, lost>>

\* The client's connection ends.
ClientCloses(s) ==
    /\ conn[s] = "open"
    /\ conn' = [conn EXCEPT ![s] = "closed"]
    /\ UNCHANGED <<cast, hub, history>>

\* maybe_notify_peer_left over the rooms of a close, the session's own record
\* gone from R: an empty one is armed.  A push in place of an arm is awaited
\* before the next room.
Departs(s, rooms, R) ==
    \E done \in SUBSET rooms :
        LET arms == {r \in done : ~Occupied(Looked(R, done), r)} \cup LookArms(R, done) IN
        \E pushed \in Unstored(arms) :
            /\ pushed # {} \/ done = rooms
            /\ rec' = Looked(R, done)
            /\ pending' = Armed(pending, arms, pushed)
            /\ alarm' = (alarm \/ arms # pushed)
            /\ issued' = Issued(pushed)
            /\ walk' = [walk EXCEPT ![s] = rooms \ done]

\* teardown_departed_socket, of a close, an error or both (the latch), and
\* handle_socketio_unregister
Close(s) ==
    /\ conn[s] = "closed"
    /\ conn' = [conn EXCEPT ![s] = "done"]
    /\ Departs(s, CloseWalk(rec[s]), [rec EXCEPT ![s] = NoRecord])
    /\ UNCHANGED <<cast, join, tick, confirmed, fan, own, ungreeted, lost>>

WalkOn(s) ==
    /\ walk[s] # {}
    /\ Departs(s, walk[s], rec)
    /\ UNCHANGED <<cast, conn, join, tick, confirmed, fan, own, ungreeted, lost>>

\* The session's object could not reach the hub, or died without a close.
UnregisterLost(s) ==
    /\ s \in Sios /\ conn[s] = "closed"
    /\ conn' = [conn EXCEPT ![s] = "done"]
    /\ UNCHANGED <<cast, hub, history>>

\* A connected session renews its lease long before it ends.
LeaseLapses(s) ==
    /\ s \in Sios /\ conn[s] \in {"done", "over"} /\ rec[s].live
    /\ rec' = [rec EXCEPT ![s].live = FALSE]
    /\ UNCHANGED <<cast, conn, join, walk, pending, alarm, tick, confirmed, fan, history>>

SessionStep(s) ==
    \/ Open(s) \/ Register(s) \/ (\E r \in Rooms : JoinRoom(s, r) \/ LeaveRoom(s, r))
    \/ Greet(s) \/ Joined(s) \/ ClientCloses(s) \/ Close(s) \/ WalkOn(s)
    \/ UnregisterLost(s) \/ LeaseLapses(s)

-----------------------------------------------------------------------------
(* The debounce *)

\* PEER_LEFT_DEBOUNCE_MS pass; and once more.
TimePasses(r) ==
    /\ pending[r] \in {"waits", "due"}
    /\ pending' = [pending EXCEPT ![r] = IF @ = "waits" THEN "due" ELSE "overdue"]
    /\ UNCHANGED <<cast, conn, rec, join, walk, alarm, tick, confirmed, fan, history>>

\* Faulty: pushed without looking at the room again.
StillEmptyUnseen(R, rooms) == rooms

\* departure_push_due
StillEmpty(R, rooms) == {r \in rooms : ~Occupied(R, r)}

\* The alarm handler over the rooms it listed as due, up to its next push: a
\* room's entry is deleted, then the room looked at, and an empty one confirmed
\* and pushed.  The first look past the raw sockets arms the rooms of lapsed
\* leases; if a later look found the room empty, its entry was deleted since.
TickRuns(list, next, set) ==
    \E done \in SUBSET list :
        LET R     == Looked(rec, done)
            empty == StillEmpty(R, done)
            found == LookArms(rec, done)
            arms  == IF \E r \in done \ empty : ~RawIn(rec, r) THEN found \ done ELSE found IN
        \E pushed \in Unstored(found) :
            /\ Cardinality(empty) = 1 \/ (empty = {} /\ done = list)
            /\ rec' = R
            /\ pending' = Armed([r \in Rooms |-> IF r \in done THEN "none" ELSE pending[r]],
                                arms, pushed)
            /\ confirmed' = [r \in Rooms |-> IF r \in empty THEN "absent" ELSE confirmed[r]]
            /\ issued' = Issued(empty \cup pushed)
            /\ tick' = IF empty = {} THEN NoTick
                       ELSE [on |-> TRUE, due |-> list \ done, next |-> next]
            /\ alarm' = (set \/ found # pushed \/ (empty = {} /\ next))
            /\ UNCHANGED <<cast, conn, join, walk, fan, own, ungreeted, lost>>

AlarmRings ==
    /\ alarm /\ tick = NoTick
    /\ TickRuns({r \in Rooms : pending[r] \in {"due", "overdue"}},
                \E r \in Rooms : pending[r] = "waits", FALSE)

\* The push is answered, or failed.
TickResumes ==
    /\ tick.on
    /\ TickRuns(tick.due, tick.next, alarm)

\* The alarm is set and does not ring.
AlarmLost ==
    /\ "alarm" \in cast.faults
    /\ alarm /\ alarm' = FALSE
    /\ UNCHANGED <<cast, conn, rec, join, walk, pending, tick, confirmed, fan, history>>

\* Faulty: only an entry whose time has not come is armed again.
RearmNetWaiting ==
    /\ ~alarm /\ \E r \in Rooms : pending[r] = "waits"
    /\ alarm' = TRUE
    /\ UNCHANGED <<cast, conn, rec, join, walk, pending, tick, confirmed, fan, history>>

\* rearm_pending_departures_net: at the start of every event of the hub, not
\* more than once in two seconds; here by itself, of an event that does no more.
RearmNet ==
    /\ ~alarm /\ \E r \in Rooms : pending[r] # "none"
    /\ alarm' = TRUE
    /\ UNCHANGED <<cast, conn, rec, join, walk, pending, tick, confirmed, fan, history>>

\* handle_presence; the handlers of peerLeft and peerJoined list the registry
\* alike.
HandlePresence(r) ==
    /\ r \in cast.rooms /\ ~RawIn(rec, r)
    /\ \E pushed \in Unstored(LapsedDepartures(rec)) :
          /\ rec' = Listed(rec)
          /\ pending' = Armed(pending, LapsedDepartures(rec), pushed)
          /\ issued' = Issued(pushed)
          /\ alarm' = (alarm \/ LapsedDepartures(rec) # pushed
                             \/ (pending[r] = "overdue" /\ ~Occupied(Listed(rec), r)))
    /\ UNCHANGED <<cast, conn, join, walk, tick, confirmed, fan, own, ungreeted, lost>>

-----------------------------------------------------------------------------
(* A message pushed into the hub, to every entry of the registry *)

FanOut ==
    /\ "push" \in cast.faults /\ ~fan.on
    /\ \E pushed \in Unstored(LapsedDepartures(rec)) :
          /\ rec' = Listed(rec)
          /\ pending' = Armed(pending, LapsedDepartures(rec), pushed)
          /\ issued' = Issued(pushed)
          /\ alarm' = (alarm \/ LapsedDepartures(rec) # pushed)
    /\ fan' = [on |-> TRUE, entries |-> [s \in Sios |-> rec'[s]],
               open |-> {s \in Sios : conn[s] = "open"}]
    /\ UNCHANGED <<cast, conn, join, walk, tick, confirmed, own, ungreeted, lost>>

\* The rooms that an entry overwritten by another is no longer in, or that it
\* no longer remembers.
Taken(before, after) ==
    (before.joined \ after.joined) \cup (CloseWalk(before) \ CloseWalk(after))

\* Every session answered, failed or timed out: a tombstone or a failure drops
\* the entry, a delivery (to a session that was connected) may put the listed
\* one back with a new lease.
FannedOut ==
    /\ fan.on
    /\ \E dropped, renewed \in SUBSET {s \in Sios : fan.entries[s].held} :
          /\ dropped \cap renewed = {} /\ renewed \subseteq fan.open
          /\ rec' = [s \in Sessions |-> IF s \in dropped THEN NoRecord
                                        ELSE IF s \in renewed THEN fan.entries[s] ELSE rec[s]]
    /\ lost' = [s \in Sessions |-> lost[s] \cup Taken(rec[s], rec'[s])]
    /\ fan' = NoFan
    /\ UNCHANGED <<cast, conn, join, walk, pending, alarm, tick, confirmed, own, issued, ungreeted>>

\* The hub is evicted inside an await: its handlers end, and the alarm whose
\* handler did not finish is run again.
Restart ==
    /\ "restart" \in cast.faults
    /\ tick.on \/ fan.on \/ \E s \in Sessions : join[s] # NoJoin
    /\ join' = [s \in Sessions |-> NoJoin]
    /\ alarm' = (alarm \/ tick.on)
    /\ tick' = NoTick /\ fan' = NoFan
    /\ UNCHANGED <<cast, conn, rec, walk, pending, confirmed, history>>

-----------------------------------------------------------------------------
Init ==
    /\ cast \in Casts
    /\ conn = [s \in Sessions |-> "new"]
    /\ rec = [s \in Sessions |-> NoRecord]
    /\ join = [s \in Sessions |-> NoJoin]
    /\ walk = [s \in Sessions |-> {}]
    /\ pending = [r \in Rooms |-> "none"]
    /\ alarm = FALSE
    /\ tick = NoTick
    /\ confirmed = [r \in Rooms |-> "none"]
    /\ fan = NoFan
    /\ own = [s \in Sessions |-> Fresh]
    /\ issued = [r \in Rooms |-> FALSE]
    /\ ungreeted = {}
    /\ lost = [s \in Sessions |-> {}]

Next ==
    \/ \E s \in Sessions : SessionStep(s)
    \/ \E r \in Rooms : TimePasses(r) \/ HandlePresence(r)
    \/ AlarmRings \/ TickResumes \/ AlarmLost \/ RearmNet
    \/ FanOut \/ FannedOut \/ Restart

Spec == Init /\ [][Next]_vars

\* Time passes, a push is answered or fails, the hub is asked something again,
\* and an alarm set again and again rings.
FairSpec ==
    /\ Spec
    /\ \A r \in Rooms : WF_vars(pending[r] = "waits" /\ TimePasses(r))
    /\ WF_vars(TickResumes) /\ WF_vars(RearmNet) /\ SF_vars(AlarmRings)

-----------------------------------------------------------------------------
(* Properties *)

\* Every piece of state has its type, and a record's two lists share no room
\* (RoomRecord).
TypeOK ==
    /\ cast \in Casts
    /\ conn \in [Sessions -> {"new", "open", "closed", "done", "over"}]
    /\ rec \in [Sessions -> Record] /\ own \in [Sessions -> Record]
    /\ \A s \in Sessions : rec[s].joined \cap rec[s].left = {}
    /\ join \in [Sessions -> [at : {"none", "parked", "ask"}, rooms : SUBSET Rooms]]
    /\ walk \in [Sessions -> SUBSET Rooms]
    /\ pending \in [Rooms -> {"none", "waits", "due", "overdue"}]
    /\ confirmed \in [Rooms -> {"none", "present", "absent"}]
    /\ tick \in [on : BOOLEAN, due : SUBSET Rooms, next : BOOLEAN]
    /\ fan \in [on : BOOLEAN, entries : [Sios -> Record], open : SUBSET Sios]
    /\ alarm \in BOOLEAN /\ issued \in [Rooms -> BOOLEAN]
    /\ ungreeted \subseteq Rooms /\ lost \in [Sessions -> SUBSET Rooms]

\* Every session that was in the room is gone, and the hub has handled it.
Vacated(r) ==
    /\ \E s \in Sessions : r \in CloseWalk(own[s])
    /\ \A s \in Sessions : r \in CloseWalk(own[s]) => Handled(s, r)

\* The room's peer was told, or the hub has a record that will make it so.
Signalled(r) ==
    issued[r] \/ pending[r] # "none"
              \/ \E s \in Sessions : r \in CloseWalk(rec[s]) \cup walk[s]

\* A departure is not missed: when the last session that was in a room is gone,
\* by a close, a leave and a close, or without any close, the departure is
\* pending or pushed, or an entry is left whose lease will lapse (the section
\* on #40: "when the owner's LAST live session departs a room ... it arms a
\* DEBOUNCED notify").  But for a room that a
\* fan-out took out of a session's entry, until that session joins it again.
DepartureIsOwed ==
    \A r \in Rooms :
        Vacated(r) /\ (\A s \in Sessions : r \notin lost[s]) => Signalled(r)

\* The peer of a seated owner is not told that it left: a flap that rejoined
\* inside the window, or a second session, is seen by the look before the push
\* (maybe_notify_peer_left: "ONLY if the room is still empty then").  But for a
\* room that a fan-out took out of the session's entry, until it joins again: the
\* look does not see that seat.
SeatedIsNotAnnounced ==
    [][\A r \in Rooms : ~issued[r] /\ issued'[r] =>
          \A s \in Sessions : conn[s] = "open" /\ r \in own[s].joined => r \in lost[s]]_vars

\* handle_presence would answer false, of a confirmed close
ReadsAbsent(r) ==
    /\ ~Occupied(Listed(rec), r) /\ r \notin LapsedDepartures(rec)
    /\ pending[r] \in {"none", "overdue"} /\ confirmed[r] = "absent"

\* An absence is read only where the close was confirmed and pushed since the
\* room's last join: a later flap never reads a prior close, a lost alarm or
\* not (presence_answer).  But for a join that has not come to clear the
\* marker, its delivery of parked events awaiting or cut off.
AbsenceIsConfirmed == \A r \in Rooms \ ungreeted : ReadsAbsent(r) => issued[r]

\* A pending departure is looked at in the end, pushed or dropped, although
\* alarms are lost (rearm_pending_departures_net).
DepartureSettles == \A r \in Rooms : (pending[r] # "none") ~> (pending[r] = "none")
=============================================================================
