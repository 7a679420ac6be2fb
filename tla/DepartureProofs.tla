-------------------------- MODULE DepartureProofs --------------------------
(***************************************************************************)
(* Proofs about Departures, for any rooms, sessions and casts: what the    *)
(* hub remembers of its sessions suffices to miss no departure and to      *)
(* announce none of a seated owner.                                        *)
(***************************************************************************)
EXTENDS Departures, TLAPS

Gone == {"done", "over"}

\* Until the hub has heard its end, a session's record holds the rooms that its
\* own events made of it, but for what a fan-out took.
Matched ==
    \A s \in Sessions, r \in Rooms : conn[s] \notin Gone /\ r \notin lost[s] =>
        /\ r \in own[s].joined => r \in rec[s].joined
        /\ r \in CloseWalk(own[s]) => r \in CloseWalk(rec[s])

\* A lease lapses only of a session that is gone.
Leased == \A s \in Sios : conn[s] \notin Gone /\ rec[s].held => rec[s].live

\* A session that has not come has nothing.
Unopened ==
    \A s \in Sessions : conn[s] = "new" => rec[s] = NoRecord /\ CloseWalk(own[s]) = {}

\* A fan-out puts back only entries with a lease, of sessions that came.
FanListed ==
    /\ \A s \in Sios : /\ fan.entries[s].held => fan.entries[s].live
                       /\ fan.entries[s].joined \cap fan.entries[s].left = {}
    /\ \A s \in fan.open : conn[s] # "new"

\* Only a close leaves rooms to walk.
Walked == \A s \in Sessions : conn[s] \notin Gone => walk[s] = {}

\* A marker of absence is of a departure pushed since the last join, unless
\* that join has yet to clear it.
Marked == \A r \in Rooms : confirmed[r] = "absent" => issued[r] \/ r \in ungreeted

Inv ==
    /\ TypeOK /\ Matched /\ Leased /\ Unopened /\ FanListed /\ Walked /\ Marked
    /\ DepartureIsOwed

-----------------------------------------------------------------------------
(* Listing the registry *)

Tables == [Sessions -> Record]

\* N is what a listing leaves of R, and A the departures it arms: each room a
\* dropped entry held is still held, or occupied, or armed, and no armed room
\* is occupied.
Relisted(R, N, A) ==
    /\ N \in Tables /\ A \in SUBSET Rooms
    /\ \A s \in Sessions : N[s] = R[s] \/ (s \in Lapsed(R) /\ N[s] = NoRecord)
    /\ \A r \in A : ~Occupied(N, r)
    /\ \A s \in Sessions, r \in Rooms : r \in CloseWalk(R[s]) =>
          r \in CloseWalk(N[s]) \/ Occupied(N, r) \/ r \in A

\* The empty record is a record and holds no room (split_departure).
LEMMA NoRecordTyped == NoRecord \in Record /\ CloseWalk(NoRecord) = {}
BY DEF NoRecord, Record, CloseWalk

\* Each of the two record mutations and the renewal makes a record.
LEMMA RecordsTyped ==
    ASSUME NEW e \in Record, NEW r \in Rooms
    PROVE  /\ RecordJoin(e, r) \in Record /\ RecordLeave(e, r) \in Record
           /\ Renewed(e) \in Record /\ Without(e, r) \in Record
           /\ CloseWalk(RecordJoin(e, r)) = CloseWalk(e) \cup {r}
           /\ CloseWalk(Renewed(e)) = CloseWalk(e)
           /\ CloseWalk(Without(e, r)) = CloseWalk(e) \ {r}
           /\ \A q \in Rooms \ {r} : q \in CloseWalk(RecordLeave(e, r)) <=> q \in CloseWalk(e)
           /\ r \notin Lobby => CloseWalk(RecordLeave(e, r)) = CloseWalk(e)
BY DEF RecordJoin, RecordLeave, Renewed, Without, Record, CloseWalk

\* list_subscribers with its arm_lapsed_departures.
LEMMA ListingRelists ==
    ASSUME NEW R \in Tables
    PROVE  Relisted(R, Listed(R), LapsedDepartures(R))
<1>1. Listed(R) \in Tables
  BY NoRecordTyped DEF Listed, Tables
<1>2. LapsedDepartures(R) \in SUBSET Rooms
  BY DEF LapsedDepartures
<1>3. \A s \in Sessions : Listed(R)[s] = R[s] \/ (s \in Lapsed(R) /\ Listed(R)[s] = NoRecord)
  BY DEF Listed
<1>4. \A r \in LapsedDepartures(R) : ~Occupied(Listed(R), r)
  BY DEF LapsedDepartures
<1>5. ASSUME NEW s \in Sessions, NEW r \in Rooms, r \in CloseWalk(R[s])
      PROVE  r \in CloseWalk(Listed(R)[s]) \/ Occupied(Listed(R), r) \/ r \in LapsedDepartures(R)
  <2>1. CASE s \in Lapsed(R)
    BY <1>5, <2>1 DEF LapsedDepartures
  <2>2. CASE s \notin Lapsed(R)
    BY <1>5, <2>2 DEF Listed
  <2> QED BY <2>1, <2>2
<1> QED BY <1>1, <1>2, <1>3, <1>4, <1>5 DEF Relisted

\* room_still_occupied, which lists only where no raw socket answers.
LEMMA LookRelists ==
    ASSUME NEW R \in Tables, NEW rooms
    PROVE  Relisted(R, Looked(R, rooms), LookArms(R, rooms))
<1>1. CASE \E r \in rooms : ~RawIn(R, r)
  BY <1>1, ListingRelists DEF Looked, LookArms
<1>2. CASE ~ \E r \in rooms : ~RawIn(R, r)
  <2>1. Looked(R, rooms) = R /\ LookArms(R, rooms) = {}
    BY <1>2 DEF Looked, LookArms
  <2> QED BY <2>1 DEF Relisted
<1> QED BY <1>1, <1>2

\* A session that has not ended keeps its record through a listing.
LEMMA RelistKeepsLive ==
    ASSUME TypeOK, Leased, NEW R, NEW N, NEW A, Relisted(R, N, A),
           NEW s \in Sessions, conn[s] \notin Gone, R[s] = rec[s]
    PROVE  N[s] = rec[s]
BY DEF Relisted, Lapsed, Leased

\* A listing leaves no entry without a lease.
LEMMA ListedHoldsLeases ==
    ASSUME NEW R \in Tables
    PROVE  \A s \in Sios : Listed(R)[s].held => Listed(R)[s].live
BY DEF Listed, Lapsed, NoRecord, Sessions

\* A room that a listing finds empty, or arms, has no seated owner: the owner's
\* record, if no fan-out took the room from it, would hold it.
LEMMA SeatedIsSeen ==
    ASSUME TypeOK, Matched, Leased, NEW R, NEW N, NEW A, Relisted(R, N, A),
           NEW s \in Sessions, conn[s] = "open", R[s] = rec[s],
           NEW r \in Rooms, r \in own[s].joined, r \notin lost[s]
    PROVE  Occupied(N, r) /\ r \notin A
<1>1. conn[s] \notin Gone
  BY DEF Gone
<1>2. N[s] = rec[s]
  BY <1>1, RelistKeepsLive
<1>3. r \in rec[s].joined
  BY <1>1 DEF Matched
<1>4. Occupied(N, r)
  BY <1>2, <1>3 DEF Occupied
<1> QED BY <1>4 DEF Relisted
-----------------------------------------------------------------------------
(* What keeps the invariant *)

Held(R, r) == \E s \in Sessions : r \in CloseWalk(R[s])

\* A listing keeps a room held, or arms it.
LEMMA RelistHolds ==
    ASSUME NEW R, NEW N, NEW A, Relisted(R, N, A), NEW r \in Rooms, Held(R, r)
    PROVE  Held(N, r) \/ r \in A
<1>1. Occupied(N, r) => Held(N, r)
  BY DEF Occupied, Held, CloseWalk
<1> QED BY <1>1 DEF Relisted, Held

\* Signalled says that the room is held, or noted.
LEMMA SignalledIs ==
    ASSUME NEW r
    PROVE  Signalled(r) <=> \/ issued[r] \/ pending[r] # "none" \/ Held(rec, r)
                            \/ \E s \in Sessions : r \in walk[s]
BY DEF Signalled, Held

\* What an arm leaves: pushed rooms are issued, the others pending
\* (arm_departure).
LEMMA ArmNotes ==
    ASSUME NEW p \in [Rooms -> {"none", "waits", "due", "overdue"}],
           NEW A, NEW pushed
    PROVE  /\ Armed(p, A, pushed) \in [Rooms -> {"none", "waits", "due", "overdue"}]
           /\ \A r \in Rooms : p[r] # "none" \/ r \in A =>
                 r \in pushed \/ Armed(p, A, pushed)[r] # "none"
BY DEF Armed

\* Rooms that may not be stored are among those that are armed.
LEMMA UnstoredIsArmed ==
    ASSUME NEW A, NEW pushed \in Unstored(A)
    PROVE  pushed \in SUBSET A
BY DEF Unstored

\* A listing keeps what the invariant says of records and departures, whatever
\* handler lists.
LEMMA LookKeeps ==
    ASSUME Inv, NEW A, NEW I, Relisted(rec, rec', A),
           conn' = conn, own' = own, lost' = lost, walk' = walk, issued' = Issued(I),
           \A r \in Rooms : pending[r] # "none" \/ r \in A =>
              r \in I \/ pending'[r] # "none" \/ Occupied(rec', r)
    PROVE  Matched' /\ Leased' /\ Unopened' /\ Walked' /\ DepartureIsOwed'
<1> USE DEF Inv
<1>1. ASSUME NEW s \in Sessions, conn[s] \notin Gone
      PROVE  rec'[s] = rec[s]
  BY <1>1, RelistKeepsLive
<1>2. Matched'
  BY <1>1 DEF Matched
<1>3. Leased'
  BY <1>1 DEF Leased, Sessions
<1>4. Unopened'
  BY <1>1 DEF Unopened, Gone
<1>5. Walked'
  BY DEF Walked
<1>6. DepartureIsOwed'
  <2> SUFFICES ASSUME NEW r \in Rooms, Vacated(r)', \A s \in Sessions : r \notin lost'[s]
               PROVE  Signalled(r)'
    BY DEF DepartureIsOwed
  <2>1. Vacated(r)
    BY DEF Vacated, Handled
  <2>2. Signalled(r)
    BY <2>1 DEF DepartureIsOwed
  <2>3. Occupied(rec', r) => Held(rec', r)
    BY DEF Occupied, Held, CloseWalk
  <2>4. r \in I \/ issued[r] => issued'[r]
    BY DEF Issued
  <2>5. pending[r] # "none" \/ r \in A => issued'[r] \/ pending'[r] # "none" \/ Held(rec', r)
    BY <2>3, <2>4
  <2>6. Held(rec, r) => Held(rec', r) \/ r \in A
    BY RelistHolds
  <2> QED BY <2>2, <2>4, <2>5, <2>6, SignalledIs DEF Signalled, Held
<1> QED BY <1>2, <1>3, <1>4, <1>5, <1>6

\* A listing keeps the type of the records.
LEMMA RelistTyped ==
    ASSUME TypeOK, NEW R \in Tables, \A s \in Sessions : R[s].joined \cap R[s].left = {},
           NEW N, NEW A, Relisted(R, N, A)
    PROVE  N \in [Sessions -> Record] /\ \A s \in Sessions : N[s].joined \cap N[s].left = {}
<1>1. N \in Tables
  BY DEF Relisted
<1>2. ASSUME NEW s \in Sessions PROVE N[s].joined \cap N[s].left = {}
  BY DEF Relisted, NoRecord
<1> QED BY <1>1, <1>2 DEF Tables

-----------------------------------------------------------------------------
(* Each action keeps it *)

\* A room's departure stays owed through a step that hands out no new reason to
\* owe it and takes no note of it away.
LEMMA OwedKept ==
    ASSUME Inv,
           \A r \in Rooms : Vacated(r)' /\ (\A s \in Sessions : r \notin lost'[s]) =>
              \/ Signalled(r)'
              \/ /\ Vacated(r) /\ \A s \in Sessions : r \notin lost[s]
                 /\ Signalled(r) => Signalled(r)'
    PROVE  DepartureIsOwed'
BY DEF DepartureIsOwed, Inv

\* An upgrade or a registration (handle_ws_upgrade, handle_socketio_register).
LEMMA OpenKeeps ==
    ASSUME Inv, NEW s \in Sessions, Open(s)
    PROVE  Inv'
<1> USE DEF Inv
<1>0. rec[s] = NoRecord /\ CloseWalk(own[s]) = {} /\ conn[s] = "new"
  BY DEF Open, Unopened
<1>1. /\ rec' \in Tables
      /\ \A t \in Sessions : t # s => rec'[t] = rec[t]
      /\ rec'[s] \in {NoRecord, Fresh}
  <2>1. Fresh \in Record
    BY DEF Fresh, Record
  <2>2. rec \in [Sessions -> Record]
    BY DEF TypeOK
  <2>3. rec' = rec \/ rec' = [rec EXCEPT ![s] = Fresh]
    BY DEF Open
  <2>4. CASE rec' = rec
    BY <2>2, <2>4, <1>0 DEF Tables
  <2>5. CASE rec' = [rec EXCEPT ![s] = Fresh]
    <3> HIDE DEF Inv
    <3> QED BY <2>1, <2>2, <2>5 DEF Tables
  <2> QED BY <2>3, <2>4, <2>5
<1>2. /\ conn' \in [Sessions -> {"new", "open", "closed", "done", "over"}]
      /\ \A t \in Sessions : t # s => conn'[t] = conn[t]
      /\ conn'[s] = "open"
  BY DEF Open, TypeOK
<1>3. /\ CloseWalk(rec'[s]) = {} /\ CloseWalk(rec[s]) = {}
      /\ rec'[s].joined \cap rec'[s].left = {} /\ own[s].joined = {}
      /\ rec'[s].held => rec'[s].live
  BY <1>0, <1>1 DEF NoRecord, Fresh, CloseWalk
<1>4. UNCHANGED <<cast, join, walk, pending, alarm, tick, confirmed, fan, own, issued, ungreeted, lost>>
  BY DEF Open, history
<1>5. TypeOK'
  BY <1>1, <1>2, <1>3, <1>4 DEF TypeOK, Tables
<1>6. Matched'
  <2> SUFFICES ASSUME NEW t \in Sessions, NEW r \in Rooms, conn'[t] \notin Gone, r \notin lost'[t]
               PROVE  /\ r \in own'[t].joined => r \in rec'[t].joined
                      /\ r \in CloseWalk(own'[t]) => r \in CloseWalk(rec'[t])
    BY DEF Matched
  <2>1. CASE t = s
    BY <2>1, <1>0, <1>3, <1>4
  <2>2. CASE t # s
    BY <2>2, <1>1, <1>2, <1>4 DEF Matched
  <2> QED BY <2>1, <2>2
<1>7. Leased'
  BY <1>1, <1>2, <1>3 DEF Leased, Sessions
<1>8. Unopened'
  BY <1>1, <1>2, <1>4 DEF Unopened
<1>9. FanListed'
  <2>1. \A t \in fan.open : t \in Sessions
    BY DEF TypeOK, Sessions
  <2> QED BY <2>1, <1>2, <1>4 DEF FanListed
<1>10. Walked'
  BY <1>0, <1>2, <1>4 DEF Walked, Gone
<1>11. Marked'
  BY <1>4 DEF Marked
<1>12. DepartureIsOwed'
  <2>1. ASSUME NEW r \in Rooms, Vacated(r)' PROVE Vacated(r)
    BY <2>1, <1>0, <1>2, <1>4 DEF Vacated, Handled
  <2>2. ASSUME NEW r \in Rooms, Signalled(r) PROVE Signalled(r)'
    BY <2>2, <1>1, <1>3, <1>4 DEF Signalled
  <2> QED BY <2>1, <2>2, <1>4, OwedKept
<1> QED BY <1>5, <1>6, <1>7, <1>8, <1>9, <1>10, <1>11, <1>12

\* A renewal of a lease, or its lapse, changes no room (renew_lease).
LEMMA LeaseKeeps ==
    ASSUME Inv, NEW s \in Sessions, Register(s) \/ LeaseLapses(s)
    PROVE  Inv'
<1> USE DEF Inv
<1>1. /\ rec' \in Tables
      /\ \A t \in Sessions : t # s => rec'[t] = rec[t]
      /\ rec'[s].joined = rec[s].joined /\ rec'[s].left = rec[s].left
      /\ conn[s] \in Gone \/ (rec'[s].live /\ conn[s] = "open")
  <2>1. CASE Register(s)
    BY <2>1 DEF Register, TypeOK, Tables, Renewed, Record
  <2>2. CASE LeaseLapses(s)
    <3>1. rec \in [Sessions -> Record] /\ rec[s] \in Record
      BY DEF TypeOK
    <3>2. rec' = [rec EXCEPT ![s].live = FALSE] /\ conn[s] \in Gone
      BY <2>2 DEF LeaseLapses, Gone
    <3> DEFINE e == [rec[s] EXCEPT !.live = FALSE]
    <3>3. e \in Record /\ e.joined = rec[s].joined /\ e.left = rec[s].left
      BY <3>1 DEF Record
    <3>4. rec' = [rec EXCEPT ![s] = e]
      BY <3>1, <3>2
    <3> HIDE DEF e, Inv
    <3> QED BY <3>1, <3>2, <3>3, <3>4 DEF Tables
  <2> QED BY <2>1, <2>2
<1>2. UNCHANGED <<cast, conn, join, walk, pending, alarm, tick, confirmed, fan, own, issued, ungreeted, lost>>
  BY DEF Register, LeaseLapses, history
<1>3. \A t \in Sessions : rec'[t].joined = rec[t].joined /\ rec'[t].left = rec[t].left
                          /\ CloseWalk(rec'[t]) = CloseWalk(rec[t])
  BY <1>1 DEF CloseWalk
<1>4. TypeOK'
  BY <1>1, <1>2, <1>3 DEF TypeOK, Tables
<1>5. Matched'
  BY <1>2, <1>3 DEF Matched
<1>6. Leased'
  BY <1>1, <1>2 DEF Leased, Sessions
<1>7. Unopened'
  BY <1>1, <1>2 DEF Unopened, Gone
<1>8. FanListed' /\ Walked' /\ Marked'
  BY <1>2 DEF FanListed, Walked, Marked
<1>9. DepartureIsOwed'
  <2>1. ASSUME NEW r \in Rooms PROVE (Vacated(r)' => Vacated(r)) /\ (Signalled(r) => Signalled(r)')
    BY <1>2, <1>3 DEF Vacated, Handled, Signalled
  <2> QED BY <2>1, <1>2, OwedKept
<1> QED BY <1>4, <1>5, <1>6, <1>7, <1>8, <1>9

\* What a late or timely event makes of the connections.
LEMMA SpokeMoves ==
    ASSUME TypeOK, NEW s \in Sessions, Speaks(s), Spoke(s)
    PROVE  /\ conn' \in [Sessions -> {"new", "open", "closed", "done", "over"}]
           /\ \A t \in Sessions : t # s => conn'[t] = conn[t]
           /\ conn[s] # "new" /\ conn'[s] # "new"
           /\ \A t \in Sessions : conn'[t] \in Gone <=> conn[t] \in Gone
           /\ \A t \in Sessions : conn'[t] = "new" <=> conn[t] = "new"
           /\ conn[s] \notin Gone => conn'[s] = conn[s]
BY DEF TypeOK, Speaks, Spoke, Gone

\* joinRoom.
LEMMA JoinKeeps ==
    ASSUME Inv, NEW s \in Sessions, NEW r \in Rooms, JoinRoom(s, r)
    PROVE  Inv'
<1> USE DEF Inv
<1>1. /\ conn' \in [Sessions -> {"new", "open", "closed", "done", "over"}]
      /\ \A t \in Sessions : t # s => conn'[t] = conn[t]
      /\ conn[s] # "new" /\ conn'[s] # "new"
      /\ \A t \in Sessions : conn'[t] \in Gone <=> conn[t] \in Gone
      /\ \A t \in Sessions : conn'[t] = "new" <=> conn[t] = "new"
      /\ conn[s] \notin Gone => conn'[s] = conn[s]
  BY SpokeMoves DEF JoinRoom
<1>2. rec[s] \in Record /\ own[s] \in Record /\ rec \in [Sessions -> Record] /\ own \in [Sessions -> Record]
  BY DEF TypeOK
<1> DEFINE e == RecordJoin(rec[s], r)
           o == RecordJoin(own[s], r)
<1>3. /\ e \in Record /\ o \in Record /\ e.live
      /\ CloseWalk(e) = CloseWalk(rec[s]) \cup {r} /\ CloseWalk(o) = CloseWalk(own[s]) \cup {r}
      /\ e.joined = rec[s].joined \cup {r} /\ o.joined = own[s].joined \cup {r}
      /\ e.left = rec[s].left \ {r}
  BY <1>2, RecordsTyped DEF RecordJoin
<1>4. /\ rec' = [rec EXCEPT ![s] = e] /\ own' = [own EXCEPT ![s] = o]
      /\ lost' = [lost EXCEPT ![s] = lost[s] \ {r}]
      /\ issued' = [issued EXCEPT ![r] = FALSE]
      /\ UNCHANGED <<cast, walk, pending, alarm, tick, fan>>
  BY DEF JoinRoom
<1> HIDE DEF e, o
<1>5. /\ rec' \in [Sessions -> Record] /\ rec'[s] = e
      /\ own' \in [Sessions -> Record] /\ own'[s] = o
      /\ \A t \in Sessions : t # s => rec'[t] = rec[t] /\ own'[t] = own[t]
  BY <1>2, <1>3, <1>4
<1>6. /\ lost' \in [Sessions -> SUBSET Rooms]
      /\ \A t \in Sessions : t # s => lost'[t] = lost[t]
      /\ lost'[s] = lost[s] \ {r}
      /\ issued' \in [Rooms -> BOOLEAN]
      /\ \A q \in Rooms : q # r => issued'[q] = issued[q]
      /\ issued'[r] = FALSE
  BY <1>4 DEF TypeOK
<1>7. /\ confirmed' \in [Rooms -> {"none", "present", "absent"}]
      /\ ungreeted' \in SUBSET Rooms
      /\ join' \in [Sessions -> [at : {"none", "parked", "ask"}, rooms : SUBSET Rooms]]
  BY DEF JoinRoom, TypeOK
<1>8. Marked'
  BY <1>6 DEF JoinRoom, Marked, TypeOK
<1>9. TypeOK'
  <2>1. \A t \in Sessions : rec'[t].joined \cap rec'[t].left = {}
    BY <1>3, <1>5 DEF TypeOK
  <2> QED BY <2>1, <1>1, <1>4, <1>5, <1>6, <1>7 DEF TypeOK
<1>10. Matched'
  <2> SUFFICES ASSUME NEW t \in Sessions, NEW q \in Rooms, conn'[t] \notin Gone, q \notin lost'[t]
               PROVE  /\ q \in own'[t].joined => q \in rec'[t].joined
                      /\ q \in CloseWalk(own'[t]) => q \in CloseWalk(rec'[t])
    BY DEF Matched
  <2>1. CASE t = s /\ q = r
    BY <2>1, <1>3, <1>5
  <2>2. CASE t = s /\ q # r
    BY <2>2, <1>1, <1>3, <1>5, <1>6 DEF Matched
  <2>3. CASE t # s
    BY <2>3, <1>1, <1>5, <1>6 DEF Matched
  <2> QED BY <2>1, <2>2, <2>3
<1>11. Leased'
  BY <1>1, <1>3, <1>5 DEF Leased, Sessions
<1>12. Unopened'
  BY <1>1, <1>5 DEF Unopened
<1>13. FanListed'
  <2>1. \A t \in fan.open : t \in Sessions
    BY DEF TypeOK, Sessions
  <2> QED BY <2>1, <1>1, <1>4 DEF FanListed
<1>14. Walked'
  BY <1>1, <1>4 DEF Walked
<1>15. DepartureIsOwed'
  <2>1. Signalled(r)'
    <3>1. r \in CloseWalk(rec'[s])
      BY <1>3, <1>5
    <3> QED BY <3>1 DEF Signalled
  <2>2. ASSUME NEW q \in Rooms, q # r
        PROVE  /\ Vacated(q)' => Vacated(q)
               /\ (\A t \in Sessions : q \notin lost'[t]) => \A t \in Sessions : q \notin lost[t]
               /\ Signalled(q) => Signalled(q)'
    <3>1. \A t \in Sessions : /\ q \in CloseWalk(own'[t]) <=> q \in CloseWalk(own[t])
                              /\ q \in CloseWalk(rec'[t]) <=> q \in CloseWalk(rec[t])
                              /\ q \in lost'[t] <=> q \in lost[t]
      BY <2>2, <1>3, <1>5, <1>6
    <3>2. \A t \in Sessions : Handled(t, q)' <=> Handled(t, q)
      BY <1>1, <1>4 DEF Handled, Gone
    <3>3. Vacated(q)' => Vacated(q)
      BY <3>1, <3>2 DEF Vacated
    <3>4. Signalled(q) => Signalled(q)'
      BY <2>2, <3>1, <1>4, <1>6 DEF Signalled
    <3> QED BY <3>1, <3>3, <3>4
  <2> QED BY <2>1, <2>2, OwedKept
<1> QED BY <1>8, <1>9, <1>10, <1>11, <1>12, <1>13, <1>14, <1>15

\* The rest of a join: the marker is cleared, the peer's hub asked and told.
LEMMA GreetKeeps ==
    ASSUME Inv, NEW s \in Sessions, Greet(s) \/ Joined(s)
    PROVE  Inv'
<1> USE DEF Inv
<1>1. UNCHANGED <<cast, conn, rec, walk, pending, alarm, tick, fan, own, issued, lost>>
  BY DEF Greet, Joined, history
<1>2. /\ join' \in [Sessions -> [at : {"none", "parked", "ask"}, rooms : SUBSET Rooms]]
      /\ confirmed' \in [Rooms -> {"none", "present", "absent"}]
      /\ ungreeted' \in SUBSET Rooms
      /\ Marked'
  <2>1. CASE Greet(s)
    <3>1. join \in [Sessions -> [at : {"none", "parked", "ask"}, rooms : SUBSET Rooms]]
      BY DEF TypeOK
    <3> DEFINE j == [join[s] EXCEPT !.at = "ask"]
    <3>2. j \in [at : {"none", "parked", "ask"}, rooms : SUBSET Rooms]
      BY <3>1
    <3>3. join' = [join EXCEPT ![s] = j]
      BY <2>1, <3>1 DEF Greet
    <3> HIDE DEF j
    <3>4. join' \in [Sessions -> [at : {"none", "parked", "ask"}, rooms : SUBSET Rooms]]
      BY <3>1, <3>2, <3>3
    <3>5. /\ confirmed' = [r \in Rooms |-> IF r \in join[s].rooms THEN "present" ELSE confirmed[r]]
          /\ ungreeted' = ungreeted \ join[s].rooms
      BY <2>1 DEF Greet
    <3>6. Marked'
      BY <3>5, <1>1 DEF Marked
    <3> QED BY <3>4, <3>5, <3>6 DEF TypeOK
  <2>2. CASE Joined(s)
    BY <2>2 DEF Joined, NoJoin, TypeOK, Marked, history
  <2> QED BY <2>1, <2>2
<1>3. TypeOK'
  BY <1>1, <1>2 DEF TypeOK
<1>4. Matched' /\ Leased' /\ Unopened' /\ FanListed' /\ Walked'
  BY <1>1 DEF Matched, Leased, Unopened, FanListed, Walked
<1>5. DepartureIsOwed'
  BY <1>1 DEF DepartureIsOwed, Vacated, Signalled, Handled
<1> QED BY <1>2, <1>3, <1>4, <1>5

\* leaveRoom.
LEMMA LeaveKeeps ==
    ASSUME Inv, NEW s \in Sessions, NEW r \in Rooms, LeaveRoom(s, r)
    PROVE  Inv'
<1> USE DEF Inv
<1>1. /\ conn' \in [Sessions -> {"new", "open", "closed", "done", "over"}]
      /\ \A t \in Sessions : t # s => conn'[t] = conn[t]
      /\ conn[s] # "new" /\ conn'[s] # "new"
      /\ \A t \in Sessions : conn'[t] \in Gone <=> conn[t] \in Gone
      /\ \A t \in Sessions : conn'[t] = "new" <=> conn[t] = "new"
      /\ conn[s] \notin Gone => conn'[s] = conn[s]
  BY SpokeMoves DEF LeaveRoom
<1>2. rec[s] \in Record /\ own[s] \in Record /\ rec \in [Sessions -> Record] /\ own \in [Sessions -> Record]
  BY DEF TypeOK
<1> DEFINE e == RecordLeave(rec[s], r)
<1>3. /\ e \in Record /\ e.live
      /\ \A q \in Rooms \ {r} : q \in CloseWalk(e) <=> q \in CloseWalk(rec[s])
      /\ r \notin Lobby => CloseWalk(e) = CloseWalk(rec[s])
      /\ e.joined = rec[s].joined \ {r}
      /\ rec[s].joined \cap rec[s].left = {} => e.joined \cap e.left = {}
  BY <1>2, RecordsTyped DEF RecordLeave
<1>4. /\ rec' = [rec EXCEPT ![s] = e]
      /\ UNCHANGED <<cast, join, walk, pending, alarm, tick, confirmed, fan, issued, ungreeted, lost>>
  BY DEF LeaveRoom
<1> HIDE DEF e
<1>5. /\ rec' \in [Sessions -> Record] /\ rec'[s] = e
      /\ \A t \in Sessions : t # s => rec'[t] = rec[t]
  BY <1>2, <1>3, <1>4
<1>6. /\ own' \in [Sessions -> Record]
      /\ \A t \in Sessions, q \in Rooms \ {r} :
            /\ q \in own'[t].joined <=> q \in own[t].joined
            /\ q \in CloseWalk(own'[t]) <=> q \in CloseWalk(own[t])
      /\ r \notin own'[s].joined
      /\ \A t \in Sessions : t # s /\ conn[t] \notin Gone => own'[t] = own[t]
      /\ r \notin Lobby => \A t \in Sessions : CloseWalk(own'[t]) = CloseWalk(own[t])
      /\ r \in Lobby => /\ r \notin CloseWalk(own'[s])
                        /\ \A t \in Sessions : Handled(t, r) => r \notin CloseWalk(own'[t])
  <2>1. CASE r \in Lobby
    <3>1. own' = [t \in Sessions |-> IF t = s \/ Handled(t, r) THEN Without(own[t], r) ELSE own[t]]
      BY <2>1 DEF LeaveRoom
    <3>2. \A t \in Sessions : /\ Without(own[t], r) \in Record
                              /\ CloseWalk(Without(own[t], r)) = CloseWalk(own[t]) \ {r}
      BY <1>2, RecordsTyped
    <3>3. \A t \in Sessions : Without(own[t], r).joined = own[t].joined \ {r}
      BY <1>2 DEF Without, Record
    <3>4. \A t \in Sessions : conn[t] \notin Gone => ~Handled(t, r)
      BY DEF Handled, Gone
    <3> HIDE DEF Inv
    <3>5. own' \in [Sessions -> Record]
      BY <1>2, <3>1, <3>2
    <3>6. ASSUME NEW t \in Sessions, t = s \/ Handled(t, r)
          PROVE  own'[t] = Without(own[t], r)
      BY <3>1, <3>6
    <3>7. ASSUME NEW t \in Sessions, ~(t = s \/ Handled(t, r))
          PROVE  own'[t] = own[t]
      BY <3>1, <3>7
    <3>8. \A t \in Sessions, q \in Rooms \ {r} :
            /\ q \in own'[t].joined <=> q \in own[t].joined
            /\ q \in CloseWalk(own'[t]) <=> q \in CloseWalk(own[t])
      <4> SUFFICES ASSUME NEW t \in Sessions, NEW q \in Rooms \ {r}
                   PROVE  /\ q \in own'[t].joined <=> q \in own[t].joined
                          /\ q \in CloseWalk(own'[t]) <=> q \in CloseWalk(own[t])
        OBVIOUS
      <4> QED BY <3>2, <3>3, <3>6, <3>7
    <3> QED BY <2>1, <3>2, <3>3, <3>4, <3>5, <3>6, <3>7, <3>8
  <2>2. CASE r \notin Lobby
    <3> DEFINE o == RecordLeave(own[s], r)
    <3>1. own' = [own EXCEPT ![s] = o]
      BY <2>2 DEF LeaveRoom
    <3>2. o \in Record /\ o.joined = own[s].joined \ {r} /\ CloseWalk(o) = CloseWalk(own[s])
      BY <2>2, <1>2, RecordsTyped DEF RecordLeave
    <3> HIDE DEF Inv, o
    <3>3. /\ own' \in [Sessions -> Record] /\ own'[s] = o
          /\ \A t \in Sessions : t # s => own'[t] = own[t]
      BY <1>2, <3>1, <3>2
    <3>4. \A t \in Sessions : CloseWalk(own'[t]) = CloseWalk(own[t])
      BY <3>2, <3>3
    <3>5. \A t \in Sessions, q \in Rooms \ {r} : q \in own'[t].joined <=> q \in own[t].joined
      BY <3>2, <3>3
    <3> QED BY <2>2, <3>2, <3>3, <3>4, <3>5
  <2> QED BY <2>1, <2>2
<1>7. TypeOK'
  <2>1. \A t \in Sessions : rec'[t].joined \cap rec'[t].left = {}
    BY <1>3, <1>5 DEF TypeOK
  <2> QED BY <2>1, <1>1, <1>4, <1>5, <1>6 DEF TypeOK
<1>8. Matched'
  <2> SUFFICES ASSUME NEW t \in Sessions, NEW q \in Rooms, conn'[t] \notin Gone, q \notin lost'[t]
               PROVE  /\ q \in own'[t].joined => q \in rec'[t].joined
                      /\ q \in CloseWalk(own'[t]) => q \in CloseWalk(rec'[t])
    BY DEF Matched
  <2>0. conn[t] \notin Gone /\ q \notin lost[t]
    BY <1>1, <1>4
  <2>1. CASE t = s /\ q = r
    BY <2>0, <2>1, <1>3, <1>5, <1>6 DEF Matched
  <2>2. CASE t = s /\ q # r
    BY <2>0, <2>2, <1>3, <1>5, <1>6 DEF Matched
  <2>3. CASE t # s
    BY <2>0, <2>3, <1>5, <1>6 DEF Matched
  <2> QED BY <2>1, <2>2, <2>3
<1>9. Leased'
  BY <1>1, <1>3, <1>5 DEF Leased, Sessions
<1>10. Unopened'
  BY <1>1, <1>5, <1>6 DEF Unopened, Gone
<1>11. FanListed'
  <2>1. \A t \in fan.open : t \in Sessions
    BY DEF TypeOK, Sessions
  <2> QED BY <2>1, <1>1, <1>4 DEF FanListed
<1>12. Walked'
  BY <1>1, <1>4 DEF Walked
<1>13. Marked'
  BY <1>4 DEF Marked
<1>14. DepartureIsOwed'
  <2>1. \A t \in Sessions, q \in Rooms : Handled(t, q)' <=> Handled(t, q)
    BY <1>1, <1>4 DEF Handled, Gone
  <2>2. ASSUME NEW q \in Rooms, q # r \/ r \notin Lobby
        PROVE  (Vacated(q)' => Vacated(q)) /\ (Signalled(q) => Signalled(q)')
    <3>1. \A t \in Sessions : /\ q \in CloseWalk(own'[t]) <=> q \in CloseWalk(own[t])
                              /\ q \in CloseWalk(rec'[t]) <=> q \in CloseWalk(rec[t])
      BY <2>2, <1>3, <1>5, <1>6
    <3>2. Vacated(q)' => Vacated(q)
      BY <3>1, <2>1 DEF Vacated
    <3>3. Signalled(q) => Signalled(q)'
      BY <3>1, <1>4 DEF Signalled
    <3> QED BY <3>2, <3>3
  <2>3. ASSUME r \in Lobby PROVE ~Vacated(r)'
    <3> SUFFICES ASSUME NEW t \in Sessions, r \in CloseWalk(own'[t]), Handled(t, r)' PROVE FALSE
      BY DEF Vacated
    <3>1. Handled(t, r)
      BY <2>1
    <3> QED BY <2>3, <3>1, <1>6
  <2> QED BY <2>2, <2>3, <1>4, OwedKept
<1> QED BY <1>7, <1>8, <1>9, <1>10, <1>11, <1>12, <1>13, <1>14

\* The client's connection ends, unheard of by the hub (websocket_close).
LEMMA ClientClosesKeeps ==
    ASSUME Inv, NEW s \in Sessions, ClientCloses(s)
    PROVE  Inv'
<1> USE DEF Inv
<1>1. UNCHANGED <<cast, rec, join, walk, pending, alarm, tick, confirmed, fan, own, issued, ungreeted, lost>>
  BY DEF ClientCloses, hub, history
<1>2. /\ conn' \in [Sessions -> {"new", "open", "closed", "done", "over"}]
      /\ conn[s] = "open" /\ conn'[s] = "closed"
      /\ \A t \in Sessions : t # s => conn'[t] = conn[t]
  BY DEF ClientCloses, TypeOK
<1>3. \A t \in Sessions : /\ conn'[t] \in Gone <=> conn[t] \in Gone
                          /\ conn'[t] = "new" <=> conn[t] = "new"
  BY <1>2 DEF Gone
<1>4. TypeOK'
  BY <1>1, <1>2 DEF TypeOK
<1>5. Matched' /\ Leased' /\ Unopened' /\ Walked' /\ Marked'
  BY <1>1, <1>3 DEF Matched, Leased, Unopened, Walked, Marked, Sessions
<1>6. FanListed'
  <2>1. \A t \in fan.open : t \in Sessions
    BY DEF TypeOK, Sessions
  <2> QED BY <2>1, <1>1, <1>3 DEF FanListed
<1>7. DepartureIsOwed'
  <2>1. \A t \in Sessions, q \in Rooms : Handled(t, q)' <=> Handled(t, q)
    BY <1>1, <1>3 DEF Handled, Gone
  <2>2. \A q \in Rooms : (Vacated(q)' => Vacated(q)) /\ (Signalled(q) => Signalled(q)')
    BY <2>1, <1>1 DEF Vacated, Signalled
  <2> QED BY <2>2, <1>1, OwedKept
<1> QED BY <1>4, <1>5, <1>6, <1>7

\* An unregister that is lost: the entry stays, and holds the rooms.
LEMMA UnregisterLostKeeps ==
    ASSUME Inv, NEW s \in Sessions, UnregisterLost(s)
    PROVE  Inv'
<1> USE DEF Inv
<1>1. UNCHANGED <<cast, rec, join, walk, pending, alarm, tick, confirmed, fan, own, issued, ungreeted, lost>>
  BY DEF UnregisterLost, hub, history
<1>2. /\ conn' \in [Sessions -> {"new", "open", "closed", "done", "over"}]
      /\ conn[s] = "closed" /\ conn'[s] = "done"
      /\ \A t \in Sessions : t # s => conn'[t] = conn[t]
  BY DEF UnregisterLost, TypeOK
<1>3. \A t \in Sessions : /\ conn'[t] \notin Gone => conn[t] \notin Gone
                          /\ conn'[t] = "new" <=> conn[t] = "new"
  BY <1>2 DEF Gone
<1>4. TypeOK'
  BY <1>1, <1>2 DEF TypeOK
<1>5. Matched' /\ Leased' /\ Unopened' /\ Walked' /\ Marked'
  BY <1>1, <1>3 DEF Matched, Leased, Unopened, Walked, Marked, Sessions
<1>6. FanListed'
  <2>1. \A t \in fan.open : t \in Sessions
    BY DEF TypeOK, Sessions
  <2> QED BY <2>1, <1>1, <1>3 DEF FanListed
<1>7. DepartureIsOwed'
  <2> SUFFICES ASSUME NEW r \in Rooms, Vacated(r)', \A t \in Sessions : r \notin lost'[t]
               PROVE  Signalled(r)'
    BY DEF DepartureIsOwed
  <2>1. CASE r \in CloseWalk(own[s])
    <3>1. conn[s] \notin Gone /\ r \notin lost[s]
      BY <1>1, <1>2 DEF Gone
    <3>2. r \in CloseWalk(rec[s])
      BY <2>1, <3>1 DEF Matched
    <3> QED BY <3>2, <1>1 DEF Signalled
  <2>2. CASE r \notin CloseWalk(own[s])
    <3>1. Vacated(r)
      BY <2>2, <1>1, <1>2 DEF Vacated, Handled
    <3> QED BY <3>1, <1>1 DEF DepartureIsOwed, Signalled
  <2> QED BY <2>1, <2>2
<1> QED BY <1>4, <1>5, <1>6, <1>7

\* Time, the alarm, and what an eviction ends, touch no record.
LEMMA ClockKeeps ==
    ASSUME Inv, (\E r \in Rooms : TimePasses(r)) \/ AlarmLost \/ RearmNet \/ Restart
    PROVE  Inv'
<1> USE DEF Inv
<1>1. UNCHANGED <<cast, conn, rec, walk, confirmed, own, issued, ungreeted, lost>>
  BY DEF TimePasses, AlarmLost, RearmNet, Restart, history
<1>2. /\ pending' \in [Rooms -> {"none", "waits", "due", "overdue"}]
      /\ \A r \in Rooms : pending[r] # "none" => pending'[r] # "none"
  BY DEF TimePasses, AlarmLost, RearmNet, Restart, TypeOK
<1>3. /\ alarm' \in BOOLEAN
      /\ tick' \in [on : BOOLEAN, due : SUBSET Rooms, next : BOOLEAN]
      /\ join' \in [Sessions -> [at : {"none", "parked", "ask"}, rooms : SUBSET Rooms]]
  <2>1. CASE Restart
    <3>1. join' = [s \in Sessions |-> NoJoin] /\ tick' = NoTick /\ alarm' \in BOOLEAN
      BY <2>1 DEF Restart, TypeOK
    <3> QED BY <3>1 DEF NoTick, NoJoin
  <2>2. CASE ~Restart
    BY <2>2 DEF TimePasses, AlarmLost, RearmNet, TypeOK
  <2> QED BY <2>1, <2>2
<1>4. fan' = fan \/ fan' = NoFan
  BY DEF TimePasses, AlarmLost, RearmNet, Restart
<1>5. /\ fan' \in [on : BOOLEAN, entries : [Sios -> Record], open : SUBSET Sios]
      /\ FanListed'
  <2>1. CASE fan' = fan
    BY <2>1, <1>1 DEF TypeOK, FanListed
  <2>2. CASE fan' = NoFan
    BY <2>2, NoRecordTyped DEF NoFan, FanListed, NoRecord
  <2> QED BY <1>4, <2>1, <2>2
<1>6. TypeOK'
  BY <1>1, <1>2, <1>3, <1>5 DEF TypeOK
<1>7. Matched' /\ Leased' /\ Unopened' /\ Walked' /\ Marked'
  BY <1>1 DEF Matched, Leased, Unopened, Walked, Marked
<1>8. DepartureIsOwed'
  <2>1. \A q \in Rooms : (Vacated(q)' => Vacated(q)) /\ (Signalled(q) => Signalled(q)')
    BY <1>1, <1>2 DEF Vacated, Handled, Signalled
  <2> QED BY <2>1, <1>1, OwedKept
<1> QED BY <1>5, <1>6, <1>7, <1>8

\* The marker says what it said where only pushes are added.
LEMMA MarkedKept ==
    ASSUME Inv, NEW I, confirmed' = confirmed, ungreeted' = ungreeted, issued' = Issued(I)
    PROVE  Marked' /\ issued' \in [Rooms -> BOOLEAN]
<1>1. \A r \in Rooms : issued[r] => issued'[r]
  BY DEF Issued
<1>2. issued' \in [Rooms -> BOOLEAN]
  BY DEF Issued, Inv, TypeOK
<1> QED BY <1>1, <1>2 DEF Marked, Inv

\* A listing at a question or at a message (list_socketio_subscribers).
Lists(pushed) ==
    /\ rec' = Listed(rec)
    /\ pending' = Armed(pending, LapsedDepartures(rec), pushed)
    /\ issued' = Issued(pushed)
    /\ UNCHANGED <<cast, conn, join, walk, tick, confirmed, own, ungreeted, lost>>

\* Such a listing keeps the invariant, but for the fan-out's own part.
LEMMA ListsKeeps ==
    ASSUME Inv, NEW pushed \in SUBSET LapsedDepartures(rec), Lists(pushed), alarm' \in BOOLEAN,
           fan' \in [on : BOOLEAN, entries : [Sios -> Record], open : SUBSET Sios], FanListed'
    PROVE  Inv'
<1> USE DEF Inv
<1>1. rec \in Tables
  BY DEF TypeOK, Tables
<1>2. Relisted(rec, rec', LapsedDepartures(rec))
  BY <1>1, ListingRelists DEF Lists
<1>3. LapsedDepartures(rec) \in SUBSET Rooms
  BY DEF LapsedDepartures
<1>4. /\ pending' \in [Rooms -> {"none", "waits", "due", "overdue"}]
      /\ \A r \in Rooms : pending[r] # "none" \/ r \in LapsedDepartures(rec) =>
            r \in pushed \/ pending'[r] # "none"
  <2>1. pending \in [Rooms -> {"none", "waits", "due", "overdue"}]
    BY DEF TypeOK
  <2> HIDE DEF Inv
  <2>2. pending' = Armed(pending, LapsedDepartures(rec), pushed)
    BY DEF Lists
  <2> QED BY <1>3, <2>1, <2>2, ArmNotes
<1>5. Marked' /\ issued' \in [Rooms -> BOOLEAN]
  BY MarkedKept DEF Lists
<1>6. /\ rec' \in [Sessions -> Record]
      /\ \A s \in Sessions : rec'[s].joined \cap rec'[s].left = {}
  <2>1. \A s \in Sessions : rec[s].joined \cap rec[s].left = {}
    BY DEF TypeOK
  <2> QED BY <1>1, <1>2, <2>1, RelistTyped
<1>7. TypeOK'
  BY <1>4, <1>5, <1>6 DEF TypeOK, Lists
<1>8. Matched' /\ Leased' /\ Unopened' /\ Walked' /\ DepartureIsOwed'
  BY <1>2, <1>4, LookKeeps DEF Lists
<1> QED BY <1>5, <1>7, <1>8

\* handle_presence.
LEMMA PresenceKeeps ==
    ASSUME Inv, NEW r \in Rooms, HandlePresence(r)
    PROVE  Inv'
<1>1. PICK pushed \in Unstored(LapsedDepartures(rec)) : Lists(pushed)
  BY DEF HandlePresence, Lists
<1>2. pushed \in SUBSET LapsedDepartures(rec)
  BY UnstoredIsArmed
<1>3. alarm' \in BOOLEAN
  BY DEF HandlePresence, Inv, TypeOK
<1>4. /\ fan' \in [on : BOOLEAN, entries : [Sios -> Record], open : SUBSET Sios]
      /\ FanListed'
  BY <1>1 DEF HandlePresence, Inv, TypeOK, FanListed, Lists
<1> QED BY <1>1, <1>2, <1>3, <1>4, ListsKeeps

\* The start of a message's fan-out, with the entries it lists.
LEMMA FanOutKeeps ==
    ASSUME Inv, FanOut
    PROVE  Inv'
<1>1. PICK pushed \in Unstored(LapsedDepartures(rec)) : Lists(pushed)
  BY DEF FanOut, Lists
<1>2. pushed \in SUBSET LapsedDepartures(rec)
  BY UnstoredIsArmed
<1>3. alarm' \in BOOLEAN
  BY DEF FanOut, Inv, TypeOK
<1>4. rec \in Tables /\ rec' = Listed(rec)
  BY <1>1 DEF Inv, TypeOK, Tables, Lists
<1>5. rec' \in Tables /\ \A s \in Sios : rec'[s].held => rec'[s].live
  BY <1>4, ListingRelists, ListedHoldsLeases DEF Relisted
<1>6. /\ fan' = [on |-> TRUE, entries |-> [s \in Sios |-> rec'[s]],
                open |-> {s \in Sios : conn[s] = "open"}]
      /\ conn' = conn
  BY DEF FanOut
<1>7. fan' \in [on : BOOLEAN, entries : [Sios -> Record], open : SUBSET Sios]
  BY <1>5, <1>6 DEF Tables, Sessions
<1>8. FanListed'
  <2>1. \A s \in Sessions : rec[s].joined \cap rec[s].left = {}
    BY DEF Inv, TypeOK
  <2>2. \A s \in Sessions : rec'[s].joined \cap rec'[s].left = {}
    BY <1>4, <2>1, ListingRelists, RelistTyped DEF Inv
  <2> QED BY <1>5, <1>6, <2>2 DEF FanListed, Sessions
<1> QED BY <1>1, <1>2, <1>3, <1>7, <1>8, ListsKeeps

\* The end of a fan-out: what it took from an entry is noted as lost.
LEMMA FannedOutKeeps ==
    ASSUME Inv, FannedOut
    PROVE  Inv'
<1> USE DEF Inv
<1>1. PICK dropped \in SUBSET {s \in Sios : fan.entries[s].held},
           renewed \in SUBSET {s \in Sios : fan.entries[s].held} :
          /\ dropped \cap renewed = {} /\ renewed \subseteq fan.open
          /\ rec' = [s \in Sessions |-> IF s \in dropped THEN NoRecord
                                        ELSE IF s \in renewed THEN fan.entries[s] ELSE rec[s]]
  BY DEF FannedOut
<1>2. /\ lost' = [s \in Sessions |-> lost[s] \cup Taken(rec[s], rec'[s])]
      /\ fan' = NoFan
      /\ UNCHANGED <<cast, conn, join, walk, pending, alarm, tick, confirmed, own, issued, ungreeted>>
  BY DEF FannedOut
<1>3. /\ rec \in [Sessions -> Record] /\ fan.entries \in [Sios -> Record]
      /\ lost \in [Sessions -> SUBSET Rooms]
  BY DEF TypeOK
<1>4. ASSUME NEW s \in Sessions
      PROVE  /\ rec'[s] \in {NoRecord, rec[s]} \/ (s \in Sios /\ s \in renewed /\ rec'[s] = fan.entries[s])
             /\ rec'[s] \in Record
  <2> HIDE DEF Inv
  <2> QED BY <1>1, <1>3, NoRecordTyped
<1>5. rec' \in [Sessions -> Record]
  <2> HIDE DEF Inv
  <2> QED BY <1>1, <1>3, <1>4, NoRecordTyped
<1>6. lost' \in [Sessions -> SUBSET Rooms]
  <2>1. ASSUME NEW s \in Sessions PROVE Taken(rec[s], rec'[s]) \in SUBSET Rooms
    BY <1>3 DEF Taken, CloseWalk, Record
  <2> QED BY <2>1, <1>2, <1>3
<1>7. ASSUME NEW s \in Sessions, NEW r \in Rooms, r \notin lost'[s]
      PROVE  /\ r \notin lost[s]
             /\ r \in rec[s].joined => r \in rec'[s].joined
             /\ r \in CloseWalk(rec[s]) => r \in CloseWalk(rec'[s])
  BY <1>2, <1>7 DEF Taken
<1>8. fan' \in [on : BOOLEAN, entries : [Sios -> Record], open : SUBSET Sios] /\ FanListed'
  BY <1>2, NoRecordTyped DEF NoFan, FanListed, NoRecord
<1>9. TypeOK'
  <2>1. ASSUME NEW s \in Sessions PROVE rec'[s].joined \cap rec'[s].left = {}
    BY <1>4 DEF NoRecord, FanListed, TypeOK
  <2> QED BY <2>1, <1>2, <1>5, <1>6, <1>8 DEF TypeOK
<1>10. Matched'
  BY <1>2, <1>7 DEF Matched
<1>11. Leased'
  <2> SUFFICES ASSUME NEW s \in Sios, conn[s] \notin Gone, rec'[s].held PROVE rec'[s].live
    BY <1>2 DEF Leased
  <2> QED BY <1>4 DEF Leased, FanListed, NoRecord, Sessions
<1>12. Unopened'
  BY <1>1, <1>2, <1>4 DEF Unopened, FanListed
<1>13. Walked' /\ Marked'
  BY <1>2 DEF Walked, Marked
<1>14. DepartureIsOwed'
  <2> SUFFICES ASSUME NEW r \in Rooms, Vacated(r)', \A t \in Sessions : r \notin lost'[t]
               PROVE  Signalled(r)'
    BY DEF DepartureIsOwed
  <2>1. Vacated(r)
    BY <1>2 DEF Vacated, Handled
  <2>2. Signalled(r)
    BY <2>1, <1>7 DEF DepartureIsOwed
  <2> QED BY <2>2, <1>2, <1>7 DEF Signalled
<1> QED BY <1>8, <1>9, <1>10, <1>11, <1>12, <1>13, <1>14

\* The rooms of a close, or the rest of them: what the walk looked at is
\* occupied or armed, what it did not is still to be walked
\* (maybe_notify_peer_left).
LEMMA DepartsKeeps ==
    ASSUME Inv, NEW s \in Sessions, NEW rooms \in SUBSET Rooms, NEW R \in Tables,
           Departs(s, rooms, R),
           \A t \in Sessions : R[t].joined \cap R[t].left = {},
           \A t \in Sessions : t # s => R[t] = rec[t] /\ conn'[t] = conn[t],
           conn' \in [Sessions -> {"new", "open", "closed", "done", "over"}],
           conn[s] # "new", conn'[s] \in Gone,
           \A r \in Rooms : r \in CloseWalk(rec[s]) => r \in CloseWalk(R[s]) \/ r \in rooms,
           walk[s] \subseteq rooms,
           \A r \in Rooms : r \notin lost[s] /\ r \in CloseWalk(own[s]) =>
              Handled(s, r) \/ r \in rooms,
           UNCHANGED <<cast, join, tick, confirmed, fan, own, ungreeted, lost>>
    PROVE  Inv'
<1> USE DEF Inv
<1>1. PICK done \in SUBSET rooms :
          \E pushed \in Unstored({r \in done : ~Occupied(Looked(R, done), r)} \cup LookArms(R, done)) :
            /\ rec' = Looked(R, done)
            /\ pending' = Armed(pending, {r \in done : ~Occupied(Looked(R, done), r)}
                                         \cup LookArms(R, done), pushed)
            /\ alarm' = (alarm \/ {r \in done : ~Occupied(Looked(R, done), r)}
                                  \cup LookArms(R, done) # pushed)
            /\ issued' = Issued(pushed)
            /\ walk' = [walk EXCEPT ![s] = rooms \ done]
  BY DEF Departs
<1> DEFINE arms == {r \in done : ~Occupied(Looked(R, done), r)} \cup LookArms(R, done)
<1>2. PICK pushed \in Unstored(arms) :
            /\ rec' = Looked(R, done)
            /\ pending' = Armed(pending, arms, pushed)
            /\ alarm' = (alarm \/ arms # pushed)
            /\ issued' = Issued(pushed)
            /\ walk' = [walk EXCEPT ![s] = rooms \ done]
  BY <1>1
<1>3. Relisted(R, rec', LookArms(R, done))
  BY <1>2, LookRelists
<1>4. \A r \in done : Occupied(rec', r) \/ r \in arms
  BY <1>2
<1>5. LookArms(R, done) \subseteq arms
  OBVIOUS
<1> HIDE DEF arms, Inv
<1>6. /\ pending' \in [Rooms -> {"none", "waits", "due", "overdue"}]
      /\ \A r \in Rooms : pending[r] # "none" \/ r \in arms => r \in pushed \/ pending'[r] # "none"
  <2>1. pending \in [Rooms -> {"none", "waits", "due", "overdue"}]
    BY DEF TypeOK, Inv
  <2> QED BY <2>1, <1>2, ArmNotes
<1>7. Marked' /\ issued' \in [Rooms -> BOOLEAN] /\ \A r \in Rooms : r \in pushed \/ issued[r] => issued'[r]
  BY <1>2, MarkedKept DEF Issued
<1>8. /\ rec' \in [Sessions -> Record]
      /\ \A t \in Sessions : rec'[t].joined \cap rec'[t].left = {}
  BY <1>3, RelistTyped DEF Inv
<1>9. /\ walk' \in [Sessions -> SUBSET Rooms] /\ walk'[s] = rooms \ done
      /\ \A t \in Sessions : t # s => walk'[t] = walk[t]
  BY <1>2 DEF TypeOK, Inv
<1>10. TypeOK'
  <2>1. alarm' \in BOOLEAN
    BY <1>2 DEF TypeOK, Inv
  <2> QED BY <2>1, <1>6, <1>7, <1>8, <1>9 DEF TypeOK, Inv
<1>11. ASSUME NEW t \in Sessions, conn'[t] \notin Gone
       PROVE  t # s /\ rec'[t] = rec[t] /\ conn'[t] = conn[t] /\ walk'[t] = walk[t]
  BY <1>3, <1>9, <1>11, RelistKeepsLive DEF Inv
<1>12. Matched' /\ Leased' /\ Walked'
  BY <1>11 DEF Matched, Leased, Walked, Inv, Sessions
<1>13. Unopened'
  BY <1>11 DEF Unopened, Gone, Inv
<1>14. FanListed'
  <2>1. \A t \in fan.open : t \in Sessions /\ conn[t] # "new"
    BY DEF TypeOK, Sessions, FanListed, Inv
  <2> QED BY <2>1 DEF FanListed, Inv, Gone
<1>15. DepartureIsOwed'
  <2> SUFFICES ASSUME NEW r \in Rooms, Vacated(r)', \A t \in Sessions : r \notin lost'[t]
               PROVE  Signalled(r)'
    BY DEF DepartureIsOwed
  <2>1. r \in arms => issued'[r] \/ pending'[r] # "none"
    BY <1>6, <1>7
  <2>2. Occupied(rec', r) => Held(rec', r)
    BY DEF Occupied, Held, CloseWalk
  <2>3. CASE r \in done
    BY <2>1, <2>2, <2>3, <1>4 DEF Signalled, Held
  <2>4. CASE r \in rooms \ done
    BY <2>4, <1>9 DEF Signalled
  <2>5. CASE r \notin rooms
    <3>1. Vacated(r)
      <4>1. \A t \in Sessions : r \in CloseWalk(own[t]) /\ t # s => Handled(t, r)
        BY <1>9 DEF Vacated, Handled
      <4>2. r \in CloseWalk(own[s]) => Handled(s, r)
        BY <2>5
      <4> QED BY <4>1, <4>2 DEF Vacated
    <3>2. Signalled(r)
      BY <3>1 DEF DepartureIsOwed, Inv
    <3>3. Held(rec, r) => Held(R, r)
      BY <2>5 DEF Held
    <3>4. Held(R, r) => Held(rec', r) \/ r \in arms
      BY <1>3, <1>5, RelistHolds
    <3>5. ASSUME NEW t \in Sessions, r \in walk[t] PROVE r \in walk'[t]
      BY <2>5, <3>5, <1>9
    <3>6. issued[r] \/ pending[r] # "none" => issued'[r] \/ pending'[r] # "none"
      BY <1>6, <1>7
    <3> QED BY <3>2, <3>3, <3>4, <3>5, <3>6, <2>1 DEF Signalled, Held
  <2> QED BY <2>3, <2>4, <2>5
<1> QED BY <1>7, <1>10, <1>12, <1>13, <1>14, <1>15 DEF Inv

\* A close the hub hears (teardown_departed_socket, handle_socketio_unregister).
LEMMA CloseKeeps ==
    ASSUME Inv, NEW s \in Sessions, Close(s)
    PROVE  Inv'
<1> DEFINE R == [rec EXCEPT ![s] = NoRecord]
           rooms == CloseWalk(rec[s])
<1>1. /\ conn[s] = "closed" /\ Departs(s, rooms, R)
      /\ conn' = [conn EXCEPT ![s] = "done"]
      /\ UNCHANGED <<cast, join, tick, confirmed, fan, own, ungreeted, lost>>
  BY DEF Close
<1>2. /\ conn' \in [Sessions -> {"new", "open", "closed", "done", "over"}]
      /\ conn[s] # "new" /\ conn'[s] \in Gone /\ conn[s] \notin Gone
      /\ \A t \in Sessions : t # s => conn'[t] = conn[t]
  BY <1>1 DEF Inv, TypeOK, Gone
<1>3. /\ R \in Tables /\ R[s] = NoRecord
      /\ \A t \in Sessions : t # s => R[t] = rec[t]
      /\ \A t \in Sessions : R[t].joined \cap R[t].left = {}
  <2>1. rec \in [Sessions -> Record] /\ \A t \in Sessions : rec[t].joined \cap rec[t].left = {}
    BY DEF Inv, TypeOK
  <2>2. NoRecord.joined = {} /\ NoRecord \in Record
    BY NoRecordTyped DEF NoRecord
  <2> QED BY <2>1, <2>2 DEF Tables
<1>4. rooms \in SUBSET Rooms
  BY DEF Inv, TypeOK, Record, CloseWalk
<1>5. walk[s] \subseteq rooms
  BY <1>2 DEF Inv, Walked
<1>6. \A r \in Rooms : r \notin lost[s] /\ r \in CloseWalk(own[s]) => r \in rooms
  BY <1>2 DEF Inv, Matched
<1> HIDE DEF R, rooms
<1>7. \A r \in Rooms : r \in CloseWalk(rec[s]) => r \in rooms
  BY DEF rooms
<1> QED BY <1>1, <1>2, <1>3, <1>4, <1>5, <1>6, <1>7, DepartsKeeps

\* The rest of a close's rooms, after a push.
LEMMA WalkOnKeeps ==
    ASSUME Inv, NEW s \in Sessions, WalkOn(s)
    PROVE  Inv'
<1>1. /\ walk[s] # {} /\ Departs(s, walk[s], rec)
      /\ UNCHANGED <<cast, conn, join, tick, confirmed, fan, own, ungreeted, lost>>
  BY DEF WalkOn
<1>2. /\ conn \in [Sessions -> {"new", "open", "closed", "done", "over"}]
      /\ walk[s] \in SUBSET Rooms /\ rec \in Tables
      /\ \A t \in Sessions : rec[t].joined \cap rec[t].left = {}
  BY DEF Inv, TypeOK, Tables
<1>3. conn[s] \in Gone /\ conn[s] # "new"
  BY <1>1 DEF Inv, Walked, Gone
<1>4. \A r \in Rooms : Handled(s, r) \/ r \in walk[s]
  BY <1>3 DEF Handled, Gone
<1> QED BY <1>1, <1>2, <1>3, <1>4, DepartsKeeps

\* The alarm handler, up to its next push: a room it took is pushed or found
\* occupied, and no other loses its entry (run_departure_debounce_alarm).
LEMMA TickKeeps ==
    ASSUME Inv, NEW list \in SUBSET Rooms, NEW next \in BOOLEAN, NEW set \in BOOLEAN,
           TickRuns(list, next, set)
    PROVE  Inv'
<1>1. PICK done \in SUBSET list :
        \E pushed \in Unstored(LookArms(rec, done)) :
            /\ rec' = Looked(rec, done)
            /\ pending' = Armed([r \in Rooms |-> IF r \in done THEN "none" ELSE pending[r]],
                                IF \E r \in done \ StillEmpty(Looked(rec, done), done) : ~RawIn(rec, r)
                                THEN LookArms(rec, done) \ done ELSE LookArms(rec, done), pushed)
            /\ confirmed' = [r \in Rooms |-> IF r \in StillEmpty(Looked(rec, done), done)
                                             THEN "absent" ELSE confirmed[r]]
            /\ issued' = Issued(StillEmpty(Looked(rec, done), done) \cup pushed)
            /\ tick' = IF StillEmpty(Looked(rec, done), done) = {} THEN NoTick
                       ELSE [on |-> TRUE, due |-> list \ done, next |-> next]
            /\ alarm' = (set \/ LookArms(rec, done) # pushed
                             \/ (StillEmpty(Looked(rec, done), done) = {} /\ next))
            /\ UNCHANGED <<cast, conn, join, walk, fan, own, ungreeted, lost>>
  BY DEF TickRuns
<1> DEFINE found == LookArms(rec, done)
           empty == StillEmpty(Looked(rec, done), done)
           arms == IF \E r \in done \ empty : ~RawIn(rec, r) THEN found \ done ELSE found
           p == [r \in Rooms |-> IF r \in done THEN "none" ELSE pending[r]]
<1>2. PICK pushed \in Unstored(found) :
            /\ rec' = Looked(rec, done)
            /\ pending' = Armed(p, arms, pushed)
            /\ confirmed' = [r \in Rooms |-> IF r \in empty THEN "absent" ELSE confirmed[r]]
            /\ issued' = Issued(empty \cup pushed)
            /\ tick' = IF empty = {} THEN NoTick
                       ELSE [on |-> TRUE, due |-> list \ done, next |-> next]
            /\ alarm' = (set \/ found # pushed \/ (empty = {} /\ next))
            /\ UNCHANGED <<cast, conn, join, walk, fan, own, ungreeted, lost>>
  BY <1>1
<1>3. rec \in Tables /\ \A t \in Sessions : rec[t].joined \cap rec[t].left = {}
  BY DEF Inv, TypeOK, Tables
<1>4. Relisted(rec, rec', found)
  BY <1>2, <1>3, LookRelists
<1>5. \A r \in done : r \in empty \/ Occupied(rec', r)
  BY <1>2 DEF StillEmpty
<1>6. \A r \in found : r \in done \/ r \in arms
  OBVIOUS
<1>7. /\ p \in [Rooms -> {"none", "waits", "due", "overdue"}]
      /\ \A r \in Rooms : r \notin done => p[r] = pending[r]
  BY DEF Inv, TypeOK
<1>8. tick' \in [on : BOOLEAN, due : SUBSET Rooms, next : BOOLEAN] /\ alarm' \in BOOLEAN
  BY <1>2 DEF NoTick
<1> HIDE DEF p, arms, found, empty
<1>9. /\ pending' \in [Rooms -> {"none", "waits", "due", "overdue"}]
      /\ \A r \in Rooms : p[r] # "none" \/ r \in arms => r \in pushed \/ pending'[r] # "none"
  BY <1>2, <1>7, ArmNotes
<1>10. \A r \in Rooms : pending[r] # "none" \/ r \in found =>
          r \in empty \cup pushed \/ pending'[r] # "none" \/ Occupied(rec', r)
  BY <1>5, <1>6, <1>7, <1>9
<1>11. Matched' /\ Leased' /\ Unopened' /\ Walked' /\ DepartureIsOwed'
  BY <1>2, <1>4, <1>10, LookKeeps
<1>12. issued' \in [Rooms -> BOOLEAN] /\ \A r \in Rooms : r \in empty \/ issued[r] => issued'[r]
  BY <1>2 DEF Issued, Inv, TypeOK
<1>13. confirmed' \in [Rooms -> {"none", "present", "absent"}] /\ Marked'
  <2>1. confirmed' \in [Rooms -> {"none", "present", "absent"}]
    BY <1>2 DEF Inv, TypeOK
  <2>2. Marked'
    BY <1>2, <1>12 DEF Inv, Marked
  <2> QED BY <2>1, <2>2
<1>14. /\ rec' \in [Sessions -> Record]
       /\ \A t \in Sessions : rec'[t].joined \cap rec'[t].left = {}
  BY <1>3, <1>4, RelistTyped DEF Inv
<1>15. FanListed'
  BY <1>2 DEF Inv, FanListed
<1>16. TypeOK'
  BY <1>2, <1>8, <1>9, <1>12, <1>13, <1>14 DEF Inv, TypeOK
<1> QED BY <1>11, <1>13, <1>15, <1>16 DEF Inv

-----------------------------------------------------------------------------
(* The invariant, and what follows from it *)

\* A fresh hub satisfies the invariant (MessageHub::new).
LEMMA InitInv == Init => Inv
<1> SUFFICES ASSUME Init PROVE Inv
  OBVIOUS
<1>1. /\ \A s \in Sessions : rec[s] = NoRecord /\ own[s] = Fresh /\ conn[s] = "new" /\ walk[s] = {}
      /\ \A s \in Sios : fan.entries[s] = NoRecord
      /\ fan.open = {}
      /\ \A r \in Rooms : confirmed[r] = "none"
  BY DEF Init, NoFan
<1>2. TypeOK
  <2>1. Fresh \in Record /\ NoRecord \in Record /\ NoRecord.joined = {}
    BY DEF Fresh, Record, NoRecord
  <2>2. rec \in [Sessions -> Record] /\ own \in [Sessions -> Record]
    BY <2>1 DEF Init
  <2>3. fan \in [on : BOOLEAN, entries : [Sios -> Record], open : SUBSET Sios]
    BY <2>1 DEF Init, NoFan
  <2>4. \A s \in Sessions : rec[s].joined \cap rec[s].left = {}
    BY <2>1, <1>1
  <2>5. /\ cast \in Casts /\ conn \in [Sessions -> {"new", "open", "closed", "done", "over"}]
        /\ walk \in [Sessions -> SUBSET Rooms] /\ lost \in [Sessions -> SUBSET Rooms]
        /\ alarm \in BOOLEAN /\ ungreeted \subseteq Rooms
    BY DEF Init
  <2>6. /\ join \in [Sessions -> [at : {"none", "parked", "ask"}, rooms : SUBSET Rooms]]
        /\ tick \in [on : BOOLEAN, due : SUBSET Rooms, next : BOOLEAN]
    BY DEF Init, NoJoin, NoTick
  <2>7. /\ pending \in [Rooms -> {"none", "waits", "due", "overdue"}]
        /\ confirmed \in [Rooms -> {"none", "present", "absent"}]
        /\ issued \in [Rooms -> BOOLEAN]
    BY DEF Init
  <2> QED BY <2>2, <2>3, <2>4, <2>5, <2>6, <2>7 DEF TypeOK
<1>3. CloseWalk(Fresh) = {} /\ Fresh.joined = {}
  BY DEF Fresh, CloseWalk
<1>4. Matched /\ Unopened /\ Walked
  BY <1>1, <1>3 DEF Matched, Unopened, Walked
<1>5. Leased /\ FanListed
  BY <1>1 DEF Leased, FanListed, NoRecord, Sessions
<1>6. Marked
  BY <1>1 DEF Marked
<1>7. DepartureIsOwed
  BY <1>1, <1>3 DEF DepartureIsOwed, Vacated
<1> QED BY <1>2, <1>4, <1>5, <1>6, <1>7 DEF Inv

\* Every step keeps it.
LEMMA NextInv == Inv /\ [Next]_vars => Inv'
<1> SUFFICES ASSUME Inv, [Next]_vars PROVE Inv'
  OBVIOUS
<1>1. ASSUME NEW s \in Sessions, SessionStep(s) PROVE Inv'
  <2>1. CASE Open(s)
    BY <2>1, OpenKeeps
  <2>2. CASE Register(s) \/ LeaseLapses(s)
    BY <2>2, LeaseKeeps
  <2>3. CASE \E r \in Rooms : JoinRoom(s, r)
    BY <2>3, JoinKeeps
  <2>4. CASE \E r \in Rooms : LeaveRoom(s, r)
    BY <2>4, LeaveKeeps
  <2>5. CASE Greet(s) \/ Joined(s)
    BY <2>5, GreetKeeps
  <2>6. CASE ClientCloses(s)
    BY <2>6, ClientClosesKeeps
  <2>7. CASE Close(s)
    BY <2>7, CloseKeeps
  <2>8. CASE WalkOn(s)
    BY <2>8, WalkOnKeeps
  <2>9. CASE UnregisterLost(s)
    BY <2>9, UnregisterLostKeeps
  <2> QED BY <1>1, <2>1, <2>2, <2>3, <2>4, <2>5, <2>6, <2>7, <2>8, <2>9 DEF SessionStep
<1>2. CASE (\E r \in Rooms : TimePasses(r)) \/ AlarmLost \/ RearmNet \/ Restart
  BY <1>2, ClockKeeps
<1>3. CASE \E r \in Rooms : HandlePresence(r)
  BY <1>3, PresenceKeeps
<1>4. CASE AlarmRings
  <2>1. {r \in Rooms : pending[r] \in {"due", "overdue"}} \in SUBSET Rooms
    OBVIOUS
  <2>2. TickRuns({r \in Rooms : pending[r] \in {"due", "overdue"}},
                 \E r \in Rooms : pending[r] = "waits", FALSE)
    BY <1>4 DEF AlarmRings
  <2>3. (\E r \in Rooms : pending[r] = "waits") \in BOOLEAN
    OBVIOUS
  <2> QED BY <2>1, <2>2, <2>3, TickKeeps
<1>5. CASE TickResumes
  <2>1. tick.due \in SUBSET Rooms /\ tick.next \in BOOLEAN /\ alarm \in BOOLEAN
    BY DEF Inv, TypeOK
  <2>2. TickRuns(tick.due, tick.next, alarm)
    BY <1>5 DEF TickResumes
  <2> QED BY <2>1, <2>2, TickKeeps
<1>6. CASE FanOut
  BY <1>6, FanOutKeeps
<1>7. CASE FannedOut
  BY <1>7, FannedOutKeeps
<1>8. CASE UNCHANGED vars
  <2>1. UNCHANGED <<cast, conn, rec, join, walk, pending, alarm, tick, confirmed, fan,
                    own, issued, ungreeted, lost>>
    BY <1>8 DEF vars, hub, history
  <2>2. TypeOK'
    BY <2>1 DEF Inv, TypeOK
  <2>3. Matched' /\ Leased' /\ Unopened' /\ FanListed' /\ Walked' /\ Marked'
    BY <2>1 DEF Inv, Matched, Leased, Unopened, FanListed, Walked, Marked
  <2>4. DepartureIsOwed'
    BY <2>1 DEF Inv, DepartureIsOwed, Vacated, Signalled, Handled
  <2> QED BY <2>2, <2>3, <2>4 DEF Inv
<1> QED BY <1>1, <1>2, <1>3, <1>4, <1>5, <1>6, <1>7, <1>8 DEF Next

\* The invariant holds of every behaviour of the hub.
THEOREM InvHolds == Spec => []Inv
BY InitInv, NextInv, PTL DEF Spec

\* Every piece of state has its type, and no record lists a room both as joined
\* and as left (RoomRecord).
THEOREM TypeCorrect == Spec => []TypeOK
<1>1. Inv => TypeOK
  BY DEF Inv
<1> QED BY <1>1, InvHolds, PTL

\* No departure is missed, whatever closes, losses, lapses and evictions come in
\* whatever order (maybe_notify_peer_left, arm_lapsed_departures,
\* run_departure_debounce_alarm).
THEOREM NoDepartureIsMissed == Spec => []DepartureIsOwed
<1>1. Inv => DepartureIsOwed
  BY DEF Inv
<1> QED BY <1>1, InvHolds, PTL

\* An absence is answered only of a departure pushed since the last join
\* (presence_answer, write_confirmed_gone).
THEOREM AbsencesAreConfirmed == Spec => []AbsenceIsConfirmed
<1>1. Inv => AbsenceIsConfirmed
  BY DEF Inv, Marked, AbsenceIsConfirmed, ReadsAbsent
<1> QED BY <1>1, InvHolds, PTL

-----------------------------------------------------------------------------
(* What a push may say *)

Quiet == \A r \in Rooms : issued'[r] => issued[r]

Unseated ==
    \A r \in Rooms : ~issued[r] /\ issued'[r] =>
       \A s \in Sessions : conn[s] = "open" /\ r \in own[s].joined => r \in lost[s]

\* A push that follows a look is of a room no seated owner holds.
LEMMA LookUnseats ==
    ASSUME Inv, NEW R, NEW N, NEW A, Relisted(R, N, A),
           \A s \in Sessions : conn[s] = "open" => R[s] = rec[s],
           NEW I, issued' = Issued(I), \A r \in I : r \in A \/ ~Occupied(N, r)
    PROVE  Unseated
<1> SUFFICES ASSUME NEW r \in Rooms, ~issued[r], issued'[r],
                    NEW s \in Sessions, conn[s] = "open", r \in own[s].joined, r \notin lost[s]
             PROVE  FALSE
  BY DEF Unseated
<1>1. r \in I
  BY DEF Issued
<1>2. Occupied(N, r) /\ r \notin A
  BY SeatedIsSeen DEF Inv
<1> QED BY <1>1, <1>2

\* The push of a close's walk, in place of an arm.
LEMMA DepartsUnseats ==
    ASSUME Inv, NEW s \in Sessions, NEW rooms, NEW R \in Tables, Departs(s, rooms, R),
           \A t \in Sessions : conn[t] = "open" => R[t] = rec[t]
    PROVE  Unseated
<1>1. PICK done \in SUBSET rooms :
          \E pushed \in Unstored({r \in done : ~Occupied(Looked(R, done), r)} \cup LookArms(R, done)) :
              issued' = Issued(pushed)
  BY DEF Departs
<1> DEFINE arms == {r \in done : ~Occupied(Looked(R, done), r)} \cup LookArms(R, done)
<1>2. PICK pushed \in Unstored(arms) : issued' = Issued(pushed)
  BY <1>1
<1>3. pushed \in SUBSET arms
  BY UnstoredIsArmed
<1>4. \A r \in pushed : r \in LookArms(R, done) \/ ~Occupied(Looked(R, done), r)
  BY <1>3
<1>5. Relisted(R, Looked(R, done), LookArms(R, done))
  BY LookRelists
<1> HIDE DEF arms
<1> QED BY <1>2, <1>4, <1>5, LookUnseats

\* The push of the alarm handler.
LEMMA TickUnseats ==
    ASSUME Inv, NEW list, NEW next, NEW set, TickRuns(list, next, set)
    PROVE  Unseated
<1>1. PICK done \in SUBSET list :
        \E pushed \in Unstored(LookArms(rec, done)) :
            issued' = Issued(StillEmpty(Looked(rec, done), done) \cup pushed)
  BY DEF TickRuns
<1>2. PICK pushed \in Unstored(LookArms(rec, done)) :
          issued' = Issued(StillEmpty(Looked(rec, done), done) \cup pushed)
  BY <1>1
<1>3. pushed \in SUBSET LookArms(rec, done)
  BY UnstoredIsArmed
<1>4. \A r \in StillEmpty(Looked(rec, done), done) \cup pushed :
          r \in LookArms(rec, done) \/ ~Occupied(Looked(rec, done), r)
  BY <1>3 DEF StillEmpty
<1>5. rec \in Tables
  BY DEF Inv, TypeOK, Tables
<1>6. Relisted(rec, Looked(rec, done), LookArms(rec, done))
  BY <1>5, LookRelists
<1> QED BY <1>2, <1>4, <1>6, LookUnseats

\* The push of a listing.
LEMMA ListingUnseats ==
    ASSUME Inv, NEW pushed \in Unstored(LapsedDepartures(rec)), issued' = Issued(pushed)
    PROVE  Unseated
<1>1. rec \in Tables
  BY DEF Inv, TypeOK, Tables
<1>2. Relisted(rec, Listed(rec), LapsedDepartures(rec))
  BY <1>1, ListingRelists
<1>3. pushed \in SUBSET LapsedDepartures(rec)
  BY UnstoredIsArmed
<1> QED BY <1>2, <1>3, LookUnseats

\* No step announces the departure of a seated owner.
LEMMA NextUnseats == Inv /\ [Next]_vars => Unseated
<1> SUFFICES ASSUME Inv, [Next]_vars PROVE Unseated
  OBVIOUS
<1>0. Quiet => Unseated
  BY DEF Quiet, Unseated
<1>1. ASSUME NEW s \in Sessions, SessionStep(s) PROVE Unseated
  <2>1. CASE Close(s)
    <3> DEFINE R == [rec EXCEPT ![s] = NoRecord]
    <3>1. R \in Tables
      BY NoRecordTyped DEF Inv, TypeOK, Tables
    <3>2. \A t \in Sessions : conn[t] = "open" => R[t] = rec[t]
      BY <2>1 DEF Close, Inv, TypeOK
    <3>3. Departs(s, CloseWalk(rec[s]), R)
      BY <2>1 DEF Close
    <3> HIDE DEF R
    <3> QED BY <3>1, <3>2, <3>3, DepartsUnseats
  <2>2. CASE WalkOn(s)
    <3>1. rec \in Tables
      BY DEF Inv, TypeOK, Tables
    <3>2. Departs(s, walk[s], rec)
      BY <2>2 DEF WalkOn
    <3> QED BY <3>1, <3>2, DepartsUnseats
  <2>3. CASE \E r \in Rooms : JoinRoom(s, r)
    <3>1. Quiet
      BY <2>3 DEF JoinRoom, Quiet, Inv, TypeOK
    <3> QED BY <1>0, <3>1
  <2>4. CASE ~Close(s) /\ ~WalkOn(s) /\ ~(\E r \in Rooms : JoinRoom(s, r))
    <3>1. issued' = issued
      BY <1>1, <2>4 DEF SessionStep, Open, Register, LeaveRoom, Greet, Joined, ClientCloses,
                        UnregisterLost, LeaseLapses, history, hub
    <3> QED BY <1>0, <3>1 DEF Quiet
  <2> QED BY <2>1, <2>2, <2>3, <2>4
<1>2. CASE (\E r \in Rooms : TimePasses(r)) \/ AlarmLost \/ RearmNet \/ Restart \/ FannedOut
           \/ UNCHANGED vars
  <2>1. issued' = issued
    BY <1>2 DEF TimePasses, AlarmLost, RearmNet, Restart, FannedOut, vars, history
  <2> QED BY <1>0, <2>1 DEF Quiet
<1>3. CASE (\E r \in Rooms : HandlePresence(r)) \/ FanOut
  <2>1. \E pushed \in Unstored(LapsedDepartures(rec)) : issued' = Issued(pushed)
    BY <1>3 DEF HandlePresence, FanOut
  <2> QED BY <2>1, ListingUnseats
<1>4. CASE AlarmRings
  BY <1>4, TickUnseats DEF AlarmRings
<1>5. CASE TickResumes
  BY <1>5, TickUnseats DEF TickResumes
<1> QED BY <1>1, <1>2, <1>3, <1>4, <1>5 DEF Next

\* The peer of a seated owner is never told that it left: a flap that rejoined
\* inside the window, or a second session, is seen by the look before the push,
\* at every point where a push may be made (departure_push_due).
THEOREM NoSeatedOwnerIsAnnounced == Spec => SeatedIsNotAnnounced
<1>1. Inv /\ [Next]_vars =>
        [\A r \in Rooms : ~issued[r] /\ issued'[r] =>
          \A s \in Sessions : conn[s] = "open" /\ r \in own[s].joined => r \in lost[s]]_vars
  BY NextUnseats DEF Unseated
<1> QED BY <1>1, InvHolds, PTL DEF Spec, SeatedIsNotAnnounced
=============================================================================
