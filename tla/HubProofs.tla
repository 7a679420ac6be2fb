------------------------------- MODULE HubProofs -------------------------------
(***************************************************************************)
(* Proofs about one hub and a session behind it: its mailbox (Mailbox),    *)
(* what its owner hears of a peer (PeerTold), and the heartbeat of the     *)
(* session a client holds (Heartbeat), each for any value of its           *)
(* constants.                                                              *)
(***************************************************************************)
EXTENDS Mailbox, MailboxRowsProofs, PeerTold, Heartbeat, SequenceTheorems

-----------------------------------------------------------------------------
(* The mailbox.  The inductive invariant is Sound of MailboxRowsProofs,    *)
(* which every operation keeps.                                            *)

\* A hub is born sound (SCHEMA: no rows, counters at zero).
LEMMA InitSound == Init => Sound(mb)
BY EmptySound DEF Init

\* Every step of a sound hub leaves it sound, its rows moved forward.
LEMMA NextSound ==
    ASSUME Sound(mb), Next
    PROVE  Sound(mb') /\ Forward(mb, mb')
<1>1. ASSUME NEW T \in Takeable(mb)
      PROVE  Sound(TakeOwedDue(mb, T)) /\ Forward(mb, TakeOwedDue(mb, T))
  BY TakeForward
<1>2. ASSUME NEW id \in Ids, NEW origin \in Origins, NEW body \in Bodies,
             NEW retry \in BOOLEAN, HandleInsert(id, origin, body, retry)
      PROVE  Sound(mb') /\ Forward(mb, mb')
  <2>1. PICK T \in Takeable(mb) : mb' = Insert(TakeOwedDue(mb, T), id, origin, body, retry)
    BY <1>2 DEF HandleInsert
  <2>2. Sound(mb') /\ Forward(TakeOwedDue(mb, T), mb')
    BY <1>1, <2>1, InsertSound
  <2> QED
    BY <2>2, AfterTake
<1>3. ASSUME HandleList PROVE Sound(mb') /\ Forward(mb, mb')
  BY <1>1, <1>3 DEF HandleList
<1>4. ASSUME NEW ids \in SUBSET Ids, HandleAck(ids)
      PROVE  Sound(mb') /\ Forward(mb, mb')
  <2>1. PICK T \in Takeable(mb) : mb' = Acknowledge(TakeOwedDue(mb, T), ids)
    BY <1>4 DEF HandleAck
  <2>2. Sound(mb') /\ Forward(TakeOwedDue(mb, T), mb')
    BY <1>1, <2>1, AckSound
  <2> QED
    BY <2>2, AfterTake
<1>5. ASSUME NEW D \in SUBSET Done, HandleArchiveDone(D)
      PROVE  Sound(mb') /\ Forward(mb, mb')
  BY <1>5, DoneSound DEF HandleArchiveDone
<1>6. ASSUME NEW id \in Ids, Age(id) PROVE Sound(mb') /\ Forward(mb, mb')
  BY <1>6, AgeSound DEF Age
<1> QED
  BY <1>2, <1>3, <1>4, <1>5, <1>6 DEF Next

\* The inductive invariant of the mailbox: every hub, of any size, is sound
\* after any sequence of operations.
THEOREM Soundness == Spec => []Sound(mb)
<1>1. Sound(mb) /\ [Next]_mb => Sound(mb)'
  <2> SUFFICES ASSUME Sound(mb), [Next]_mb PROVE Sound(mb')
    BY DEF Sound, RowsSound, RowsExact, BytesExact, Bounded, HeldIds, LiveIds, ByteUnits
  <2>1. CASE Next
    BY <2>1, NextSound
  <2>2. CASE UNCHANGED mb
    BY <2>2
  <2> QED
    BY <2>1, <2>2
<1> QED
  BY <1>1, InitSound, PTL DEF Spec

\* The type invariant: mailbox_rows and mailbox_counters keep their types.
THEOREM TypeCorrect == Spec => []TypeOK
<1>1. Sound(mb) => TypeOK
  BY DEF Sound, TypeOK
<1> QED
  BY <1>1, Soundness, PTL

\* The counters never drift (E1, E9): rows_held and bytes_held are the number
\* and the bytes of the live rows, however the operations follow one another.
THEOREM CountersNeverDrift == Spec => []CountersExact
<1>1. Sound(mb) => CountersExact
  BY DEF Sound, CountersExact
<1> QED
  BY <1>1, Soundness, PTL

\* The bound of E4, checked on the counters, binds what the hub holds.
THEOREM BoundsBind == Spec => []WithinBounds
<1>1. Sound(mb) => WithinBounds
  BY DEF Sound, WithinBounds
<1> QED
  BY <1>1, Soundness, PTL

\* A row the archive was not told of stays owed (E9, E11, E12).
THEOREM OwedKept == Spec => []OwedUntilConfirmed
<1>1. Sound(mb) => OwedUntilConfirmed
  BY HeldIsSound DEF OwedUntilConfirmed, HeldIds, RowSound
<1> QED
  BY <1>1, Soundness, PTL

\* A body is dropped only from an acknowledged row some version of which was
\* confirmed (the CASE of the acknowledgment's UPDATE and of archive_done's).
THEOREM BodyKept == Spec => []BodyUntilArchived
<1>1. Sound(mb) => BodyUntilArchived
  BY HeldIsSound DEF BodyUntilArchived, HeldIds, RowSound
<1> QED
  BY <1>1, Soundness, PTL

\* Version 1 is the insert and 2 the acknowledgment, never a third.
THEOREM VersionNamesChange == Spec => []VersionIsChange
<1>1. Sound(mb) => VersionIsChange
  BY HeldIsSound DEF VersionIsChange, HeldIds, RowSound
<1> QED
  BY <1>1, Soundness, PTL

\* No operation makes a row live again, gives it another origin or takes it
\* away before it is acknowledged.
THEOREM MovesForward == Spec => RowsMoveForward
<1>1. Sound(mb) /\ [Next]_mb
        => [\A id \in HeldIds(mb) : RowMovesForward(mb.rows[id], mb'.rows[id])]_mb
  BY NextSound DEF Forward
<1> QED
  BY <1>1, Soundness, PTL DEF Spec, RowsMoveForward

-----------------------------------------------------------------------------
(* The heartbeat: its state has its type *)

SessionRow == Session(OldPing)
AlarmRow == [set : BOOLEAN, in : -Grace - 1 .. Interval, lost : BOOLEAN]
FrameRow == [kind : Frames, age : 0 .. Delay]

\* What ensure_heartbeat makes of a session is nothing, or a ping.
WokenBy(e, a, i) ==
    \/ e.att = a /\ e.inner = i /\ e.ping = <<>>
    \/ /\ a.on /\ a.transport = "websocket"
       /\ e.att = Pinged(a) /\ e.inner = (IF i.on THEN Pinged(i) ELSE i) /\ e.ping = << 0 >>

\* The values a session and its alarm are set to.
LEMMA RowsTyped ==
    /\ Blank \in SessionRow /\ Absent \in SessionRow /\ NoAlarm \in AlarmRow
    /\ ArmIn(Interval) \in AlarmRow
    /\ \A s \in SessionRow : Pinged(s) \in SessionRow
    /\ \A n \in 1 .. Interval : ArmIn(n) \in AlarmRow
<1>1. Never \in Never .. Timeout /\ 0 \in Never .. Timeout /\ Never \in Never .. OldPing
      /\ 0 \in Never .. OldPing /\ \A n \in 0 .. Interval : n \in -Grace - 1 .. Interval
  BY HeartbeatTimes DEF Never, OldPing
<1>2. Blank \in SessionRow
  BY <1>1 DEF Blank, SessionRow, Session, Transports
<1>3. Absent \in SessionRow
  BY <1>2 DEF Absent, SessionRow, Session
<1>4. \A s \in SessionRow : Pinged(s) \in SessionRow
  BY <1>1 DEF Pinged, SessionRow, Session
<1>5. \A n \in 0 .. Interval : ArmIn(n) \in AlarmRow
  BY <1>1 DEF ArmIn, AlarmRow
<1>6. Interval \in 0 .. Interval /\ 0 \in 0 .. Interval /\ 1 .. Interval \subseteq 0 .. Interval
  BY HeartbeatTimes
<1>7. NoAlarm \in AlarmRow
  BY <1>1, <1>6 DEF NoAlarm, AlarmRow
<1> QED
  BY <1>2, <1>3, <1>4, <1>5, <1>6, <1>7

\* ensure_heartbeat keeps the types, writes a ping to both copies or to none,
\* and sends one whenever the last is overdue.
LEMMA EnsureWakes ==
    ASSUME NEW a \in SessionRow, NEW i \in SessionRow, NEW al \in AlarmRow
    PROVE  /\ WokenBy(Ensure(a, i, al), a, i)
           /\ Ensure(a, i, al).att \in SessionRow /\ Ensure(a, i, al).inner \in SessionRow
           /\ Ensure(a, i, al).alarm \in AlarmRow
           /\ a.on /\ a.transport = "websocket" /\ Overdue(a) => Ensure(a, i, al).ping = << 0 >>
           /\ Ensure(a, i, al) = [att |-> Ensure(a, i, al).att, inner |-> Ensure(a, i, al).inner,
                                  alarm |-> Ensure(a, i, al).alarm, ping |-> Ensure(a, i, al).ping]
<1> DEFINE repair == IF a.on /\ a.transport = "websocket" THEN HeartbeatRepair(a, al) ELSE "none"
           e == Ensure(a, i, al)
<1>1. CASE repair = "ping"
  <2>1. e = [att |-> Pinged(a), inner |-> IF i.on THEN Pinged(i) ELSE i,
             alarm |-> ArmIn(Interval), ping |-> << 0 >>]
    BY <1>1 DEF Ensure
  <2>2. a.on /\ a.transport = "websocket"
    BY <1>1
  <2> QED
    BY <2>1, <2>2, RowsTyped DEF WokenBy
<1>2. CASE repair = "arm"
  <2>1. e = [att |-> a, inner |-> i, alarm |-> ArmIn(Interval - a.lastPing), ping |-> <<>>]
    BY <1>2 DEF Ensure
  <2>2. HeartbeatRepair(a, al) = "arm" /\ ~Overdue(a)
    BY <1>2 DEF HeartbeatRepair
  <2>3. a.lastPing # Never /\ a.lastPing < Interval
    BY <2>2 DEF HeartbeatRepair
  <2>4. Interval - a.lastPing \in 1 .. Interval
    BY <2>3, HeartbeatTimes DEF SessionRow, Session, Never, OldPing
  <2> QED
    BY <2>1, <2>2, <2>4, RowsTyped DEF WokenBy
<1>3. CASE repair \notin {"ping", "arm"}
  <2>1. e = [att |-> a, inner |-> i, alarm |-> al, ping |-> <<>>]
    BY <1>3 DEF Ensure
  <2>2. ~(a.on /\ a.transport = "websocket" /\ Overdue(a))
    BY <1>3 DEF HeartbeatRepair
  <2> QED
    BY <2>1, <2>2 DEF WokenBy
<1> QED
  BY <1>1, <1>2, <1>3

Wakes(e, a, i) ==
    /\ WokenBy(e, a, i)
    /\ e.att \in SessionRow /\ e.inner \in SessionRow
    /\ a.on /\ a.transport = "websocket" /\ Overdue(a) => e.ping = << 0 >>

\* The four things a frame does once the session is awake.
Dispatched(kind, e) ==
    \/ /\ kind = "pong"
       /\ att' = [e.att EXCEPT !.awaiting = Never]
       /\ inner' = [e.inner EXCEPT !.awaiting = Never]
    \/ /\ kind = "upgrade"
       /\ inner' = [e.inner EXCEPT !.transport = "websocket", !.awaiting = Never, !.lastPing = 0]
       /\ att' = inner'
    \/ kind = "event" /\ inner' = e.inner /\ att' = e.inner
    \/ kind \notin {"pong", "upgrade", "event"} /\ inner' = e.inner /\ att' = e.att

\* websocket_message: a repair of the heartbeat, then what the frame says.
LEMMA MessageDoes ==
    ASSUME HeartbeatTypeOK, WebsocketMessage
    PROVE  /\ alarm' \in AlarmRow /\ att.on /\ up # <<>> /\ up' = Tail(up)
           /\ UNCHANGED <<tick, client, heard, nudged, warmUp, ended>>
           /\ \E e : /\ Wakes(e, att, Rehydrated(inner, att)) /\ Sent(e.ping)
                     /\ Dispatched(Head(up).kind, e)
<1> DEFINE woken == Ensure(att, Rehydrated(inner, att), alarm)
           kind == Head(up).kind
<1>1. att \in SessionRow /\ Rehydrated(inner, att) \in SessionRow /\ alarm \in AlarmRow
  BY DEF HeartbeatTypeOK, SessionRow, AlarmRow, Rehydrated
<1>2. /\ Wakes(woken, att, Rehydrated(inner, att)) /\ woken.alarm \in AlarmRow
      /\ woken = [att |-> woken.att, inner |-> woken.inner, alarm |-> woken.alarm,
                  ping |-> woken.ping]
  BY <1>1, EnsureWakes DEF Wakes
<1>3. PICK w : w = woken
  OBVIOUS
<1>4. /\ Wakes(w, att, Rehydrated(inner, att)) /\ w.alarm \in AlarmRow
      /\ w = [att |-> w.att, inner |-> w.inner, alarm |-> w.alarm, ping |-> w.ping]
  BY <1>2, <1>3
<1>5. /\ att.on /\ up # <<>> /\ up' = Tail(up) /\ Sent(w.ping)
      /\ UNCHANGED <<tick, client, heard, nudged, warmUp, ended>>
      /\ LET done == CASE kind = "pong" -> NotePong(w)
                       [] kind = "upgrade" -> Committed(w)
                       [] kind = "event" -> Persisted(w)
                       [] OTHER -> w
         IN  att' = done.att /\ inner' = done.inner /\ alarm' = done.alarm
  BY <1>3 DEF WebsocketMessage
<1>6. PICK a, i, al, p : w = [att |-> a, inner |-> i, alarm |-> al, ping |-> p]
  BY <1>4
<1>7. w.att = a /\ w.inner = i /\ w.alarm = al /\ w.ping = p
  BY <1>6
<1>8. CASE kind = "pong"
  <2>1. NotePong(w).att = [a EXCEPT !.awaiting = Never]
        /\ NotePong(w).inner = [i EXCEPT !.awaiting = Never] /\ NotePong(w).alarm = al
    BY <1>6 DEF NotePong
  <2> QED
    BY <1>4, <1>5, <1>7, <1>8, <2>1 DEF Dispatched
<1>9. CASE kind = "upgrade"
  <2>1. LET n == [i EXCEPT !.transport = "websocket", !.awaiting = Never, !.lastPing = 0]
        IN  Committed(w).att = n /\ Committed(w).inner = n /\ Committed(w).alarm = ArmIn(Interval)
    BY <1>6 DEF Committed
  <2> QED
    BY <1>4, <1>5, <1>7, <1>9, <2>1, RowsTyped DEF Dispatched
<1>10. CASE kind = "event"
  <2>1. Persisted(w).att = i /\ Persisted(w).inner = i /\ Persisted(w).alarm = al
    BY <1>6 DEF Persisted
  <2> QED
    BY <1>4, <1>5, <1>7, <1>10, <2>1 DEF Dispatched
<1>11. CASE kind \notin {"pong", "upgrade", "event"}
  BY <1>4, <1>5, <1>7, <1>11 DEF Dispatched
<1> QED
  BY <1>8, <1>9, <1>10, <1>11

\* A delivery of the hub: a repair, then the session is read back.
LEMMA BroadcastDoes ==
    ASSUME HeartbeatTypeOK, Broadcast
    PROVE  /\ alarm' \in AlarmRow /\ att.on
           /\ UNCHANGED <<tick, client, heard, nudged, up, warmUp, ended>>
           /\ \E e : /\ Wakes(e, att, inner) /\ Sent(e.ping)
                     /\ inner' = Rehydrated(e.inner, e.att)
                     /\ att' = e.att \/ att' = inner'
<1> DEFINE woken == Ensure(att, inner, alarm)
<1>1. att \in SessionRow /\ inner \in SessionRow /\ alarm \in AlarmRow
  BY DEF HeartbeatTypeOK, SessionRow, AlarmRow
<1>2. /\ Wakes(woken, att, inner) /\ woken.alarm \in AlarmRow
      /\ woken = [att |-> woken.att, inner |-> woken.inner, alarm |-> woken.alarm,
                  ping |-> woken.ping]
  BY <1>1, EnsureWakes DEF Wakes
<1>3. PICK w : w = woken
  OBVIOUS
<1>4. PICK a, i, al, p : w = [att |-> a, inner |-> i, alarm |-> al, ping |-> p]
  BY <1>2, <1>3
<1>5. w.att = a /\ w.inner = i /\ w.alarm = al /\ w.ping = p
  BY <1>4
<1>6. PICK v : v = [w EXCEPT !.inner = Rehydrated(w.inner, w.att)]
  OBVIOUS
<1>7. v.att = a /\ v.inner = Rehydrated(i, a) /\ v.alarm = al /\ v.ping = p
  BY <1>4, <1>5, <1>6
<1>8. Persisted(v).att = v.inner
  BY <1>4, <1>6 DEF Persisted
<1>9. /\ \E e \in {v, Persisted(v)} : att' = e.att
      /\ inner' = v.inner /\ alarm' = v.alarm /\ Sent(v.ping) /\ att.on
      /\ UNCHANGED <<tick, client, heard, nudged, up, warmUp, ended>>
  BY <1>3, <1>6 DEF Broadcast
<1> QED
  BY <1>2, <1>3, <1>5, <1>7, <1>8, <1>9

\* A ping that is sent leaves a queue of pings.
LEMMA SentTyped ==
    ASSUME NEW d \in Seq(0 .. Delay), NEW p, p = <<>> \/ p = << 0 >>
    PROVE  d \o p \in Seq(0 .. Delay)
<1>1. <<>> \in Seq(0 .. Delay) /\ << 0 >> \in Seq(0 .. Delay)
  BY HeartbeatTimes
<1> QED
  BY <1>1, ConcatProperties

\* A queue of frames keeps its type at both ends.
LEMMA FramesTyped ==
    ASSUME NEW u \in Seq(FrameRow)
    PROVE  /\ u # <<>> => Tail(u) \in Seq(FrameRow)
           /\ \A kind \in Frames : Append(u, Frame(kind)) \in Seq(FrameRow)
<1>1. \A kind \in Frames : Frame(kind) \in FrameRow
  BY HeartbeatTimes DEF Frame, FrameRow
<1> QED
  BY <1>1

\* What awaits nothing, or begins its schedule, is a session still.
LEMMA SessionsTyped ==
    ASSUME NEW s \in SessionRow
    PROVE  /\ [s EXCEPT !.awaiting = Never] \in SessionRow
           /\ [s EXCEPT !.transport = "pending"] \in SessionRow
           /\ [s EXCEPT !.transport = "websocket", !.awaiting = Never, !.lastPing = 0] \in SessionRow
<1>1. Never \in Never .. Timeout /\ 0 \in Never .. OldPing
  BY HeartbeatTimes DEF Never, OldPing
<1> QED
  BY <1>1 DEF SessionRow, Session, Transports

\* The object's own steps keep the type.
LEMMA ObjectTyped ==
    ASSUME HeartbeatTypeOK,
           WarmUp \/ WsUpgrade \/ Evict \/ WebsocketMessage \/ Broadcast
    PROVE  HeartbeatTypeOK'
<1>0. /\ att \in SessionRow /\ inner \in SessionRow /\ alarm \in AlarmRow
      /\ down \in Seq(0 .. Delay) /\ up \in Seq(FrameRow)
      /\ tick \in Never .. Delay
      /\ client \in {"up", "dead"} /\ heard \in 0 .. Deadline /\ nudged \in BOOLEAN
      /\ warmUp \in BOOLEAN /\ ended \in Endings
  BY DEF HeartbeatTypeOK, SessionRow, AlarmRow, FrameRow
<1>s. SUFFICES /\ att' \in SessionRow /\ inner' \in SessionRow /\ alarm' \in AlarmRow
              /\ down' \in Seq(0 .. Delay) /\ up' \in Seq(FrameRow)
              /\ tick' \in Never .. Delay
              /\ client' \in {"up", "dead"} /\ heard' \in 0 .. Deadline /\ nudged' \in BOOLEAN
              /\ warmUp' \in BOOLEAN /\ ended' \in Endings
  BY DEF HeartbeatTypeOK, SessionRow, AlarmRow, FrameRow
<1>1. CASE WarmUp
  BY <1>0, <1>1, RowsTyped DEF WarmUp, clientVars
<1>2. CASE WsUpgrade
  BY <1>0, <1>2, RowsTyped, SessionsTyped DEF WsUpgrade, clientVars, Rehydrated
<1>3. CASE Evict
  <2>1. Never \in Never .. Delay
    BY HeartbeatTimes DEF Never
  <2> QED
    BY <1>0, <1>3, <2>1, RowsTyped DEF Evict, clientVars
<1>4. CASE WebsocketMessage
  <2>1. PICK e : /\ Wakes(e, att, Rehydrated(inner, att)) /\ Sent(e.ping)
                 /\ Dispatched(Head(up).kind, e)
    BY <1>4, MessageDoes
  <2>2. att' \in SessionRow /\ inner' \in SessionRow
    BY <2>1, SessionsTyped DEF Wakes, Dispatched
  <2>3. down' \in Seq(0 .. Delay)
    BY <1>0, <2>1, SentTyped DEF Wakes, WokenBy, Sent
  <2> QED
    BY <1>0, <1>4, <2>2, <2>3, MessageDoes, FramesTyped
<1>5. CASE Broadcast
  <2>1. PICK e : /\ Wakes(e, att, inner) /\ Sent(e.ping)
                 /\ inner' = Rehydrated(e.inner, e.att)
                 /\ att' = e.att \/ att' = inner'
    BY <1>5, BroadcastDoes
  <2>2. att' \in SessionRow /\ inner' \in SessionRow
    BY <2>1 DEF Wakes, Rehydrated
  <2>3. down' \in Seq(0 .. Delay)
    BY <1>0, <2>1, SentTyped DEF Wakes, WokenBy, Sent
  <2> QED
    BY <1>0, <1>5, <2>2, <2>3, BroadcastDoes
<1> QED
  BY <1>1, <1>2, <1>3, <1>4, <1>5

\* The steps that end a socket, and those of the alarm, keep the type.
LEMMA AlarmTyped ==
    ASSUME HeartbeatTypeOK,
           WebsocketClose \/ WebsocketError \/ AlarmFires \/ TickResumes \/ AlarmLost
    PROVE  HeartbeatTypeOK'
<1>0. /\ att \in SessionRow /\ inner \in SessionRow /\ alarm \in AlarmRow
      /\ down \in Seq(0 .. Delay) /\ up \in Seq(FrameRow)
      /\ tick \in Never .. Delay
      /\ client \in {"up", "dead"} /\ heard \in 0 .. Deadline /\ nudged \in BOOLEAN
      /\ warmUp \in BOOLEAN /\ ended \in Endings
  BY DEF HeartbeatTypeOK, SessionRow, AlarmRow, FrameRow
<1>s. SUFFICES /\ att' \in SessionRow /\ inner' \in SessionRow /\ alarm' \in AlarmRow
              /\ down' \in Seq(0 .. Delay) /\ up' \in Seq(FrameRow)
              /\ tick' \in Never .. Delay
              /\ client' \in {"up", "dead"} /\ heard' \in 0 .. Deadline /\ nudged' \in BOOLEAN
              /\ warmUp' \in BOOLEAN /\ ended' \in Endings
  BY DEF HeartbeatTypeOK, SessionRow, AlarmRow, FrameRow
<1>e. ASSUME NEW how \in Endings, Ends(how)
      PROVE  /\ att' \in SessionRow /\ inner' \in SessionRow
             /\ down' \in Seq(0 .. Delay) /\ up' \in Seq(FrameRow) /\ ended' \in Endings
  BY <1>0, <1>e, RowsTyped DEF Ends
<1>1. CASE WebsocketClose
  BY <1>0, <1>1, <1>e, RowsTyped DEF WebsocketClose, Endings
<1>2. CASE WebsocketError
  BY <1>0, <1>2, <1>e, RowsTyped DEF WebsocketError, Endings
<1>3. CASE AlarmFires
  <2>1. alarm' \in AlarmRow /\ UNCHANGED <<client, heard, nudged, warmUp>>
    BY <1>3, RowsTyped DEF AlarmFires, Rearmed
  <2>2. Never \in Never .. Delay /\ 0 \in Never .. Delay
    BY HeartbeatTimes DEF Never
  <2>3. CASE UNCHANGED <<inner, att, tick, ended, down, up>>
    BY <1>0, <2>1, <2>3
  <2>4. CASE Ends("ping timeout") /\ tick' = tick
    BY <1>0, <1>e, <2>1, <2>4 DEF Endings
  <2>5. CASE /\ att' = Pinged(att) /\ inner' = IF inner.on THEN Pinged(inner) ELSE inner
             /\ tick' \in {Never, 0} /\ Sent(<< 0 >>) /\ UNCHANGED <<ended, up>>
    BY <1>0, <2>1, <2>2, <2>5, RowsTyped, SentTyped DEF Sent
  <2>6. CASE /\ ended' = "send failed" /\ att' = Absent /\ up' = <<>> /\ down' = <<>>
             /\ UNCHANGED <<inner, tick>>
    <3>1. ended' \in Endings
      BY <2>6 DEF Endings
    <3> QED
      BY <1>0, <2>1, <2>6, <3>1, RowsTyped, EmptySeq
  <2> QED
    BY <1>3, <2>3, <2>4, <2>5, <2>6 DEF AlarmFires
<1>4. CASE TickResumes
  <2>1. Never \in Never .. Delay
    BY HeartbeatTimes DEF Never
  <2> QED
    BY <1>0, <1>4, <2>1, RowsTyped DEF TickResumes, clientVars
<1>5. CASE AlarmLost
  <2>1. [alarm EXCEPT !.lost = TRUE] \in AlarmRow
    BY <1>0 DEF AlarmRow
  <2> QED
    BY <1>0, <1>5, <2>1, RowsTyped DEF AlarmLost, clientVars
<1> QED
  BY <1>1, <1>2, <1>3, <1>4, <1>5

\* The client's steps keep the type.
LEMMA ClientTyped ==
    ASSUME HeartbeatTypeOK,
           \/ ClientHears \/ ClientNudges \/ ClientDies
           \/ \E kind \in {"upgrade", "event", "disconnect"} : ClientSends(kind)
    PROVE  HeartbeatTypeOK'
<1>0. /\ down \in Seq(0 .. Delay) /\ up \in Seq(FrameRow)
      /\ heard \in 0 .. Deadline /\ nudged \in BOOLEAN /\ client \in {"up", "dead"}
  BY DEF HeartbeatTypeOK, FrameRow
<1>s. SUFFICES /\ down' \in Seq(0 .. Delay) /\ up' \in Seq(FrameRow)
              /\ heard' \in 0 .. Deadline /\ nudged' \in BOOLEAN /\ client' \in {"up", "dead"}
              /\ UNCHANGED <<object, warmUp, ended>>
  BY DEF HeartbeatTypeOK, SessionRow, AlarmRow, FrameRow, object
<1>1. 0 \in 0 .. Deadline
  BY HeartbeatTimes DEF Deadline
<1>2. {"pong", "nudge", "upgrade", "event", "disconnect"} \subseteq Frames
  BY DEF Frames
<1>3. CASE ClientHears
  <2>1. down' \in Seq(0 .. Delay)
    BY <1>0, <1>3, HeadTailProperties DEF ClientHears
  <2> QED
    BY <1>0, <1>1, <1>2, <1>3, <2>1, FramesTyped DEF ClientHears
<1>4. CASE ClientNudges
  BY <1>0, <1>2, <1>4, FramesTyped DEF ClientNudges
<1>5. CASE ClientDies
  BY <1>0, <1>5, EmptySeq DEF ClientDies
<1>6. ASSUME NEW kind \in {"upgrade", "event", "disconnect"}, ClientSends(kind)
      PROVE  /\ down' \in Seq(0 .. Delay) /\ up' \in Seq(FrameRow)
             /\ heard' \in 0 .. Deadline /\ nudged' \in BOOLEAN /\ client' \in {"up", "dead"}
             /\ UNCHANGED <<object, warmUp, ended>>
  <2>1. kind \in Frames
    BY <1>2
  <2> QED
    BY <1>0, <1>1, <1>6, <2>1, FramesTyped DEF ClientSends
<1> QED
  BY <1>3, <1>4, <1>5, <1>6

\* An age that time adds to stays within its cap.
LEMMA CappedTyped ==
    ASSUME NEW cap \in Nat, NEW a \in Never .. cap
    PROVE  /\ Capped(a, cap) \in Never .. cap
           /\ a # Never => Capped(a, cap) \in 0 .. cap
           /\ a = Never <=> Capped(a, cap) = Never
BY DEF Capped, Never

Older(s) == [s EXCEPT !.awaiting = Capped(@, Timeout), !.lastPing = Capped(@, OldPing)]

\* What time does to a session.
LEMMA OlderTyped ==
    ASSUME NEW s \in SessionRow
    PROVE  /\ Older(s) \in SessionRow
           /\ Older(s).on = s.on /\ Older(s).transport = s.transport
           /\ Older(s).awaiting = Capped(s.awaiting, Timeout)
           /\ Older(s).lastPing = Capped(s.lastPing, OldPing)
<1>1. Timeout \in Nat /\ OldPing \in Nat
  BY HeartbeatTimes DEF OldPing
<1>2. s.awaiting \in Never .. Timeout /\ s.lastPing \in Never .. OldPing
  BY DEF SessionRow, Session
<1>3. Capped(s.awaiting, Timeout) \in Never .. Timeout /\ Capped(s.lastPing, OldPing) \in Never .. OldPing
  BY <1>1, <1>2, CappedTyped
<1> QED
  BY <1>3 DEF Older, SessionRow, Session

\* What a tick of the clock does to the frames and pings under way.
LEMMA TimeDoes ==
    ASSUME HeartbeatTypeOK, TimePasses
    PROVE  /\ Len(down') = Len(down) /\ Len(up') = Len(up)
           /\ \A n \in DOMAIN down : down'[n] = down[n] + 1
           /\ \A n \in DOMAIN up : up'[n].kind = up[n].kind /\ up'[n].age = up[n].age + 1
           /\ down' \in Seq(0 .. Delay) /\ up' \in Seq(FrameRow)
           /\ DOMAIN down' = DOMAIN down /\ DOMAIN up' = DOMAIN up
           /\ att' = Older(att) /\ inner' = Older(inner)
<1>1. down \in Seq(0 .. Delay) /\ up \in Seq(FrameRow) /\ Delay \in Nat
  BY HeartbeatTimes DEF HeartbeatTypeOK, FrameRow
<1>2. /\ \A n \in DOMAIN down : down[n] < Delay
      /\ \A n \in DOMAIN up : up[n].age < Delay
      /\ down' = [n \in DOMAIN down |-> down[n] + 1]
      /\ up' = [n \in DOMAIN up |-> [up[n] EXCEPT !.age = @ + 1]]
      /\ att' = Older(att) /\ inner' = Older(inner)
  BY DEF TimePasses, Older
<1>3. DOMAIN down = 1 .. Len(down) /\ DOMAIN up = 1 .. Len(up) /\ Len(down) \in Nat /\ Len(up) \in Nat
  BY <1>1
<1>4. \A n \in DOMAIN down : down[n] \in 0 .. Delay /\ down[n] + 1 \in 0 .. Delay
  BY <1>1, <1>2, <1>3
<1>5. \A n \in DOMAIN up : up[n] \in FrameRow
  BY <1>1, <1>3
<1>a. \A n \in DOMAIN up : up[n].age + 1 \in 0 .. Delay
  BY <1>1, <1>2, <1>5 DEF FrameRow
<1>6. \A n \in DOMAIN up : [up[n] EXCEPT !.age = @ + 1] \in FrameRow
  BY <1>5, <1>a DEF FrameRow
<1>7. \A n \in DOMAIN up : /\ [up[n] EXCEPT !.age = @ + 1].kind = up[n].kind
                           /\ [up[n] EXCEPT !.age = @ + 1].age = up[n].age + 1
  BY <1>5 DEF FrameRow
<1>8. down' \in Seq(0 .. Delay) /\ Len(down') = Len(down)
  BY <1>2, <1>3, <1>4
<1>9. up' \in Seq(FrameRow) /\ Len(up') = Len(up)
  BY <1>2, <1>3, <1>6
<1>10. \A n \in DOMAIN down : down'[n] = down[n] + 1
  BY <1>2
<1>11. \A n \in DOMAIN up : up'[n] = [up[n] EXCEPT !.age = @ + 1]
  BY <1>2
<1>12. DOMAIN down' = DOMAIN down /\ DOMAIN up' = DOMAIN up
  BY <1>2
<1> QED
  BY <1>2, <1>7, <1>8, <1>9, <1>10, <1>11, <1>12

\* Time keeps the type.
LEMMA TimeTyped ==
    ASSUME HeartbeatTypeOK, TimePasses
    PROVE  HeartbeatTypeOK'
<1>1. att \in SessionRow /\ inner \in SessionRow
  BY DEF HeartbeatTypeOK, SessionRow
<1>2. att' \in SessionRow /\ inner' \in SessionRow /\ down' \in Seq(0 .. Delay) /\ up' \in Seq(FrameRow)
  BY <1>1, TimeDoes, OlderTyped
<1>3. tick' \in Never .. Delay
  BY CappedTyped, HeartbeatTimes DEF HeartbeatTypeOK, TimePasses
<1>4. heard' \in 0 .. Deadline
  <2>1. heard \in 0 .. Deadline /\ heard' = Capped(heard, Deadline)
    BY DEF HeartbeatTypeOK, TimePasses
  <2>2. Deadline \in Nat
    BY HeartbeatTimes DEF Deadline
  <2> QED
    BY <2>1, <2>2 DEF Capped, Never
<1>5. alarm' \in AlarmRow
  <2>1. alarm \in AlarmRow
    BY DEF HeartbeatTypeOK, AlarmRow
  <2>2. CASE ~(alarm.set /\ alarm.in > -Grace - 1)
    BY <2>1, <2>2 DEF TimePasses
  <2>3. CASE alarm.set /\ alarm.in > -Grace - 1
    <3>1. alarm.in - 1 \in -Grace - 1 .. Interval
      BY <2>1, <2>3, HeartbeatTimes DEF AlarmRow
    <3>2. alarm' = [alarm EXCEPT !.in = @ - 1]
      BY <2>3 DEF TimePasses
    <3> QED
      BY <2>1, <3>1, <3>2 DEF AlarmRow
  <2> QED
    BY <2>2, <2>3
<1> QED
  BY <1>2, <1>3, <1>4, <1>5 DEF HeartbeatTypeOK, TimePasses, SessionRow, AlarmRow, FrameRow

\* Every step of the heartbeat keeps the type.
LEMMA HeartbeatTypeStep ==
    HeartbeatTypeOK /\ [HeartbeatNext]_heartbeatVars => HeartbeatTypeOK'
<1> SUFFICES ASSUME HeartbeatTypeOK, [HeartbeatNext]_heartbeatVars PROVE HeartbeatTypeOK'
  OBVIOUS
<1>1. CASE UNCHANGED heartbeatVars
  BY <1>1 DEF heartbeatVars, object, clientVars, HeartbeatTypeOK
<1>2. CASE HeartbeatNext
  BY <1>2, ObjectTyped, AlarmTyped, ClientTyped, TimeTyped DEF HeartbeatNext
<1> QED
  BY <1>1, <1>2

\* A session nothing was heard of yet has the type.
LEMMA HeartbeatTypeInit == HeartbeatInit => HeartbeatTypeOK
<1> SUFFICES ASSUME HeartbeatInit PROVE HeartbeatTypeOK
  OBVIOUS
<1>1. att \in SessionRow /\ inner \in SessionRow /\ alarm \in AlarmRow
  BY RowsTyped DEF HeartbeatInit
<1>2. tick \in Never .. Delay /\ heard \in 0 .. Deadline
  BY HeartbeatTimes DEF HeartbeatInit, Never, Deadline
<1> QED
  BY <1>1, <1>2, EmptySeq DEF HeartbeatInit, HeartbeatTypeOK, SessionRow, AlarmRow, Endings

\* The type of the heartbeat: the session in memory and on its socket, the
\* alarm, the client and what is under way between them.
THEOREM HeartbeatTyped == HeartbeatSpec => []HeartbeatTypeOK
BY HeartbeatTypeInit, HeartbeatTypeStep, PTL DEF HeartbeatSpec

-----------------------------------------------------------------------------
(* The heartbeat: who answers is kept *)

\* A ping sent k ago is still on its way, or its answer is: what an unanswered
\* ping of a client that is up comes to.
Answerable(k, d, u) ==
    \/ \E n \in DOMAIN d : d[n] = k
    \/ \E n \in DOMAIN u : u[n].kind = "pong" /\ k <= Delay + u[n].age

AwaitedBy(s) == s.awaiting # Never => Answerable(s.awaiting, down, up)

\* The inductive invariant: the socket judged is one that has not ended, and
\* what either copy of the session awaits will come.
AnswersDue ==
    /\ AnsweringIsKept
    /\ att.on => ended = "no"
    /\ client = "up" /\ ended = "no" => AwaitedBy(att) /\ AwaitedBy(inner)

\* A ping that is sent stands behind those under way.
LEMMA PingsKept ==
    ASSUME NEW d \in Seq(0 .. Delay), NEW p, p = <<>> \/ p = << 0 >>
    PROVE  /\ \A n \in DOMAIN d : n \in DOMAIN (d \o p) /\ (d \o p)[n] = d[n]
           /\ p = << 0 >> => \E n \in DOMAIN (d \o p) : (d \o p)[n] = 0
<1>1. <<>> \in Seq(0 .. Delay) /\ << 0 >> \in Seq(0 .. Delay)
  BY HeartbeatTimes
<1>2. /\ d \o p \in Seq(0 .. Delay) /\ Len(d \o p) = Len(d) + Len(p)
      /\ \A n \in 1 .. Len(d) + Len(p) : (d \o p)[n] = IF n <= Len(d) THEN d[n] ELSE p[n - Len(d)]
  <2>1. p \in Seq(0 .. Delay)
    BY <1>1
  <2> QED
    BY <2>1, ConcatProperties
<1>3. Len(p) \in Nat /\ Len(d) \in Nat /\ (p = << 0 >> => Len(p) = 1 /\ p[1] = 0)
  BY <1>1
<1>4. \A n \in DOMAIN d : n \in DOMAIN (d \o p) /\ (d \o p)[n] = d[n]
  BY <1>2, <1>3
<1>5. ASSUME p = << 0 >> PROVE Len(d) + 1 \in DOMAIN (d \o p) /\ (d \o p)[Len(d) + 1] = 0
  BY <1>2, <1>3, <1>5
<1> QED
  BY <1>4, <1>5

\* A ping that is sent takes no answer away, and may itself be awaited.
LEMMA PingAnswerable ==
    ASSUME NEW d \in Seq(0 .. Delay), NEW u, NEW p, p = <<>> \/ p = << 0 >>
    PROVE  /\ \A k : Answerable(k, d, u) => Answerable(k, d \o p, u)
           /\ p = << 0 >> => Answerable(0, d \o p, u)
BY PingsKept DEF Answerable

\* A frame that is no pong answers nothing.
LEMMA TailAnswerable ==
    ASSUME NEW d, NEW u \in Seq(FrameRow), u # <<>>, Head(u).kind # "pong",
           NEW k, Answerable(k, d, u)
    PROVE  Answerable(k, d, Tail(u))
<1>1. CASE \E n \in DOMAIN d : d[n] = k
  BY <1>1 DEF Answerable
<1>2. ASSUME NEW n \in DOMAIN u, u[n].kind = "pong", k <= Delay + u[n].age
      PROVE  Answerable(k, d, Tail(u))
  <2>1. n # 1 /\ n \in 1 .. Len(u) /\ Len(u) \in Nat
    BY <1>2
  <2>2. n - 1 \in 1 .. Len(Tail(u)) /\ Tail(u)[n - 1] = u[n]
    BY <2>1, HeadTailProperties
  <2>3. n - 1 \in DOMAIN Tail(u)
    BY <2>2, HeadTailProperties
  <2> QED
    BY <1>2, <2>2, <2>3 DEF Answerable
<1> QED
  BY <1>1, <1>2 DEF Answerable

\* A client that hears a ping answers it.
LEMMA HearsAnswerable ==
    ASSUME NEW d \in Seq(0 .. Delay), d # <<>>, NEW u \in Seq(FrameRow),
           NEW k \in Int, Answerable(k, d, u)
    PROVE  Answerable(k, Tail(d), Append(u, Frame("pong")))
<1> DEFINE v == Append(u, Frame("pong"))
<1>0. Frame("pong") \in FrameRow
  BY HeartbeatTimes DEF Frame, FrameRow, Frames
<1>1. /\ v \in Seq(FrameRow) /\ Len(v) = Len(u) + 1 /\ v[Len(u) + 1] = Frame("pong")
      /\ \A n \in 1 .. Len(u) : v[n] = u[n]
  BY <1>0, AppendProperties
<1>2. Frame("pong").kind = "pong" /\ Frame("pong").age = 0 /\ Delay \in Nat
  BY HeartbeatTimes DEF Frame
<1>3. CASE \E n \in DOMAIN u : u[n].kind = "pong" /\ k <= Delay + u[n].age
  BY <1>1, <1>3 DEF Answerable
<1>4. ASSUME NEW n \in DOMAIN d, d[n] = k PROVE Answerable(k, Tail(d), v)
  <2>1. d[n] \in 0 .. Delay /\ n \in 1 .. Len(d) /\ Len(d) \in Nat
    BY <1>4, ElementOfSeq, LenProperties
  <2>2. CASE n = 1
    <3>1. k <= Delay + v[Len(u) + 1].age /\ v[Len(u) + 1].kind = "pong"
      BY <1>1, <1>2, <1>4, <2>1
    <3>2. Len(u) + 1 \in DOMAIN v
      BY <1>1
    <3> QED
      BY <3>1, <3>2 DEF Answerable
  <2>3. CASE n # 1
    <3>1. n - 1 \in 1 .. Len(Tail(d)) /\ Tail(d)[n - 1] = d[n] /\ Tail(d) \in Seq(0 .. Delay)
      BY <2>1, <2>3, HeadTailProperties
    <3>2. n - 1 \in DOMAIN Tail(d)
      BY <3>1
    <3> QED
      BY <1>4, <3>1, <3>2 DEF Answerable
  <2> QED
    BY <2>2, <2>3
<1> QED
  BY <1>3, <1>4 DEF Answerable

\* A frame the client sends takes no answer away.
LEMMA AppendAnswerable ==
    ASSUME NEW d, NEW u \in Seq(FrameRow), NEW f \in FrameRow, NEW k, Answerable(k, d, u)
    PROVE  Answerable(k, d, Append(u, f))
<1>1. /\ Append(u, f) \in Seq(FrameRow) /\ Len(Append(u, f)) = Len(u) + 1
      /\ \A n \in 1 .. Len(u) : Append(u, f)[n] = u[n]
  BY AppendProperties
<1>2. \A n \in DOMAIN u : n \in DOMAIN Append(u, f) /\ Append(u, f)[n] = u[n]
  BY <1>1
<1> QED
  BY <1>2 DEF Answerable

\* What is awaited is never older than two delays, and ages with its answer.
LEMMA TimeAnswerable ==
    ASSUME HeartbeatTypeOK, TimePasses, NEW k \in 0 .. Timeout, Answerable(k, down, up)
    PROVE  k < Timeout /\ Answerable(Capped(k, Timeout), down', up')
<1>1. {Delay, Timeout, NudgeLate} \subseteq Nat /\ 2 * Delay < Timeout
  BY HeartbeatTimes
<1>2. /\ \A n \in DOMAIN down : down[n] \in 0 .. Delay
      /\ \A n \in DOMAIN up : up[n].age \in 0 .. Delay
  <2>1. down \in Seq(0 .. Delay) /\ up \in Seq(FrameRow)
    BY DEF HeartbeatTypeOK, FrameRow
  <2>2. \A n \in DOMAIN up : up[n] \in FrameRow
    BY <2>1, ElementOfSeq, LenProperties
  <2>3. \A n \in DOMAIN down : down[n] \in 0 .. Delay
    BY <2>1, ElementOfSeq, LenProperties
  <2> QED
    BY <2>2, <2>3 DEF FrameRow
<1>3. k < Timeout
  BY <1>1, <1>2 DEF Answerable
<1>4. Capped(k, Timeout) = k + 1
  BY <1>3 DEF Capped, Never
<1>5. CASE \E n \in DOMAIN down : down[n] = k
  <2>1. \E n \in DOMAIN down' : down'[n] = k + 1
    BY <1>5, TimeDoes
  <2> QED
    BY <1>3, <1>4, <2>1 DEF Answerable
<1>6. CASE \E n \in DOMAIN up : up[n].kind = "pong" /\ k <= Delay + up[n].age
  <2>1. PICK n \in DOMAIN up : up[n].kind = "pong" /\ k <= Delay + up[n].age
    BY <1>6
  <2>2. up'[n].kind = "pong" /\ up'[n].age = up[n].age + 1 /\ n \in DOMAIN up'
    BY <2>1, TimeDoes
  <2>3. k + 1 <= Delay + up'[n].age
    BY <1>1, <1>2, <2>1, <2>2
  <2> QED
    BY <1>3, <1>4, <2>2, <2>3 DEF Answerable
<1> QED
  BY <1>5, <1>6 DEF Answerable

\* What a wake leaves awaited will come, whether it pinged or not.
LEMMA WokenAwaited ==
    ASSUME HeartbeatTypeOK, client = "up", NEW e, NEW a \in SessionRow, NEW i \in SessionRow,
           WokenBy(e, a, i), AwaitedBy(a), AwaitedBy(i), Sent(e.ping)
    PROVE  /\ e.att.awaiting # Never => Answerable(e.att.awaiting, down', up)
           /\ e.inner.awaiting # Never => Answerable(e.inner.awaiting, down', up)
<1>1. down \in Seq(0 .. Delay) /\ down' = down \o e.ping
  BY DEF HeartbeatTypeOK, Sent
<1>2. CASE e.att = a /\ e.inner = i /\ e.ping = <<>>
  BY <1>1, <1>2, PingAnswerable DEF AwaitedBy
<1>3. CASE e.att = Pinged(a) /\ e.inner = (IF i.on THEN Pinged(i) ELSE i) /\ e.ping = << 0 >>
  <2>1. \A s \in SessionRow : Pinged(s).awaiting = 0
    BY DEF Pinged, SessionRow, Session
  <2>2. Answerable(0, down', up) /\ \A k : Answerable(k, down, up) => Answerable(k, down', up)
    BY <1>1, <1>3, PingAnswerable
  <2> QED
    BY <1>3, <2>1, <2>2 DEF AwaitedBy
<1> QED
  BY <1>2, <1>3 DEF WokenBy

\* The steps of the object and of its alarm leave the invariant true.
LEMMA ObjectAnswers ==
    ASSUME HeartbeatTypeOK, AnswersDue,
           \/ WarmUp \/ WsUpgrade \/ Evict \/ WebsocketMessage \/ Broadcast
           \/ WebsocketClose \/ WebsocketError \/ AlarmFires \/ TickResumes \/ AlarmLost
    PROVE  AnswersDue'
<1>0. att \in SessionRow /\ inner \in SessionRow /\ down \in Seq(0 .. Delay) /\ up \in Seq(FrameRow)
  BY DEF HeartbeatTypeOK, SessionRow, FrameRow
<1>a. Blank.awaiting = Never /\ Absent.awaiting = Never /\ ~Absent.on
  BY DEF Blank, Absent
<1>1. CASE WarmUp
  BY <1>1, <1>a DEF WarmUp, clientVars, AnswersDue, AwaitedBy, AnsweringIsKept
<1>2. CASE WsUpgrade
  <2>1. att'.awaiting = Rehydrated(inner, Blank).awaiting /\ inner' = att'
    BY <1>0, <1>2, RowsTyped DEF WsUpgrade, Rehydrated, SessionRow, Session
  <2> QED
    BY <1>2, <1>a, <2>1 DEF WsUpgrade, clientVars, Rehydrated, AnswersDue, AwaitedBy, AnsweringIsKept
<1>3. CASE Evict
  BY <1>3, <1>a DEF Evict, clientVars, AnswersDue, AwaitedBy, AnsweringIsKept
<1>4. CASE WebsocketMessage
  <2>1. PICK e : /\ Wakes(e, att, Rehydrated(inner, att)) /\ Sent(e.ping)
                 /\ Dispatched(Head(up).kind, e)
    BY <1>4, MessageDoes
  <2>2. att.on /\ up # <<>> /\ up' = Tail(up) /\ UNCHANGED <<client, ended>> /\ ended = "no"
    BY <1>4, MessageDoes DEF AnswersDue
  <2>3. ASSUME client = "up" PROVE AwaitedBy(att)' /\ AwaitedBy(inner)'
    <3>1. AwaitedBy(att) /\ AwaitedBy(Rehydrated(inner, att)) /\ Rehydrated(inner, att) \in SessionRow
      BY <1>0, <2>2, <2>3 DEF AnswersDue, Rehydrated
    <3>2. /\ e.att.awaiting # Never => Answerable(e.att.awaiting, down', up)
          /\ e.inner.awaiting # Never => Answerable(e.inner.awaiting, down', up)
      BY <1>0, <2>1, <2>3, <3>1, WokenAwaited DEF Wakes
    <3>3. e.att \in SessionRow /\ e.inner \in SessionRow
      BY <2>1 DEF Wakes
    <3>4. CASE att'.awaiting = Never /\ inner'.awaiting = Never
      BY <3>4 DEF AwaitedBy
    <3>5. CASE Head(up).kind # "pong" /\ inner' = e.inner /\ (att' = e.att \/ att' = e.inner)
      BY <1>0, <2>2, <3>2, <3>5, TailAnswerable DEF AwaitedBy
    <3>6. CASE Head(up).kind \in {"pong", "upgrade"}
      <4>1. att'.awaiting = Never /\ inner'.awaiting = Never
        BY <2>1, <3>3, <3>6 DEF Dispatched, SessionRow, Session
      <4> QED
        BY <3>4, <4>1
    <3> QED
      BY <2>1, <3>5, <3>6 DEF Dispatched
  <2> QED
    BY <2>2, <2>3 DEF AnswersDue, AnsweringIsKept
<1>5. CASE Broadcast
  <2>1. PICK e : /\ Wakes(e, att, inner) /\ Sent(e.ping)
                 /\ inner' = Rehydrated(e.inner, e.att)
                 /\ att' = e.att \/ att' = inner'
    BY <1>5, BroadcastDoes
  <2>2. att.on /\ up' = up /\ UNCHANGED <<client, ended>> /\ ended = "no"
    BY <1>5, BroadcastDoes DEF AnswersDue
  <2>3. ASSUME client = "up" PROVE AwaitedBy(att)' /\ AwaitedBy(inner)'
    <3>1. /\ e.att.awaiting # Never => Answerable(e.att.awaiting, down', up)
          /\ e.inner.awaiting # Never => Answerable(e.inner.awaiting, down', up)
      BY <1>0, <2>1, <2>2, <2>3, WokenAwaited DEF Wakes, AnswersDue
    <3> QED
      BY <2>1, <2>2, <3>1 DEF AwaitedBy, Rehydrated
  <2> QED
    BY <2>2, <2>3 DEF AnswersDue, AnsweringIsKept
<1>6. CASE WebsocketClose
  BY <1>6, <1>a DEF WebsocketClose, Ends, AnswersDue, AnsweringIsKept
<1>7. CASE WebsocketError
  BY <1>7, <1>a DEF WebsocketError, Ends, AnswersDue, AnsweringIsKept
<1>8. CASE AlarmFires
  <2>1. CASE UNCHANGED <<inner, att, tick, ended, down, up, client>>
    BY <2>1 DEF AnswersDue, AwaitedBy, AnsweringIsKept
  <2>2. CASE /\ att.on /\ MustClose(att) /\ Ends("ping timeout") /\ client' = client
    <3>1. ASSUME client = "up" PROVE FALSE
      <4>1. Answerable(att.awaiting, down, up) /\ att.awaiting >= Timeout
        BY <2>2, <3>1 DEF AnswersDue, AwaitedBy, MustClose
      <4>2. {Delay, Timeout, NudgeLate} \subseteq Nat /\ 2 * Delay < Timeout
        BY HeartbeatTimes
      <4>3. \A n \in DOMAIN up : up[n] \in FrameRow
        BY <1>0, ElementOfSeq, LenProperties
      <4>4. \A n \in DOMAIN down : down[n] \in 0 .. Delay
        BY <1>0, ElementOfSeq, LenProperties
      <4>5. \A n \in DOMAIN up : up[n].age \in 0 .. Delay
        BY <4>3 DEF FrameRow
      <4>6. att.awaiting \in Int
        BY <1>0, HeartbeatTimes DEF SessionRow, Session, Never
      <4> QED
        BY <4>1, <4>2, <4>4, <4>5, <4>6 DEF Answerable
    <3>2. client = "dead"
      BY <3>1 DEF HeartbeatTypeOK
    <3> QED
      BY <2>2, <3>2, <1>a DEF Ends, AnswersDue, AnsweringIsKept
  <2>3. CASE /\ att.on /\ att' = Pinged(att) /\ inner' = IF inner.on THEN Pinged(inner) ELSE inner
             /\ Sent(<< 0 >>) /\ UNCHANGED <<ended, up, client>>
    <3>1. ended = "no"
      BY <2>3 DEF AnswersDue
    <3>2. ASSUME client = "up" PROVE AwaitedBy(att)' /\ AwaitedBy(inner)'
      <4>1. Answerable(0, down', up) /\ \A k : Answerable(k, down, up) => Answerable(k, down', up)
        BY <1>0, <2>3, <3>2, PingAnswerable DEF Sent
      <4>2. att'.awaiting = 0 /\ inner'.awaiting \in {0, inner.awaiting}
        BY <1>0, <2>3 DEF Pinged, SessionRow, Session
      <4> QED
        BY <2>3, <3>1, <3>2, <4>1, <4>2 DEF AwaitedBy, AnswersDue
    <3> QED
      BY <2>3, <3>1, <3>2 DEF AnswersDue, AnsweringIsKept
  <2>4. CASE ended' = "send failed" /\ att' = Absent
    BY <2>4, <1>a DEF AnswersDue, AnsweringIsKept
  <2> QED
    BY <1>8, <2>1, <2>2, <2>3, <2>4 DEF AlarmFires
<1>9. CASE TickResumes
  BY <1>9 DEF TickResumes, clientVars, AnswersDue, AwaitedBy, AnsweringIsKept
<1>10. CASE AlarmLost
  BY <1>10 DEF AlarmLost, clientVars, AnswersDue, AwaitedBy, AnsweringIsKept
<1> QED
  BY <1>1, <1>2, <1>3, <1>4, <1>5, <1>6, <1>7, <1>8, <1>9, <1>10

\* So do the client's, and time.
LEMMA OthersAnswer ==
    ASSUME HeartbeatTypeOK, AnswersDue,
           \/ ClientHears \/ ClientNudges \/ ClientDies \/ TimePasses
           \/ \E kind \in {"upgrade", "event", "disconnect"} : ClientSends(kind)
    PROVE  AnswersDue'
<1>0. /\ att \in SessionRow /\ inner \in SessionRow
      /\ down \in Seq(0 .. Delay) /\ up \in Seq(FrameRow)
  BY DEF HeartbeatTypeOK, SessionRow, FrameRow
<1>a. att.awaiting \in Never .. Timeout /\ inner.awaiting \in Never .. Timeout /\ Never .. Timeout \subseteq Int
  BY <1>0, HeartbeatTimes DEF SessionRow, Session, Never
<1>b. \A kind \in Frames : Frame(kind) \in FrameRow
  BY HeartbeatTimes DEF Frame, FrameRow
<1>1. CASE ClientHears
  BY <1>0, <1>1, <1>a, HearsAnswerable
     DEF ClientHears, object, AnswersDue, AwaitedBy, AnsweringIsKept
<1>2. ASSUME NEW kind \in Frames, up' = Append(up, Frame(kind)), down' = down,
             UNCHANGED <<object, client, ended>>
      PROVE  AnswersDue'
  <2>1. Frame(kind) \in FrameRow
    BY <1>b
  <2> QED
    BY <1>0, <1>2, <2>1, AppendAnswerable DEF object, AnswersDue, AwaitedBy, AnsweringIsKept
<1>3. CASE ClientNudges
  BY <1>2, <1>3 DEF ClientNudges, Frames
<1>4. CASE \E kind \in {"upgrade", "event", "disconnect"} : ClientSends(kind)
  BY <1>2, <1>4 DEF ClientSends, Frames
<1>5. CASE ClientDies
  BY <1>5 DEF ClientDies, object, AnswersDue, AnsweringIsKept
<1>6. CASE TimePasses
  <2>1. /\ att'.on = att.on /\ att'.awaiting = Capped(att.awaiting, Timeout)
        /\ inner'.awaiting = Capped(inner.awaiting, Timeout)
    BY <1>0, <1>6, TimeDoes, OlderTyped
  <2>2. UNCHANGED <<client, ended>>
    BY <1>6 DEF TimePasses
  <2>3. ASSUME NEW k \in Never .. Timeout, k # Never => Answerable(k, down, up)
        PROVE  Capped(k, Timeout) # Never => Answerable(Capped(k, Timeout), down', up')
    <3>1. CASE k = Never
      BY <3>1 DEF Capped
    <3>2. CASE k # Never
      <4>1. k \in 0 .. Timeout
        BY <3>2, HeartbeatTimes DEF Never
      <4> QED
        BY <1>6, <2>3, <3>2, <4>1, TimeAnswerable
    <3> QED
      BY <3>1, <3>2
  <2>4. ASSUME client = "up", ended = "no" PROVE AwaitedBy(att)' /\ AwaitedBy(inner)'
    <3>1. AwaitedBy(att) /\ AwaitedBy(inner)
      BY <2>4 DEF AnswersDue
    <3> QED
      BY <1>a, <2>1, <2>3, <3>1 DEF AwaitedBy
  <2> QED
    BY <2>1, <2>2, <2>4 DEF AnswersDue, AnsweringIsKept
<1> QED
  BY <1>1, <1>3, <1>4, <1>5, <1>6

\* The whole: the invariant holds at first and after every step.
LEMMA AnswersAlwaysDue == HeartbeatSpec => []AnswersDue
<1>1. HeartbeatInit => AnswersDue
  BY DEF HeartbeatInit, AnswersDue, AnsweringIsKept, AwaitedBy, Absent, Blank
<1>2. HeartbeatTypeOK /\ AnswersDue /\ [HeartbeatNext]_heartbeatVars => AnswersDue'
  <2> SUFFICES ASSUME HeartbeatTypeOK, AnswersDue, [HeartbeatNext]_heartbeatVars
               PROVE  AnswersDue'
    OBVIOUS
  <2>1. CASE UNCHANGED heartbeatVars
    BY <2>1 DEF heartbeatVars, object, clientVars, AnswersDue, AwaitedBy, AnsweringIsKept
  <2>2. CASE HeartbeatNext
    BY <2>2, ObjectAnswers, OthersAnswer DEF HeartbeatNext
  <2> QED
    BY <2>1, <2>2
<1> QED
  BY <1>1, <1>2, HeartbeatTyped, PTL DEF HeartbeatSpec

\* heartbeat_on_alarm never closes the socket of a client that answers, for any
\* intervals of which two delays fit into the timeout, and wherever the Worker's
\* warm-up lands.
THEOREM AnsweringClientsAreKept == HeartbeatSpec => []AnsweringIsKept
<1>1. AnswersDue => AnsweringIsKept
  BY DEF AnswersDue
<1> QED
  BY <1>1, AnswersAlwaysDue, PTL

-----------------------------------------------------------------------------
(* The heartbeat: who nudges is heard *)

Nudging == Interval + NudgeLate

\* Every way the client's patience is spent: it is not silent yet, or just now;
\* its nudge is under way, or a ping is, soon enough.
HeardSoon(h, nu, d, u) ==
    \/ h < Nudging
    \/ h = Nudging /\ ~nu
    \/ \E n \in DOMAIN u : u[n].kind = "nudge" /\ h <= Nudging + u[n].age
    \/ \E n \in DOMAIN d : h <= Nudging + Delay + d[n]

\* The schedule knows when the client last heard: the last ping was heard, or
\* is under way, or is overdue.
Scheduled(l, h, d) ==
    /\ l # Never
    /\ \/ h <= l + Delay
       \/ l = OldPing
       \/ \E n \in DOMAIN d : d[n] = l

Upgrades(h, u) == \A n \in DOMAIN u : u[n].kind = "upgrade" => h <= u[n].age

Upgraded(a) == a.on /\ a.transport = "websocket"

\* The inductive invariant.  Both copies of the session are one while both are
\* there, so that an event persists nothing stale; and the two facts above hold
\* of every client that is up.
Hearing ==
    /\ ended # "silence"
    /\ warmUp => ~att.on
    /\ att.on /\ inner.on => inner = att
    /\ nudged => heard >= Nudging
    /\ client = "up" => Upgrades(heard, up)
    /\ client = "up" /\ Upgraded(att) =>
           HeardSoon(heard, nudged, down, up) /\ Scheduled(att.lastPing, heard, down)

\* The times add up: a nudge finds the ping overdue, and its answer is in time.
LEMMA TimesAddUp ==
    /\ {Delay, Nudging, OldPing, Deadline, Interval, Grace} \subseteq Nat
    /\ Delay < Nudging /\ OldPing = Interval + Grace /\ OldPing <= Nudging - Delay
    /\ Nudging + 2 * Delay < Deadline
BY HeartbeatTimes DEF Nudging, OldPing, Deadline

\* What a frame or a ping at hand can be.
LEMMA AgesTyped ==
    ASSUME HeartbeatTypeOK
    PROVE  /\ \A n \in DOMAIN up : up[n] \in FrameRow /\ up[n].age \in 0 .. Delay
           /\ \A n \in DOMAIN down : down[n] \in 0 .. Delay
           /\ down \in Seq(0 .. Delay) /\ up \in Seq(FrameRow) /\ heard \in 0 .. Deadline
           /\ att \in SessionRow /\ inner \in SessionRow
           /\ att.lastPing \in Never .. OldPing
<1>1. /\ down \in Seq(0 .. Delay) /\ up \in Seq(FrameRow) /\ heard \in 0 .. Deadline
      /\ att \in SessionRow /\ inner \in SessionRow
  BY DEF HeartbeatTypeOK, FrameRow, SessionRow
<1>2. \A n \in DOMAIN up : up[n] \in FrameRow
  BY <1>1, ElementOfSeq, LenProperties
<1>3. \A n \in DOMAIN down : down[n] \in 0 .. Delay
  BY <1>1, ElementOfSeq, LenProperties
<1> QED
  BY <1>1, <1>2, <1>3 DEF FrameRow, SessionRow, Session

\* A client that is heard soon has not run out of patience.
LEMMA SoonIsInTime ==
    ASSUME HeartbeatTypeOK, HeardSoon(heard, nudged, down, up)
    PROVE  heard < Deadline
<1>1. /\ \A n \in DOMAIN up : up[n].age \in 0 .. Delay
      /\ \A n \in DOMAIN down : down[n] \in 0 .. Delay
      /\ heard \in 0 .. Deadline
  BY AgesTyped
<1>2. Delay \in Nat /\ Nudging \in Nat /\ Deadline \in Nat /\ Nudging + 2 * Delay < Deadline
  BY TimesAddUp
<1> QED
  BY <1>1, <1>2 DEF HeardSoon

\* A ping that is sent, or none, leaves a client heard soon and scheduled.
LEMMA PingSoon ==
    ASSUME NEW d \in Seq(0 .. Delay), NEW p, p = <<>> \/ p = << 0 >>, NEW h, NEW nu, NEW u
    PROVE  /\ HeardSoon(h, nu, d, u) => HeardSoon(h, nu, d \o p, u)
           /\ \A l : Scheduled(l, h, d) => Scheduled(l, h, d \o p)
           /\ p = << 0 >> => Scheduled(0, h, d \o p)
<1>1. 0 # Never
  BY DEF Never
<1> QED
  BY <1>1, PingsKept DEF HeardSoon, Scheduled

\* The frame at the head leaves the others.
LEMMA TailFrames ==
    ASSUME NEW u \in Seq(FrameRow), u # <<>>, NEW n \in DOMAIN u
    PROVE  (n = 1 /\ u[n] = Head(u)) \/ \E k \in DOMAIN Tail(u) : Tail(u)[k] = u[n]
<1>1. n \in 1 .. Len(u) /\ Len(u) \in Nat
  BY LenProperties
<1>2. CASE n = 1
  BY <1>2
<1>3. CASE n # 1
  <2>1. n - 1 \in 1 .. Len(Tail(u)) /\ Tail(u)[n - 1] = u[n] /\ Tail(u) \in Seq(FrameRow)
    BY <1>1, <1>3, HeadTailProperties
  <2>2. n - 1 \in DOMAIN Tail(u)
    BY <2>1
  <2> QED
    BY <2>1, <2>2
<1> QED
  BY <1>2, <1>3

\* And only the others.
LEMMA TailOnly ==
    ASSUME NEW u \in Seq(FrameRow), u # <<>>, NEW k \in DOMAIN Tail(u)
    PROVE  \E n \in DOMAIN u : u[n] = Tail(u)[k]
<1>1. k \in 1 .. Len(Tail(u)) /\ Len(Tail(u)) = Len(u) - 1 /\ Len(u) \in Nat
  BY HeadTailProperties, LenProperties
<1>2. Tail(u)[k] = u[k + 1] /\ k + 1 \in 1 .. Len(u)
  BY <1>1, HeadTailProperties
<1> QED
  BY <1>2, LenProperties

\* A frame that arrives is no loss: a nudge finds the schedule overdue, and its
\* wake pings; or a ping is on its way already.
LEMMA MessageSoon ==
    ASSUME HeartbeatTypeOK, up # <<>>, NEW p, p = <<>> \/ p = << 0 >>,
           Overdue(att) => p = << 0 >>,
           HeardSoon(heard, nudged, down, up), Scheduled(att.lastPing, heard, down)
    PROVE  HeardSoon(heard, nudged, down \o p, Tail(up))
<1>1. \A n \in DOMAIN down : n \in DOMAIN (down \o p) /\ (down \o p)[n] = down[n]
  BY AgesTyped, PingsKept
<1>2. CASE heard < Nudging \/ (heard = Nudging /\ ~nudged)
  BY <1>2 DEF HeardSoon
<1>3. CASE \E n \in DOMAIN down : heard <= Nudging + Delay + down[n]
  BY <1>1, <1>3 DEF HeardSoon
<1>4. ASSUME NEW n \in DOMAIN up, up[n].kind = "nudge", heard <= Nudging + up[n].age,
             ~(heard < Nudging)
      PROVE  HeardSoon(heard, nudged, down \o p, Tail(up))
  <2>1. CASE \E k \in DOMAIN Tail(up) : Tail(up)[k] = up[n]
    BY <1>4, <2>1 DEF HeardSoon
  <2>2. CASE up[n] = Head(up)
    <3>1. heard <= Nudging + Delay /\ heard >= Nudging /\ heard \in Nat
      <4>1. up[n].age \in 0 .. Delay /\ heard \in 0 .. Deadline
        BY AgesTyped
      <4>2. Delay \in Nat /\ Nudging \in Nat /\ Deadline \in Nat
        BY TimesAddUp
      <4> QED
        BY <1>4, <4>1, <4>2
    <3>2. ASSUME NEW k \in DOMAIN down, down[k] = att.lastPing
          PROVE  heard <= Nudging + Delay + down[k]
      <4>1. down[k] \in 0 .. Delay
        BY AgesTyped
      <4>2. Delay \in Nat /\ Nudging \in Nat
        BY TimesAddUp
      <4> QED
        BY <3>1, <4>1, <4>2
    <3>3. CASE \E k \in DOMAIN down : down[k] = att.lastPing
      BY <1>1, <3>2, <3>3 DEF HeardSoon
    <3>4. CASE heard <= att.lastPing + Delay \/ att.lastPing = OldPing
      <4>1. att.lastPing >= Interval + Grace
        <5>1. att.lastPing \in Never .. OldPing
          BY AgesTyped
        <5>2. /\ Delay \in Nat /\ Nudging \in Nat /\ OldPing \in Nat
              /\ OldPing = Interval + Grace /\ OldPing <= Nudging - Delay
          BY TimesAddUp
        <5> QED
          BY <3>1, <3>4, <5>1, <5>2 DEF Never
      <4>2. p = << 0 >>
        BY <4>1, AgesTyped DEF Overdue, Scheduled
      <4>3. PICK k \in DOMAIN (down \o p) : (down \o p)[k] = 0
        BY <4>2, AgesTyped, PingsKept
      <4>4. heard <= Nudging + Delay + (down \o p)[k]
        BY <3>1, <4>3, TimesAddUp
      <4> QED
        BY <4>4 DEF HeardSoon
    <3> QED
      BY <3>3, <3>4 DEF Scheduled
  <2> QED
    BY <2>1, <2>2, AgesTyped, TailFrames
<1> QED
  BY <1>2, <1>3, <1>4 DEF HeardSoon

\* A wake of a session whose copies are one leaves them one, and pings both.
LEMMA WokenAlike ==
    ASSUME NEW e, NEW a \in SessionRow, NEW i \in SessionRow, WokenBy(e, a, i),
           i.on => i = a
    PROVE  /\ e.inner.on = i.on /\ e.att.on = a.on /\ e.att.transport = a.transport
           /\ i.on => e.inner = e.att
           /\ \/ e.att = a /\ e.ping = <<>>
              \/ e.att.lastPing = 0 /\ e.ping = << 0 >>
<1>1. \A s \in SessionRow : /\ Pinged(s).on = s.on /\ Pinged(s).transport = s.transport
                            /\ Pinged(s).lastPing = 0
  BY DEF Pinged, SessionRow, Session
<1> QED
  BY <1>1 DEF WokenBy

\* What is sent beside a session that goes on as it was, or pinged, keeps its
\* client heard soon and scheduled.
LEMMA SentSoon ==
    ASSUME HeartbeatTypeOK, Hearing, client = "up", Upgraded(att), NEW e, Sent(e.ping),
           \/ e.att = att /\ e.ping = <<>>
           \/ e.att.lastPing = 0 /\ e.ping = << 0 >>
    PROVE  HeardSoon(heard, nudged, down', up) /\ Scheduled(e.att.lastPing, heard, down')
<1>1. down' = down \o e.ping /\ down \in Seq(0 .. Delay)
  BY DEF HeartbeatTypeOK, Sent
<1>2. HeardSoon(heard, nudged, down, up) /\ Scheduled(att.lastPing, heard, down)
  BY DEF Hearing
<1>3. CASE e.att = att /\ e.ping = <<>>
  BY <1>1, <1>2, <1>3, PingSoon
<1>4. CASE e.att.lastPing = 0 /\ e.ping = << 0 >>
  BY <1>1, <1>2, <1>4, PingSoon
<1> QED
  BY <1>3, <1>4

\* websocket_message keeps the invariant.
LEMMA MessageHeard ==
    ASSUME HeartbeatTypeOK, Hearing, WebsocketMessage
    PROVE  Hearing'
<1>0. /\ att \in SessionRow /\ inner \in SessionRow /\ up \in Seq(FrameRow) /\ up # <<>>
      /\ att.on /\ up' = Tail(up) /\ UNCHANGED <<client, heard, nudged, warmUp, ended>>
  BY MessageDoes, AgesTyped
<1>1. PICK e : /\ Wakes(e, att, Rehydrated(inner, att)) /\ Sent(e.ping)
               /\ Dispatched(Head(up).kind, e)
  BY MessageDoes
<1>2. Rehydrated(inner, att) = att
  BY <1>0 DEF Hearing, Rehydrated
<1>3. /\ e.inner = e.att /\ e.att.on /\ e.att.transport = att.transport /\ e.att \in SessionRow
      /\ \/ e.att = att /\ e.ping = <<>>
         \/ e.att.lastPing = 0 /\ e.ping = << 0 >>
  BY <1>0, <1>1, <1>2, WokenAlike DEF Wakes
<1>4. inner' = att' /\ att'.on
  BY <1>1, <1>3 DEF Dispatched, SessionRow, Session
<1>5. client = "up" => Upgrades(heard, up)'
  BY <1>0, TailOnly DEF Hearing, Upgrades
<1>6. ASSUME client = "up", Upgraded(att')
      PROVE  HeardSoon(heard, nudged, down', up') /\ Scheduled(att'.lastPing, heard, down')
  <2>1. CASE Head(up).kind = "upgrade"
    <3>1. att'.lastPing = 0
      BY <1>1, <1>3, <2>1 DEF Dispatched, SessionRow, Session
    <3>2. heard <= Head(up).age /\ Head(up).age \in 0 .. Delay
      <4>1. 1 \in DOMAIN up /\ up[1] = Head(up)
        BY <1>0, EmptySeq, LenProperties
      <4> QED
        BY <1>6, <2>1, <4>1, AgesTyped DEF Hearing, Upgrades
    <3>3. heard <= 0 + Delay /\ heard < Nudging
      <4>1. Delay \in Nat /\ Nudging \in Nat /\ Delay < Nudging /\ heard \in 0 .. Deadline
        BY TimesAddUp, AgesTyped
      <4> QED
        BY <3>2, <4>1, TimesAddUp
    <3>4. 0 # Never
      BY DEF Never
    <3> QED
      BY <3>1, <3>3, <3>4 DEF HeardSoon, Scheduled
  <2>2. CASE Head(up).kind # "upgrade"
    <3>1. att'.lastPing = e.att.lastPing /\ att'.transport = e.att.transport
      BY <1>1, <1>3, <2>2 DEF Dispatched, SessionRow, Session
    <3>2. Upgraded(att) /\ HeardSoon(heard, nudged, down, up) /\ Scheduled(att.lastPing, heard, down)
      BY <1>0, <1>3, <1>6, <3>1 DEF Upgraded, Hearing
    <3>3. Scheduled(att'.lastPing, heard, down')
      <4>2. Scheduled(e.att.lastPing, heard, down')
        BY <1>1, <1>6, <3>2, <1>3, SentSoon
      <4> QED
        BY <3>1, <4>2
    <3>4. Overdue(att) => e.ping = << 0 >>
      BY <1>1, <3>2 DEF Wakes, Upgraded
    <3>5. down' = down \o e.ping
      BY <1>1, <1>6 DEF Sent
    <3>6. HeardSoon(heard, nudged, down \o e.ping, Tail(up))
      BY <1>0, <1>3, <3>2, <3>4, MessageSoon
    <3> QED
      BY <1>0, <3>3, <3>5, <3>6
  <2> QED
    BY <2>1, <2>2
<1>7. ~warmUp'
  BY <1>0 DEF Hearing
<1> QED
  BY <1>0, <1>4, <1>5, <1>6, <1>7 DEF Hearing

\* The rest of the object's steps, and its alarm, keep it.
LEMMA ObjectHeard ==
    ASSUME LateWarmUp = FALSE, HeartbeatTypeOK, Hearing,
           \/ WarmUp \/ WsUpgrade \/ Evict \/ Broadcast
           \/ WebsocketClose \/ WebsocketError \/ AlarmFires \/ TickResumes \/ AlarmLost
    PROVE  Hearing'
<1>0. /\ att \in SessionRow /\ inner \in SessionRow /\ down \in Seq(0 .. Delay)
  BY AgesTyped
<1>a. ~Absent.on
  BY DEF Blank, Absent
<1>e. ASSUME NEW how, Ends(how), how # "silence", UNCHANGED <<client, heard, nudged, warmUp>>
      PROVE  Hearing'
  BY <1>a, <1>e DEF Ends, Hearing, Upgrades, Upgraded
<1>1. CASE WarmUp
  BY <1>1 DEF WarmUp, clientVars, Hearing
<1>2. CASE WsUpgrade
  <2>1. att'.transport = "pending" /\ inner' = att' /\ ~warmUp'
    BY <1>0, <1>2, RowsTyped DEF WsUpgrade, Rehydrated, SessionRow, Session
  <2> QED
    BY <1>2, <2>1 DEF WsUpgrade, clientVars, Hearing, Upgraded
<1>3. CASE Evict
  BY <1>3, <1>a DEF Evict, clientVars, Hearing
<1>4. CASE Broadcast
  <2>1. PICK e : /\ Wakes(e, att, inner) /\ Sent(e.ping)
                 /\ inner' = Rehydrated(e.inner, e.att)
                 /\ att' = e.att \/ att' = inner'
    BY <1>4, BroadcastDoes
  <2>2. att.on /\ UNCHANGED <<client, heard, nudged, up, warmUp, ended>>
    BY <1>4, BroadcastDoes
  <2>3. /\ e.inner.on = inner.on /\ e.att.on /\ e.att.transport = att.transport
        /\ inner.on => e.inner = e.att
        /\ \/ e.att = att /\ e.ping = <<>>
           \/ e.att.lastPing = 0 /\ e.ping = << 0 >>
    BY <1>0, <2>1, <2>2, WokenAlike DEF Wakes, Hearing
  <2>4. inner' = e.att /\ att' = e.att
    BY <2>1, <2>3 DEF Rehydrated
  <2>5. ASSUME client = "up", Upgraded(att')
        PROVE  HeardSoon(heard, nudged, down', up') /\ Scheduled(att'.lastPing, heard, down')
    <3>1. Upgraded(att)
      BY <2>2, <2>3, <2>4, <2>5 DEF Upgraded
    <3> QED
      <4>2. HeardSoon(heard, nudged, down', up) /\ Scheduled(e.att.lastPing, heard, down')
        BY <2>1, <2>5, <3>1, <2>3, SentSoon
      <4> QED
        BY <2>2, <2>4, <4>2
  <2> QED
    BY <2>2, <2>4, <2>5 DEF Hearing
<1>5. CASE WebsocketClose
  <2>1. PICK how \in {"closed", "silence"} :
            /\ how = "silence" <=> (client = "up" /\ att.transport = "websocket" /\ heard >= Deadline)
            /\ Ends(how)
    BY <1>5 DEF WebsocketClose
  <2>2. how # "silence"
    <3>1. SUFFICES ASSUME client = "up", Upgraded(att), heard >= Deadline PROVE FALSE
      BY <1>5, <2>1 DEF Upgraded, WebsocketClose
    <3>2. heard < Deadline
      BY <3>1, SoonIsInTime DEF Hearing
    <3> QED
      BY <3>1, <3>2, AgesTyped, TimesAddUp
  <2> QED
    BY <1>5, <1>e, <2>1, <2>2 DEF WebsocketClose
<1>6. CASE WebsocketError
  BY <1>6, <1>e DEF WebsocketError
<1>7. CASE AlarmFires
  <2>0. UNCHANGED <<client, heard, nudged, warmUp>>
    BY <1>7 DEF AlarmFires
  <2>1. CASE UNCHANGED <<inner, att, tick, ended, down, up>>
    BY <2>0, <2>1 DEF Hearing
  <2>2. CASE Ends("ping timeout")
    BY <1>e, <2>0, <2>2
  <2>3. CASE /\ Upgraded(att) /\ att' = Pinged(att)
             /\ inner' = IF inner.on THEN Pinged(inner) ELSE inner
             /\ Sent(<< 0 >>) /\ UNCHANGED <<ended, up>>
    <3>1. att'.lastPing = 0 /\ (inner'.on => inner.on)
      BY <1>0, <2>3 DEF Pinged, SessionRow, Session
    <3>2. inner'.on => inner' = att'
      BY <2>3, <3>1 DEF Hearing, Upgraded
    <3>3. client = "up" => HeardSoon(heard, nudged, down', up) /\ Scheduled(att'.lastPing, heard, down')
      <4>1. ASSUME client = "up" PROVE down' = down \o << 0 >>
        BY <2>3, <4>1 DEF Sent
      <4> QED
        BY <1>0, <2>3, <3>1, <4>1, PingSoon DEF Hearing
    <3>4. ~warmUp
      BY <2>3 DEF Hearing, Upgraded
    <3> QED
      BY <2>0, <2>3, <3>2, <3>3, <3>4 DEF Hearing
  <2>4. CASE ended' = "send failed" /\ att' = Absent /\ up' = <<>>
    <3>1. ~att'.on /\ ended' # "silence"
      BY <1>a, <2>4
    <3>2. Upgrades(heard, up)'
      <4>1. DOMAIN <<>> = {}
        OBVIOUS
      <4>2. DOMAIN up' = {}
        BY <2>4, <4>1
      <4> QED
        BY <4>2 DEF Upgrades
    <3> QED
      BY <2>0, <3>1, <3>2 DEF Hearing, Upgraded
  <2> QED
    BY <1>7, <2>1, <2>2, <2>3, <2>4 DEF AlarmFires, Upgraded
<1>8. CASE TickResumes
  BY <1>8 DEF TickResumes, clientVars, Hearing
<1>9. CASE AlarmLost
  BY <1>9 DEF AlarmLost, clientVars, Hearing
<1> QED
  BY <1>1, <1>2, <1>3, <1>4, <1>5, <1>6, <1>7, <1>8, <1>9

\* A frame the client sends stands behind those under way.
LEMMA FramesKept ==
    ASSUME NEW u \in Seq(FrameRow), NEW f \in FrameRow
    PROVE  /\ \A n \in DOMAIN u : n \in DOMAIN Append(u, f) /\ Append(u, f)[n] = u[n]
           /\ Len(u) + 1 \in DOMAIN Append(u, f) /\ Append(u, f)[Len(u) + 1] = f
           /\ \A n \in DOMAIN Append(u, f) : n \in DOMAIN u \/ Append(u, f)[n] = f
<1>1. /\ Append(u, f) \in Seq(FrameRow) /\ Len(Append(u, f)) = Len(u) + 1
      /\ \A n \in 1 .. Len(u) : Append(u, f)[n] = u[n]
      /\ Append(u, f)[Len(u) + 1] = f /\ Len(u) \in Nat
  BY AppendProperties, LenProperties
<1>2. DOMAIN u = 1 .. Len(u) /\ DOMAIN Append(u, f) = 1 .. Len(u) + 1
  BY <1>1, LenProperties
<1> QED
  BY <1>1, <1>2

\* The client's steps keep the invariant.
LEMMA ClientHeard ==
    ASSUME HeartbeatTypeOK, Hearing,
           \/ ClientHears \/ ClientNudges \/ ClientDies
           \/ \E kind \in {"upgrade", "event", "disconnect"} : ClientSends(kind)
    PROVE  Hearing'
<1>0. up \in Seq(FrameRow) /\ heard \in 0 .. Deadline /\ Nudging \in Nat /\ Nudging > 0 /\ Delay \in Nat
  <2>1. up \in Seq(FrameRow) /\ heard \in 0 .. Deadline
    BY AgesTyped
  <2>2. Nudging \in Nat /\ Delay \in Nat /\ Delay < Nudging
    BY TimesAddUp
  <2> QED
    BY <2>1, <2>2
<1>1. \A kind \in Frames : Frame(kind) \in FrameRow /\ Frame(kind).kind = kind /\ Frame(kind).age = 0
  BY HeartbeatTimes DEF Frame, FrameRow
\* What is heard at once: nothing is owed to the client.
<1>2. ASSUME heard' = 0, nudged' = FALSE, UNCHANGED <<object, warmUp, ended>>,
             NEW f \in FrameRow, up' = Append(up, f)
      PROVE  Hearing'
  <2>1. Upgrades(heard, up)'
    <3>1. ASSUME NEW n \in DOMAIN up' PROVE 0 <= up'[n].age
      <4>1. up'[n] \in FrameRow
        BY <1>0, <1>2, <3>1, AppendProperties, ElementOfSeq, LenProperties
      <4> QED
        BY <4>1, HeartbeatTimes DEF FrameRow
    <3> QED
      BY <1>2, <3>1 DEF Upgrades
  <2>2. ASSUME Upgraded(att), client = "up"
        PROVE  HeardSoon(0, FALSE, down', up') /\ Scheduled(att.lastPing, 0, down')
    <3>1. 0 < Nudging
      BY <1>0
    <3>2. att.lastPing # Never /\ att.lastPing \in Never .. OldPing
      BY <2>2, AgesTyped DEF Hearing, Scheduled
    <3>3. 0 <= att.lastPing + Delay
      BY <1>0, <3>2, TimesAddUp DEF Never
    <3> QED
      BY <3>1, <3>2, <3>3 DEF HeardSoon, Scheduled
  <2>3. client' = "up" => client = "up"
    BY DEF HeartbeatTypeOK, ClientHears, ClientNudges, ClientDies, ClientSends
  <2> QED
    BY <1>2, <2>1, <2>2, <2>3 DEF Hearing, object
\* What is sent beside it: nothing is lost.
<1>3. ASSUME NEW kind \in Frames, kind # "upgrade", up' = Append(up, Frame(kind)),
             UNCHANGED <<object, client, heard, down, warmUp, ended>>,
             nudged' = nudged \/ (kind = "nudge" /\ Silent /\ ~nudged /\ nudged' = TRUE)
      PROVE  Hearing'
  <2>1. Frame(kind) \in FrameRow /\ Frame(kind).kind = kind /\ Frame(kind).age = 0
    BY <1>1
  <2>2. client = "up" => Upgrades(heard, up)'
    BY <1>0, <1>3, <2>1, FramesKept DEF Upgrades, Hearing
  <2>3. nudged' => heard >= Nudging
    BY <1>3 DEF Hearing, Silent, Nudging
  <2>4. ASSUME client = "up", Upgraded(att)
        PROVE  HeardSoon(heard, nudged', down, up')
    <3>1. HeardSoon(heard, nudged, down, up)
      BY <2>4 DEF Hearing
    <3>2. \A n \in DOMAIN up : n \in DOMAIN up' /\ up'[n] = up[n]
      BY <1>0, <1>3, <2>1, FramesKept
    <3>3. CASE nudged' = nudged
      BY <3>1, <3>2, <3>3 DEF HeardSoon
    <3>4. CASE kind = "nudge" /\ Silent /\ ~nudged /\ nudged' = TRUE
      <4>1. CASE heard = Nudging
        <5>1. PICK k \in DOMAIN up' : up'[k] = Frame("nudge")
          BY <1>0, <1>3, <2>1, <3>4, FramesKept
        <5>2. up'[k].kind = "nudge" /\ heard <= Nudging + up'[k].age
          BY <1>0, <2>1, <3>4, <4>1, <5>1
        <5> QED
          BY <5>2 DEF HeardSoon
      <4>2. CASE heard # Nudging
        <5>1. heard > Nudging
          BY <1>0, <3>4, <4>2 DEF Silent, Nudging
        <5> QED
          BY <1>0, <3>1, <3>2, <5>1 DEF HeardSoon
      <4> QED
        BY <4>1, <4>2
    <3> QED
      BY <1>3, <3>3, <3>4
  <2> QED
    BY <1>3, <2>2, <2>3, <2>4 DEF Hearing, object
<1>4. CASE ClientHears
  BY <1>1, <1>2, <1>4 DEF ClientHears, Frames
<1>5. CASE ClientNudges
  BY <1>3, <1>5 DEF ClientNudges, Frames
<1>6. CASE ClientDies
  BY <1>6 DEF ClientDies, object, Hearing
<1>7. ASSUME NEW kind \in {"upgrade", "event", "disconnect"}, ClientSends(kind)
      PROVE  Hearing'
  <2>1. kind \in Frames
    BY DEF Frames
  <2>2. CASE kind = "upgrade"
    BY <1>1, <1>2, <1>7, <2>1, <2>2 DEF ClientSends
  <2>3. CASE kind # "upgrade"
    BY <1>3, <1>7, <2>1, <2>3 DEF ClientSends
  <2> QED
    BY <2>2, <2>3
<1> QED
  BY <1>4, <1>5, <1>6, <1>7

\* Time keeps the invariant: it stands still for a nudge that is due.
LEMMA TimeHeard ==
    ASSUME HeartbeatTypeOK, Hearing, TimePasses
    PROVE  Hearing'
<1>1. /\ Delay \in Nat /\ Nudging \in Nat /\ OldPing \in Nat /\ Deadline \in Nat
      /\ Nudging + 2 * Delay < Deadline
  BY TimesAddUp
<1>2. /\ \A n \in DOMAIN up : up[n].age \in 0 .. Delay
      /\ \A n \in DOMAIN down : down[n] \in 0 .. Delay
      /\ heard \in 0 .. Deadline /\ att.lastPing \in Never .. OldPing
      /\ att \in SessionRow /\ inner \in SessionRow
  BY AgesTyped
<1>3. /\ DOMAIN down' = DOMAIN down /\ DOMAIN up' = DOMAIN up
      /\ \A n \in DOMAIN down : down'[n] = down[n] + 1
      /\ \A n \in DOMAIN up : up'[n].kind = up[n].kind /\ up'[n].age = up[n].age + 1
  BY TimeDoes
<1>4. att' = Older(att) /\ inner' = Older(inner)
  BY TimeDoes
<1>5. heard' = Capped(heard, Deadline) /\ UNCHANGED <<client, nudged, warmUp, ended>>
  BY DEF TimePasses
<1>6. heard' \in Nat /\ heard' >= heard /\ heard' <= heard + 1
  BY <1>1, <1>2, <1>5 DEF Capped, Never
<1>7. Upgrades(heard, up) => Upgrades(heard, up)'
  <2>1. ASSUME Upgrades(heard, up), NEW n \in DOMAIN up', up'[n].kind = "upgrade"
        PROVE  heard' <= up'[n].age
    BY <1>2, <1>3, <1>6, <2>1 DEF Upgrades
  <2> QED
    BY <2>1 DEF Upgrades
<1>8. att'.on = att.on /\ att'.transport = att.transport /\ att'.lastPing = Capped(att.lastPing, OldPing)
      /\ inner'.on = inner.on
  BY <1>2, <1>4, OlderTyped
<1>9. ASSUME client = "up", Upgraded(att) PROVE HeardSoon(heard', nudged, down', up')
  <2>1. HeardSoon(heard, nudged, down, up)
    BY <1>9 DEF Hearing
  <2>2. ~(heard >= Nudging /\ ~nudged)
    BY <1>9 DEF TimePasses, Silent, Upgraded, Nudging
  <2>3. CASE heard < Nudging
    <3>1. ~nudged
      BY <1>1, <1>2, <2>3 DEF Hearing
    <3>2. heard' < Nudging \/ heard' = Nudging
      BY <1>1, <1>2, <1>6, <2>3
    <3> QED
      BY <3>1, <3>2 DEF HeardSoon
  <2>4. ASSUME NEW n \in DOMAIN up, up[n].kind = "nudge", heard <= Nudging + up[n].age
        PROVE  HeardSoon(heard', nudged, down', up')
    <3>1. heard' <= Nudging + up'[n].age /\ up'[n].kind = "nudge" /\ n \in DOMAIN up'
      BY <1>1, <1>2, <1>3, <1>6, <2>4
    <3> QED
      BY <3>1 DEF HeardSoon
  <2>5. ASSUME NEW n \in DOMAIN down, heard <= Nudging + Delay + down[n]
        PROVE  HeardSoon(heard', nudged, down', up')
    <3>1. heard' <= Nudging + Delay + down'[n] /\ n \in DOMAIN down'
      BY <1>1, <1>2, <1>3, <1>6, <2>5
    <3> QED
      BY <3>1 DEF HeardSoon
  <2>6. heard = Nudging => nudged
    BY <1>1, <2>2
  <2> QED
    BY <2>1, <2>3, <2>4, <2>5, <2>6 DEF HeardSoon
<1>10. ASSUME client = "up", Upgraded(att) PROVE Scheduled(att'.lastPing, heard', down')
  <2>1. Scheduled(att.lastPing, heard, down)
    BY <1>10 DEF Hearing
  <2>2. CASE att.lastPing = OldPing
    <3>1. att'.lastPing = OldPing /\ OldPing # Never
      BY <1>1, <1>8, <2>2 DEF Capped, Never
    <3> QED
      BY <3>1 DEF Scheduled
  <2>3. CASE att.lastPing # OldPing
    <3>1. att'.lastPing = att.lastPing + 1 /\ att.lastPing + 1 # Never /\ att.lastPing \in Int
      BY <1>1, <1>2, <1>8, <2>1, <2>3 DEF Capped, Never, Scheduled
    <3>2. CASE heard <= att.lastPing + Delay
      <4>1. heard' <= att'.lastPing + Delay
        BY <1>1, <1>2, <1>6, <3>1, <3>2
      <4> QED
        BY <3>1, <4>1 DEF Scheduled
    <3>3. ASSUME NEW n \in DOMAIN down, down[n] = att.lastPing
          PROVE  n \in DOMAIN down' /\ down'[n] = att'.lastPing
      BY <1>3, <3>1, <3>3
    <3> QED
      BY <2>1, <2>3, <3>1, <3>2, <3>3 DEF Scheduled
  <2> QED
    BY <2>2, <2>3
<1>11. nudged' => heard' >= Nudging
  BY <1>1, <1>2, <1>5, <1>6 DEF Hearing
<1>12. Upgraded(att') => Upgraded(att)
  BY <1>8 DEF Upgraded
<1>13. att'.on /\ inner'.on => inner' = att'
  BY <1>4, <1>8 DEF Hearing
<1> QED
  BY <1>5, <1>7, <1>8, <1>9, <1>10, <1>11, <1>12, <1>13 DEF Hearing

\* A client that nudges hears a ping before its own deadline, for any intervals
\* in which a nudge finds the ping overdue and its answer comes in time, where
\* the Worker's warm-up arrives before the first eviction.
THEOREM NudgesAreHeard == LateWarmUp = FALSE => (HeartbeatSpec => []NeverSilenced)
<1> SUFFICES ASSUME LateWarmUp = FALSE
             PROVE  HeartbeatSpec => []NeverSilenced
  OBVIOUS
<1>1. HeartbeatInit => Hearing
  <2>1. ~Absent.on /\ DOMAIN <<>> = {}
    BY DEF Absent
  <2> QED
    BY <2>1 DEF HeartbeatInit, Hearing, Upgrades, Upgraded
<1>2. HeartbeatTypeOK /\ Hearing /\ [HeartbeatNext]_heartbeatVars => Hearing'
  <2> SUFFICES ASSUME HeartbeatTypeOK, Hearing, [HeartbeatNext]_heartbeatVars
               PROVE  Hearing'
    OBVIOUS
  <2>1. CASE UNCHANGED heartbeatVars
    BY <2>1 DEF heartbeatVars, object, clientVars, Hearing
  <2>2. CASE HeartbeatNext
    BY <2>2, MessageHeard, ObjectHeard, ClientHeard, TimeHeard DEF HeartbeatNext
  <2> QED
    BY <2>1, <2>2
<1>3. Hearing => NeverSilenced
  BY DEF Hearing, NeverSilenced
<1> QED
  BY <1>1, <1>2, <1>3, HeartbeatTyped, PTL DEF HeartbeatSpec

-----------------------------------------------------------------------------
(* What the owner hears of a peer: the state has its type *)

Says == Presences \cup {"nothing"}
Handler == [says : Presences, todo : SUBSET Sios, delivered : BOOLEAN]

PeerRow == [seated : BOOLEAN, pending : BOOLEAN, gone : BOOLEAN, join : {"no", "ask"}, joins : Nat]
ParkedRow == [left : Nat \cup {NotYet}, joined : Nat \cup {NotYet}]
JoinRow == [at : {"no", "parked", "ask", "answer"}, says : Says]

\* The shapes of the peer, of the hub's records and of the owner's sessions.
PeerTyped ==
    /\ cast \in Casts /\ now \in Nat
    /\ peer \in PeerRow /\ calls \in Seq(Presences)
    /\ told \in Says /\ unheard \in Says /\ parked \in ParkedRow
    /\ work \in Seq(Handler)
    /\ conn \in [Sessions -> {"new", "live", "dead"}]
    /\ entry \in [Sessions -> {"none", "held", "joined"}]
    /\ join \in [Sessions -> JoinRow]
    /\ view \in [Sessions -> Says]

\* A call that ends leaves the others, in their order.
LEMMA Removed ==
    ASSUME NEW S, NEW q \in Seq(S), NEW n \in DOMAIN q
    PROVE  /\ RemoveAt(q, n) \in Seq(S) /\ Len(RemoveAt(q, n)) = Len(q) - 1
           /\ \A k \in DOMAIN q : k # n => \E j \in DOMAIN RemoveAt(q, n) : RemoveAt(q, n)[j] = q[k]
           /\ \A j \in DOMAIN RemoveAt(q, n) : \E k \in DOMAIN q : RemoveAt(q, n)[j] = q[k]
           /\ n < Len(q) => RemoveAt(q, n)[Len(q) - 1] = q[Len(q)]
<1> DEFINE a == SubSeq(q, 1, n - 1)
           b == SubSeq(q, n + 1, Len(q))
           r == RemoveAt(q, n)
<1>1. Len(q) \in Nat /\ n \in 1 .. Len(q) /\ DOMAIN q = 1 .. Len(q) /\ \A k \in 1 .. Len(q) : q[k] \in S
  BY LenProperties, ElementOfSeq
<1>2. /\ a \in Seq(S) /\ Len(a) = n - 1
      /\ \A k \in 1 .. n - 1 : a[k] = q[k]
  <2>1. \A k \in 1 .. n - 1 : q[k] \in S
    BY <1>1
  <2>2. /\ a \in Seq(S) /\ Len(a) = IF 1 <= n - 1 THEN (n - 1) - 1 + 1 ELSE 0
        /\ \A k \in 1 .. (n - 1) - 1 + 1 : a[k] = q[1 + k - 1]
    BY <1>1, <2>1, SubSeqProperties
  <2> QED
    BY <1>1, <2>2
<1>3. /\ b \in Seq(S) /\ Len(b) = Len(q) - n
      /\ \A k \in 1 .. Len(q) - n : b[k] = q[n + k]
  <2>1. \A k \in n + 1 .. Len(q) : q[k] \in S
    BY <1>1
  <2>2. /\ b \in Seq(S) /\ Len(b) = IF n + 1 <= Len(q) THEN Len(q) - (n + 1) + 1 ELSE 0
        /\ \A k \in 1 .. Len(q) - (n + 1) + 1 : b[k] = q[(n + 1) + k - 1]
    BY <1>1, <2>1, SubSeqProperties
  <2>3. Len(b) = Len(q) - n
    BY <1>1, <2>2
  <2>4. ASSUME NEW k \in 1 .. Len(q) - n PROVE b[k] = q[n + k]
    <3>1. k \in 1 .. Len(q) - (n + 1) + 1 /\ (n + 1) + k - 1 = n + k
      BY <1>1
    <3> QED
      BY <2>2, <3>1
  <2> QED
    BY <2>2, <2>3, <2>4
<1>4. r = a \o b
  BY DEF RemoveAt
<1> HIDE DEF a, b, r
<1>5. /\ r \in Seq(S) /\ Len(r) = Len(q) - 1
      /\ \A k \in 1 .. Len(q) - 1 : r[k] = IF k < n THEN q[k] ELSE q[k + 1]
  <2>1. /\ r \in Seq(S) /\ Len(r) = Len(a) + Len(b)
        /\ \A k \in 1 .. Len(a) + Len(b) : r[k] = IF k <= Len(a) THEN a[k] ELSE b[k - Len(a)]
    BY <1>2, <1>3, <1>4, ConcatProperties
  <2>2. ASSUME NEW k \in 1 .. Len(q) - 1 PROVE r[k] = IF k < n THEN q[k] ELSE q[k + 1]
    <3>1. CASE k < n
      BY <1>1, <1>2, <1>3, <2>1, <3>1
    <3>2. CASE ~(k < n)
      <4>1. r[k] = b[k - (n - 1)] /\ k - (n - 1) \in 1 .. Len(q) - n
        <5>1. k \in 1 .. (n - 1) + (Len(q) - n) /\ ~(k <= n - 1) /\ k - (n - 1) \in 1 .. Len(q) - n
          BY <1>1, <3>2
        <5>2. Len(a) = n - 1 /\ Len(b) = Len(q) - n
          BY <1>2, <1>3
        <5> QED
          BY <2>1, <5>1, <5>2
      <4>2. b[k - (n - 1)] = q[n + (k - (n - 1))] /\ n + (k - (n - 1)) = k + 1
        BY <1>1, <1>3, <4>1
      <4> QED
        BY <3>2, <4>1, <4>2
    <3> QED
      BY <3>1, <3>2
  <2> QED
    BY <1>1, <1>2, <1>3, <2>1, <2>2
<1>6. DOMAIN r = 1 .. Len(q) - 1
  BY <1>5
<1>7. ASSUME NEW k \in DOMAIN q, k # n PROVE \E j \in DOMAIN r : r[j] = q[k]
  <2>1. CASE k < n
    BY <1>1, <1>5, <1>6, <2>1
  <2>2. CASE k > n
    <3>1. k - 1 \in 1 .. Len(q) - 1 /\ ~(k - 1 < n) /\ (k - 1) + 1 = k
      BY <1>1, <2>2
    <3> QED
      BY <1>5, <1>6, <3>1
  <2> QED
    BY <1>1, <1>7, <2>1, <2>2
<1>8. ASSUME NEW j \in DOMAIN r PROVE \E k \in DOMAIN q : r[j] = q[k]
  BY <1>1, <1>5, <1>6
<1>9. n < Len(q) => r[Len(q) - 1] = q[Len(q)]
  BY <1>1, <1>5
<1> QED
  BY <1>5, <1>7, <1>8, <1>9 DEF r

\* The answers a hub computes are of their type.
LEMMA AnswersTyped ==
    /\ ParkedChoice \in Says /\ PresenceAnswer \in Says
    /\ NoneParked \in ParkedRow /\ NoJoin \in JoinRow
    /\ PeerTyped => \A s \in Sessions, says \in Says : Told(s, says) \in [Sessions -> Says]
<1>1. ParkedChoice \in Says /\ PresenceAnswer \in Says
  BY DEF ParkedChoice, PresenceAnswer, Says, Presences
<1>2. NoneParked \in ParkedRow /\ NoJoin \in JoinRow
  BY DEF NoneParked, ParkedRow, NoJoin, JoinRow, Says
<1>3. PeerTyped => \A s \in Sessions, says \in Says : Told(s, says) \in [Sessions -> Says]
  BY DEF PeerTyped, Told
<1> QED
  BY <1>1, <1>2, <1>3

\* The end of a push handler parks what nobody took, and parks nothing else.
LEMMA SettlesDoes ==
    ASSUME PeerTyped, NEW says \in Presences, NEW delivered \in BOOLEAN, Settles(says, delivered)
    PROVE  /\ parked' \in ParkedRow
           /\ parked.left # NotYet => parked'.left # NotYet
           /\ parked.joined # NotYet => parked'.joined # NotYet
           /\ ~delivered /\ says = "absent" => parked'.left # NotYet
           /\ ~delivered /\ says = "present" => parked'.joined # NotYet
<1>1. now \in Nat /\ parked \in ParkedRow /\ now # NotYet
  BY DEF PeerTyped, NotYet
<1>2. CASE delivered
  BY <1>1, <1>2 DEF Settles
<1>3. CASE ~delivered /\ says = "absent"
  <2>1. parked' = [parked EXCEPT !.left = now]
    BY <1>3 DEF Settles
  <2> QED
    BY <1>1, <1>3, <2>1 DEF ParkedRow
<1>4. CASE ~delivered /\ says = "present"
  <2>1. parked' = [parked EXCEPT !.joined = now]
    BY <1>4 DEF Settles
  <2> QED
    BY <1>1, <1>4, <2>1 DEF ParkedRow
<1> QED
  BY <1>2, <1>3, <1>4 DEF Presences

\* The session that is called leaves its handler's list, the last one ends it.
Called(n, s, ok) ==
    LET says == work[n].says
        delivered == work[n].delivered \/ ok
        rest == work[n].todo \ {s}
    IN  /\ view' = IF ok /\ entry[s] = "joined" THEN Told(s, says) ELSE view
        /\ unheard' = Taken(says, ok)
        /\ IF rest = {}
           THEN Settles(says, delivered) /\ work' = RemoveAt(work, n)
           ELSE /\ work' = [work EXCEPT ![n] = [@ EXCEPT !.todo = rest, !.delivered = delivered]]
                /\ UNCHANGED <<parked, lastLeft>>

\* The call of a session, with its answer.
LEMMA CallDoes ==
    ASSUME PeerTyped, NEW n \in DOMAIN work, NEW s \in Sios, CallSession(n, s)
    PROVE  /\ s \in work[n].todo /\ work[n] \in Handler /\ s \in Sessions
           /\ \E ok \in BOOLEAN : /\ "fail" \notin cast.faults /\ conn[s] = "live" => ok
                                  /\ Called(n, s, ok)
           /\ UNCHANGED <<cast, peerVars, told, conn, entry, join, now>>
<1>1. work[n] \in Handler
  BY ElementOfSeq, LenProperties DEF PeerTyped
<1>2. PICK ok \in IF "fail" \in cast.faults \/ conn[s] # "live" THEN BOOLEAN ELSE {TRUE} :
          Called(n, s, ok)
  BY DEF CallSession, Called
<1>3. ok \in BOOLEAN /\ ("fail" \notin cast.faults /\ conn[s] = "live" => ok)
  BY <1>2
<1> QED
  BY <1>1, <1>2, <1>3 DEF CallSession, Sessions, Handler

\* What a handler looks like while it goes on.
LEMMA CalledWork ==
    ASSUME PeerTyped, NEW n \in DOMAIN work, NEW s, NEW ok \in BOOLEAN, Called(n, s, ok),
           work[n].todo \ {s} # {}
    PROVE  /\ work' \in Seq(Handler) /\ DOMAIN work' = DOMAIN work
           /\ \A k \in DOMAIN work : k # n => work'[k] = work[k]
           /\ work'[n].says = work[n].says /\ work'[n].todo = work[n].todo \ {s}
           /\ work'[n].delivered = (work[n].delivered \/ ok)
<1>1. work \in Seq(Handler) /\ work[n] \in Handler /\ n \in 1 .. Len(work)
  BY ElementOfSeq, LenProperties DEF PeerTyped
<1>2. PICK h : h = [work[n] EXCEPT !.todo = work[n].todo \ {s}, !.delivered = work[n].delivered \/ ok]
  OBVIOUS
<1>3. /\ h \in Handler /\ h.says = work[n].says /\ h.todo = work[n].todo \ {s}
      /\ h.delivered = (work[n].delivered \/ ok)
  BY <1>1, <1>2 DEF Handler
<1>4. work' = [work EXCEPT ![n] = h]
  BY <1>2 DEF Called
<1>5. /\ work' \in Seq(Handler) /\ Len(work') = Len(work)
      /\ \A j \in 1 .. Len(work) : work'[j] = IF j = n THEN h ELSE work[j]
  BY <1>1, <1>3, <1>4, ExceptSeq
<1> QED
  BY <1>1, <1>3, <1>5, LenProperties

\* A push handler begins, or the push was no news.
Pushed(says) ==
    LET raws == {s \in Raws : entry[s] = "joined"}
        listed == {s \in Sios : entry[s] # "none"}
    IN  /\ told # says /\ told' = says
        /\ view' = [s \in Sessions |-> IF s \in raws /\ conn[s] = "live" THEN says ELSE view[s]]
        /\ unheard' = IF raws # {} THEN "nothing" ELSE says
        /\ \/ listed = {} /\ Settles(says, raws # {}) /\ work' = work
           \/ /\ listed # {}
              /\ work' = Append(work, [says |-> says, todo |-> listed, delivered |-> raws # {}])
              /\ UNCHANGED <<parked, lastLeft>>

\* The push of a call under way.
LEMMA PushDoes ==
    ASSUME PeerTyped, NEW n \in DOMAIN calls, HandlePush(n)
    PROVE  /\ calls[n] \in Presences /\ calls' = RemoveAt(calls, n) /\ calls' \in Seq(Presences)
           /\ "reorder" \in cast.faults \/ n = 1
           /\ UNCHANGED <<cast, peer, conn, entry, join, now>>
           /\ (told = calls[n] /\ UNCHANGED <<hub, view, unheard>>) \/ Pushed(calls[n])
<1>1. calls[n] \in Presences /\ RemoveAt(calls, n) \in Seq(Presences)
  BY ElementOfSeq, LenProperties, Removed DEF PeerTyped
<1> QED
  BY <1>1 DEF HandlePush, Tells, Pushed

\* What a new push handler adds to those at work.
LEMMA PushedWork ==
    ASSUME PeerTyped, NEW says \in Presences, Pushed(says)
    PROVE  /\ work' \in Seq(Handler)
           /\ \A k \in DOMAIN work : k \in DOMAIN work' /\ work'[k] = work[k]
           /\ {s \in Sios : entry[s] # "none"} # {} =>
                  \E k \in DOMAIN work' :
                      work'[k] = [says |-> says, todo |-> {s \in Sios : entry[s] # "none"},
                                  delivered |-> {s \in Raws : entry[s] = "joined"} # {}]
           /\ \A k \in DOMAIN work' : k \in DOMAIN work \/ work'[k].says = says
<1> DEFINE listed == {s \in Sios : entry[s] # "none"}
           raws == {s \in Raws : entry[s] = "joined"}
<1>1. PICK h : h = [says |-> says, todo |-> listed, delivered |-> raws # {}]
  OBVIOUS
<1>2. h \in Handler /\ h.says = says
  BY <1>1 DEF Handler
<1>3. work \in Seq(Handler)
  BY DEF PeerTyped
<1>4. CASE listed = {}
  <2>1. work' = work
    BY <1>4 DEF Pushed
  <2> QED
    BY <1>3, <1>4, <2>1
<1>5. CASE listed # {}
  <2>1. work' = Append(work, h)
    BY <1>1, <1>5 DEF Pushed
  <2>2. /\ work' \in Seq(Handler) /\ Len(work') = Len(work) + 1 /\ Len(work) \in Nat
        /\ \A k \in 1 .. Len(work) : work'[k] = work[k]
        /\ work'[Len(work) + 1] = h
    BY <1>2, <1>3, <2>1, AppendProperties, LenProperties
  <2>3. DOMAIN work = 1 .. Len(work) /\ DOMAIN work' = 1 .. Len(work) + 1
    BY <1>3, <2>2, LenProperties
  <2>4. Len(work) + 1 \in DOMAIN work'
    BY <2>2, <2>3
  <2>5. \A k \in DOMAIN work' : k \in DOMAIN work \/ k = Len(work) + 1
    BY <2>2, <2>3
  <2>6. \A k \in DOMAIN work : k \in DOMAIN work' /\ work'[k] = work[k]
    BY <2>2, <2>3
  <2>7. \E k \in DOMAIN work' : work'[k] = h
    BY <2>2, <2>4
  <2>8. \A k \in DOMAIN work' : k \in DOMAIN work \/ work'[k].says = says
    BY <1>2, <2>2, <2>5
  <2> HIDE DEF listed, raws
  <2>9. \E k \in DOMAIN work' : work'[k] = [says |-> says, todo |-> listed, delivered |-> raws # {}]
    BY <1>1, <2>7
  <2> QED
    BY <2>2, <2>6, <2>8, <2>9 DEF listed, raws
<1> QED
  BY <1>4, <1>5

\* A session that is handed what is parked: both records go, the join goes on,
\* and news that was parked is handed over or too old.
LEMMA DeliverDoes ==
    ASSUME PeerTyped, NEW s \in Sessions, NEW then \in {"ask", "no"}, DeliverParked(s, then)
    PROVE  /\ parked' = NoneParked
           /\ \E r \in JoinRow : r.at \in {"parked", then} /\ join' = [join EXCEPT ![s] = r]
           /\ unheard' = unheard \/ unheard' = "nothing"
           /\ told = "absent" /\ unheard = "absent" /\ parked.left # NotYet => unheard' = "nothing"
           /\ told = "present" /\ unheard = "present" /\ parked.joined # NotYet => unheard' = "nothing"
<1>1. PICK says : says = (CASE parked # NoneParked -> ParkedChoice
                            [] parked = NoneParked /\ ReplayDue -> "absent"
                            [] OTHER -> "nothing")
  OBVIOUS
<1>2. PICK stale : stale = (\/ unheard = "absent" /\ parked.left # NotYet /\ ~Fresh(parked.left)
                            \/ unheard = "present" /\ parked.joined # NotYet /\ ~Fresh(parked.joined))
  OBVIOUS
<1>3. /\ join' = [join EXCEPT ![s] = IF says = "nothing" THEN [at |-> then, says |-> says]
                                     ELSE [at |-> "parked", says |-> says]]
      /\ unheard' = IF stale THEN "nothing" ELSE Taken(says, TRUE)
      /\ parked' = NoneParked
  BY <1>1, <1>2 DEF DeliverParked
<1>4. says \in Says
  BY <1>1, AnswersTyped DEF Says, Presences
<1>5. PICK r : r = IF says = "nothing" THEN [at |-> then, says |-> says] ELSE [at |-> "parked", says |-> says]
  OBVIOUS
<1>6. r \in JoinRow /\ r.at \in {"parked", then} /\ join' = [join EXCEPT ![s] = r]
  BY <1>3, <1>4, <1>5 DEF JoinRow
<1>7. unheard' = unheard \/ unheard' = "nothing"
  BY <1>3 DEF Taken
<1>8. parked.left \in Nat \cup {NotYet} /\ parked.joined \in Nat \cup {NotYet} /\ now \in Nat
  BY DEF PeerTyped, ParkedRow
<1>9. ASSUME told = "absent", unheard = "absent", parked.left # NotYet PROVE unheard' = "nothing"
  <2>1. CASE Fresh(parked.left)
    <3>1. parked # NoneParked
      BY <1>9 DEF NoneParked
    <3>2. says = "absent"
      BY <1>1, <1>9, <2>1, <3>1 DEF ParkedChoice
    <3> QED
      BY <1>3, <1>9, <3>2 DEF Taken
  <2>2. CASE ~Fresh(parked.left)
    BY <1>2, <1>3, <1>9, <2>2
  <2> QED
    BY <2>1, <2>2
<1>10. ASSUME told = "present", unheard = "present", parked.joined # NotYet PROVE unheard' = "nothing"
  <2>1. CASE Fresh(parked.joined)
    <3>1. parked # NoneParked
      BY <1>10 DEF NoneParked
    <3>2. says = "present"
      BY <1>1, <1>10, <2>1, <3>1 DEF ParkedChoice
    <3> QED
      BY <1>3, <1>10, <3>2 DEF Taken
  <2>2. CASE ~Fresh(parked.joined)
    BY <1>2, <1>3, <1>10, <2>2
  <2> QED
    BY <2>1, <2>2
<1> QED
  BY <1>3, <1>6, <1>7, <1>9, <1>10

\* Initially the state has its type.
LEMMA PeerTypedInit == PeerInit => PeerTyped
<1> SUFFICES ASSUME PeerInit PROVE PeerTyped
  OBVIOUS
<1>1. peer \in PeerRow /\ parked \in ParkedRow
  BY DEF PeerInit, PeerRow, ParkedRow, NoneParked
<1>2. join \in [Sessions -> JoinRow]
  BY AnswersTyped DEF PeerInit
<1> QED
  BY <1>1, <1>2 DEF PeerInit, PeerTyped, Says

\* Every step of the peer in its own hub keeps the types.
LEMMA PeerTypedPeer ==
    ASSUME PeerTyped, PeerJoins \/ PushPeerJoined \/ PeerCloses \/ DebounceEnds
    PROVE  PeerTyped'
<1>1. CASE PeerJoins
  <2>1. peer' \in PeerRow
    <3>1. peer \in PeerRow /\ peer.joins + 1 \in Nat
      BY DEF PeerTyped, PeerRow
    <3>2. peer' = [peer EXCEPT !.seated = TRUE, !.gone = FALSE, !.join = "ask", !.joins = peer.joins + 1]
      BY <1>1 DEF PeerJoins
    <3> QED
      BY <3>1, <3>2 DEF PeerRow
  <2> QED
    BY <1>1, <2>1 DEF PeerJoins, PeerTyped, hub, sessionVars
<1>2. CASE PushPeerJoined
  <2>1. peer' \in PeerRow
    BY <1>2 DEF PushPeerJoined, PeerTyped, PeerRow
  <2>2. calls' \in Seq(Presences)
    BY <1>2, AppendProperties DEF PushPeerJoined, PeerTyped, Presences
  <2> QED
    BY <1>2, <2>1, <2>2 DEF PushPeerJoined, PeerTyped, hub, sessionVars
<1>3. CASE PeerCloses
  <2>1. peer' \in PeerRow
    BY <1>3 DEF PeerCloses, PeerTyped, PeerRow
  <2> QED
    BY <1>3, <2>1 DEF PeerCloses, PeerTyped, hub, sessionVars
<1>4. CASE DebounceEnds
  <2>1. peer' \in PeerRow
    BY <1>4 DEF DebounceEnds, PeerTyped, PeerRow
  <2>2. calls' \in Seq(Presences)
    BY <1>4, AppendProperties DEF DebounceEnds, PeerTyped, Presences
  <2> QED
    BY <1>4, <2>1, <2>2 DEF DebounceEnds, PeerTyped, hub, sessionVars
<1> QED
  BY <1>1, <1>2, <1>3, <1>4

\* A push and the call of a session keep the types.
LEMMA PeerTypedPush ==
    ASSUME PeerTyped, (\E n \in DOMAIN calls : HandlePush(n)) \/ (\E n \in DOMAIN work, s \in Sios : CallSession(n, s))
    PROVE  PeerTyped'
<1>1. ASSUME NEW n \in DOMAIN calls, HandlePush(n) PROVE PeerTyped'
  <2>1. /\ calls[n] \in Presences /\ calls' \in Seq(Presences)
        /\ UNCHANGED <<cast, peer, conn, entry, join, now>>
        /\ (told = calls[n] /\ UNCHANGED <<hub, view, unheard>>) \/ Pushed(calls[n])
    BY <1>1, PushDoes
  <2>2. CASE UNCHANGED <<hub, view, unheard>>
    BY <2>1, <2>2 DEF PeerTyped, hub
  <2>3. CASE Pushed(calls[n])
    <3>1. work' \in Seq(Handler)
      BY <2>1, <2>3, PushedWork
    <3>2. told' \in Says /\ unheard' \in Says
      BY <2>1, <2>3 DEF Pushed, Says
    <3>3. view' \in [Sessions -> Says]
      <4>1. view' = [s \in Sessions |-> IF s \in {r \in Raws : entry[r] = "joined"} /\ conn[s] = "live"
                                        THEN calls[n] ELSE view[s]]
        BY <2>3 DEF Pushed
      <4> QED
        BY <2>1, <4>1 DEF PeerTyped, Says
    <3>4. parked' \in ParkedRow
      <4>1. PICK d \in BOOLEAN : Settles(calls[n], d) \/ parked' = parked
        BY <2>3 DEF Pushed
      <4> QED
        BY <2>1, <4>1, SettlesDoes DEF PeerTyped
    <3> QED
      BY <2>1, <3>1, <3>2, <3>3, <3>4 DEF PeerTyped
  <2> QED
    BY <2>1, <2>2, <2>3
<1>2. ASSUME NEW n \in DOMAIN work, NEW s \in Sios, CallSession(n, s) PROVE PeerTyped'
  <2>1. PICK ok \in BOOLEAN : Called(n, s, ok)
    BY <1>2, CallDoes
  <2>2. /\ work[n] \in Handler /\ s \in Sessions
        /\ UNCHANGED <<cast, peerVars, told, conn, entry, join, now>>
    BY <1>2, CallDoes
  <2>3. work[n].says \in Presences /\ work[n].delivered \in BOOLEAN
    BY <2>2 DEF Handler
  <2>4. view' \in [Sessions -> Says]
    BY <2>1, <2>2, <2>3, AnswersTyped DEF Called, PeerTyped, Says
  <2>5. unheard' \in Says
    BY <2>1 DEF Called, Taken, PeerTyped, Says
  <2>6. work' \in Seq(Handler) /\ parked' \in ParkedRow
    <3>1. CASE work[n].todo \ {s} = {}
      <4>1. PICK d \in BOOLEAN : d = (work[n].delivered \/ ok)
        OBVIOUS
      <4>2. Settles(work[n].says, d) /\ work' = RemoveAt(work, n)
        BY <2>1, <3>1, <4>1 DEF Called
      <4> QED
        BY <2>3, <4>2, Removed, SettlesDoes DEF PeerTyped
    <3>2. CASE work[n].todo \ {s} # {}
      <4>1. parked' = parked
        BY <2>1, <3>2 DEF Called
      <4> QED
        BY <2>1, <3>2, <4>1, CalledWork DEF PeerTyped
    <3> QED
      BY <3>1, <3>2
  <2> QED
    BY <2>2, <2>4, <2>5, <2>6 DEF PeerTyped, peerVars
<1> QED
  BY <1>1, <1>2

\* So does every step of a session of the owner.
LEMMA PeerTypedSession ==
    ASSUME PeerTyped, NEW s \in Sessions,
           \/ Open(s) \/ JoinRoom(s) \/ Register(s) \/ ParkedHeard(s) \/ AskPeer(s) \/ Snapshot(s)
           \/ Dies(s) \/ Unregister(s)
    PROVE  PeerTyped'
<1>1. CASE Open(s)
  BY <1>1 DEF Open, PeerTyped, hub, peerVars
<1>2. ASSUME NEW then \in {"ask", "no"}, DeliverParked(s, then)
      PROVE  parked' \in ParkedRow /\ join' \in [Sessions -> JoinRow] /\ unheard' \in Says
  <2>1. PICK r \in JoinRow : join' = [join EXCEPT ![s] = r]
    BY <1>2, DeliverDoes
  <2>2. join' \in [Sessions -> JoinRow]
    BY <2>1 DEF PeerTyped
  <2>3. parked' \in ParkedRow /\ unheard' \in Says
    BY <1>2, DeliverDoes, AnswersTyped DEF PeerTyped, Says
  <2> QED
    BY <2>2, <2>3
<1>3. CASE JoinRoom(s)
  <2>1. entry' \in [Sessions -> {"none", "held", "joined"}]
    BY <1>3 DEF JoinRoom, PeerTyped
  <2>2. parked' \in ParkedRow /\ join' \in [Sessions -> JoinRow] /\ unheard' \in Says
    <3>1. CASE DeliverParked(s, "ask")
      BY <1>2, <3>1
    <3>2. CASE join' = [join EXCEPT ![s] = [at |-> "ask", says |-> "nothing"]] /\ UNCHANGED <<parked, unheard>>
      BY <3>2 DEF PeerTyped, JoinRow, Says
    <3> QED
      BY <1>3, <3>1, <3>2 DEF JoinRoom
  <2> QED
    BY <1>3, <2>1, <2>2 DEF JoinRoom, PeerTyped, peerVars
<1>4. CASE Register(s)
  BY <1>2, <1>4 DEF Register, PeerTyped, peerVars
<1>5. join[s].says \in Says
  BY DEF PeerTyped, JoinRow
<1>6. CASE ParkedHeard(s)
  <2>1. view' \in [Sessions -> Says]
    BY <1>5, <1>6, AnswersTyped DEF ParkedHeard, PeerTyped
  <2>2. join' \in [Sessions -> JoinRow]
    BY <1>6 DEF ParkedHeard, PeerTyped, JoinRow, Says
  <2> QED
    BY <1>6, <2>1, <2>2 DEF ParkedHeard, PeerTyped, hub, peerVars
<1>7. CASE AskPeer(s)
  <2>2. join' \in [Sessions -> JoinRow]
    BY <1>7, AnswersTyped DEF AskPeer, PeerTyped, JoinRow
  <2> QED
    BY <1>7, <2>2 DEF AskPeer, PeerTyped, hub, peerVars
<1>8. CASE Snapshot(s)
  <2>1. view' \in [Sessions -> Says]
    BY <1>5, <1>8, AnswersTyped DEF Snapshot, PeerTyped
  <2>2. join' \in [Sessions -> JoinRow]
    BY <1>8, AnswersTyped DEF Snapshot, PeerTyped
  <2> QED
    BY <1>8, <2>1, <2>2 DEF Snapshot, PeerTyped, hub, peerVars
<1>9. CASE Dies(s)
  BY <1>9 DEF Dies, PeerTyped, hub, peerVars
<1>10. CASE Unregister(s)
  BY <1>10 DEF Unregister, PeerTyped, hub, peerVars
<1> QED
  BY <1>1, <1>3, <1>4, <1>6, <1>7, <1>8, <1>9, <1>10

\* Time passes.
LEMMA PeerTypedTick == ASSUME PeerTyped, Tick \/ UNCHANGED vars PROVE PeerTyped'
<1>1. CASE Tick
  BY <1>1 DEF Tick, PeerTyped, hub, peerVars, sessionVars
<1>2. CASE UNCHANGED vars
  BY <1>2 DEF vars, PeerTyped, hub, peerVars, sessionVars
<1> QED
  BY <1>1, <1>2

\* Every step keeps the types.
LEMMA PeerTypedStep == ASSUME PeerTyped, [PeerNext]_vars PROVE PeerTyped'
BY PeerTypedPeer, PeerTypedPush, PeerTypedSession, PeerTypedTick DEF PeerNext

\* A change nobody heard is what was last told, and it is parked or with a
\* handler that has reached nobody yet.
NewsHeld ==
    /\ unheard # "nothing" => told = unheard
    /\ \/ unheard = "nothing"
       \/ unheard = "absent" /\ parked.left # NotYet
       \/ unheard = "present" /\ parked.joined # NotYet
       \/ \E n \in DOMAIN work : work[n].says = unheard /\ ~work[n].delivered

\* A push hands its change to a raw socket, or parks it, or leaves it to its handler.
LEMMA NewsHeldPush ==
    ASSUME PeerTyped, NewsHeld, NEW n \in DOMAIN calls, HandlePush(n)
    PROVE  NewsHeld'
<1>1. /\ calls[n] \in Presences
      /\ (told = calls[n] /\ UNCHANGED <<hub, view, unheard>>) \/ Pushed(calls[n])
  BY PushDoes
<1>2. CASE UNCHANGED <<hub, view, unheard>>
  BY <1>2 DEF NewsHeld, hub
<1>3. CASE Pushed(calls[n])
  <2> DEFINE listed == {s \in Sios : entry[s] # "none"}
             raws == {s \in Raws : entry[s] = "joined"}
  <2>1. told' = calls[n] /\ (unheard' # "nothing" => unheard' = calls[n] /\ raws = {})
    BY <1>3 DEF Pushed
  <2>2. CASE listed = {} /\ raws = {}
    <3>1. Settles(calls[n], FALSE)
      BY <1>3, <2>2 DEF Pushed
    <3>2. /\ calls[n] = "absent" => parked'.left # NotYet
          /\ calls[n] = "present" => parked'.joined # NotYet
      BY <1>1, <3>1, SettlesDoes
    <3> QED
      BY <1>1, <2>1, <3>2 DEF NewsHeld, Presences
  <2>3. CASE listed # {} /\ raws = {}
    <3>1. PICK k \in DOMAIN work' :
              work'[k] = [says |-> calls[n], todo |-> listed, delivered |-> raws # {}]
      BY <1>1, <1>3, <2>3, PushedWork
    <3>2. work'[k].says = calls[n] /\ ~work'[k].delivered
      <4>1. PICK d : d = (raws # {})
        OBVIOUS
      <4>2. ~d
        BY <2>3, <4>1
      <4>3. PICK l : l = listed
        OBVIOUS
      <4>4. work'[k] = [says |-> calls[n], todo |-> l, delivered |-> d]
        BY <3>1, <4>1, <4>3
      <4> QED
        BY <4>2, <4>4
    <3> QED
      BY <2>1, <3>2 DEF NewsHeld
  <2>4. CASE raws # {}
    BY <2>1, <2>4 DEF NewsHeld
  <2> QED
    BY <2>2, <2>3, <2>4
<1> QED
  BY <1>1, <1>2, <1>3

\* A handler that ends with nobody reached parks its change.
LEMMA NewsHeldCall ==
    ASSUME PeerTyped, NewsHeld, NEW n \in DOMAIN work, NEW s \in Sios, CallSession(n, s)
    PROVE  NewsHeld'
<1>1. PICK ok \in BOOLEAN : Called(n, s, ok)
  BY CallDoes
<1>2. work[n] \in Handler /\ told' = told
  BY CallDoes
<1>3. work[n].says \in Presences /\ work[n].delivered \in BOOLEAN
  BY <1>2 DEF Handler
<1>4. /\ unheard' = unheard \/ unheard' = "nothing"
      /\ ok /\ unheard = work[n].says => unheard' = "nothing"
  BY <1>1 DEF Called, Taken
<1>5. unheard' # "nothing" => told' = unheard'
  BY <1>2, <1>4 DEF NewsHeld
<1>6. CASE unheard' = "nothing"
  BY <1>5, <1>6 DEF NewsHeld
<1>7. CASE unheard' # "nothing" /\ work[n].todo \ {s} = {}
  <2>1. PICK d \in BOOLEAN : d = (work[n].delivered \/ ok)
    OBVIOUS
  <2>2. Settles(work[n].says, d) /\ work' = RemoveAt(work, n)
    BY <1>1, <1>7, <2>1 DEF Called
  <2>3. /\ parked.left # NotYet => parked'.left # NotYet
        /\ parked.joined # NotYet => parked'.joined # NotYet
        /\ ~d /\ work[n].says = "absent" => parked'.left # NotYet
        /\ ~d /\ work[n].says = "present" => parked'.joined # NotYet
    BY <1>3, <2>2, SettlesDoes
  <2>4. unheard' = unheard /\ (work[n].says = unheard => ~ok)
    BY <1>4, <1>7
  <2>5. CASE \E k \in DOMAIN work : work[k].says = unheard /\ ~work[k].delivered
    <3>1. PICK k \in DOMAIN work : work[k].says = unheard /\ ~work[k].delivered
      BY <2>5
    <3>2. CASE k = n
      <4>1. ~d /\ work[n].says = unheard
        BY <2>1, <2>4, <3>1, <3>2
      <4> QED
        BY <1>3, <1>5, <2>3, <2>4, <4>1 DEF NewsHeld, Presences
    <3>3. CASE k # n
      <4>1. PICK j \in DOMAIN work' : work'[j] = work[k]
        BY <2>2, <3>3, Removed DEF PeerTyped
      <4> QED
        BY <1>5, <2>4, <3>1, <4>1 DEF NewsHeld
    <3> QED
      BY <3>2, <3>3
  <2> QED
    BY <1>5, <1>7, <2>3, <2>4, <2>5 DEF NewsHeld
<1>8. CASE unheard' # "nothing" /\ work[n].todo \ {s} # {}
  <2>1. /\ DOMAIN work' = DOMAIN work
        /\ \A k \in DOMAIN work : k # n => work'[k] = work[k]
        /\ work'[n].says = work[n].says
        /\ work'[n].delivered = (work[n].delivered \/ ok)
    BY <1>1, <1>8, CalledWork
  <2>2. parked' = parked
    BY <1>1, <1>8 DEF Called
  <2>3. unheard' = unheard /\ (work[n].says = unheard => ~ok)
    BY <1>4, <1>8
  <2>4. ASSUME NEW k \in DOMAIN work, work[k].says = unheard, ~work[k].delivered
        PROVE  work'[k].says = unheard' /\ ~work'[k].delivered
    BY <2>1, <2>3, <2>4
  <2> QED
    BY <1>5, <1>8, <2>1, <2>2, <2>3, <2>4 DEF NewsHeld
<1> QED
  BY <1>6, <1>7, <1>8

\* Handing over what is parked leaves no news behind that nobody holds.
LEMMA NewsHeldDeliver ==
    ASSUME PeerTyped, NewsHeld, NEW s \in Sessions, NEW then \in {"ask", "no"}, DeliverParked(s, then),
           UNCHANGED <<told, work>>
    PROVE  NewsHeld'
BY DeliverDoes DEF NewsHeld

\* Every step keeps the news.
LEMMA NewsHeldStep == ASSUME PeerTyped, NewsHeld, [PeerNext]_vars PROVE NewsHeld'
<1>1. CASE UNCHANGED <<told, unheard, parked, work>>
  BY <1>1 DEF NewsHeld
<1>2. CASE PeerJoins \/ PushPeerJoined \/ PeerCloses \/ DebounceEnds
  BY <1>1, <1>2 DEF PeerJoins, PushPeerJoined, PeerCloses, DebounceEnds, hub
<1>3. CASE \E n \in DOMAIN calls : HandlePush(n)
  BY <1>3, NewsHeldPush
<1>4. CASE \E n \in DOMAIN work, s \in Sios : CallSession(n, s)
  BY <1>4, NewsHeldCall
<1>5. ASSUME NEW s \in Sessions, JoinRoom(s) \/ Register(s) PROVE NewsHeld'
  <2>1. CASE UNCHANGED <<parked, unheard>> /\ JoinRoom(s)
    BY <1>1, <2>1 DEF JoinRoom
  <2>2. CASE \E then \in {"ask", "no"} : DeliverParked(s, then)
    <3>1. UNCHANGED <<told, work>>
      BY <1>5 DEF JoinRoom, Register
    <3> QED
      BY <2>2, <3>1, NewsHeldDeliver
  <2> QED
    BY <1>5, <2>1, <2>2 DEF JoinRoom, Register
<1>6. ASSUME NEW s \in Sessions,
             Open(s) \/ ParkedHeard(s) \/ AskPeer(s) \/ Snapshot(s) \/ Dies(s) \/ Unregister(s)
      PROVE  NewsHeld'
  BY <1>1, <1>6 DEF Open, ParkedHeard, AskPeer, Snapshot, Dies, Unregister, hub
<1>7. CASE Tick \/ UNCHANGED vars
  BY <1>1, <1>7 DEF Tick, vars, hub
<1> QED
  BY <1>2, <1>3, <1>4, <1>5, <1>6, <1>7 DEF PeerNext

\* handle_peer_left, handle_peer_joined and deliver_parked_presence, for any
\* number of sessions and any faults: a change that reached no session is parked
\* or its handler is still at it.
THEOREM UnheardNewsIsParked == PeerSpec => []NewsIsParked
<1>1. PeerInit => PeerTyped /\ NewsHeld
  BY PeerTypedInit DEF PeerInit, NewsHeld
<1>2. PeerTyped /\ NewsHeld /\ [PeerNext]_vars => (PeerTyped /\ NewsHeld)'
  BY PeerTypedStep, NewsHeldStep
<1>3. NewsHeld => NewsIsParked
  BY DEF NewsHeld, NewsIsParked
<1> QED
  BY <1>1, <1>2, <1>3, PTL DEF PeerSpec

-----------------------------------------------------------------------------
(* What the owner hears of a peer: a departure reaches every session *)

\* A session that never opened is not in the hub's registry.
Unlisted == \A s \in Sessions : conn[s] = "new" => entry[s] = "none"

\* Of a peer that is here, or may still come back, the owner was told or is being
\* told that it is present.
SaidPresent ==
    peer.seated \/ peer.pending =>
        \/ peer.join = "ask"
        \/ calls # <<>> /\ calls[Len(calls)] = "present"
        \/ calls = <<>> /\ told = "present"

\* Once the peer is gone nothing under way says that it is present.
GoneSays ==
    peer.gone =>
        /\ ~peer.seated /\ ~peer.pending /\ peer.join = "no"
        /\ \A n \in DOMAIN work : work[n].says = "absent"
        /\ \A s \in Sessions : join[s] # [at |-> "answer", says |-> "present"]

\* A session knows that the peer is gone, or one of the ways to tell it is open.
Reaches(s) ==
    \/ view[s] = "absent"
    \/ join[s].at \in {"parked", "ask"}
    \/ join[s] = [at |-> "answer", says |-> "absent"]
    \/ \E n \in DOMAIN work : s \in work[n].todo

\* The departure is under way to the owner's hub as news, or it reaches them all.
Underway ==
    peer.gone =>
        \/ calls = <<"absent">> /\ told = "present"
        \/ calls = <<>> /\ \A s \in Sessions : Listening(s) => Reaches(s)

DepartureHeard ==
    /\ Unlisted
    /\ cast.faults = {} => SaidPresent /\ GoneSays /\ Underway

\* A step that leaves a session's part alone leaves its way open.
LEMMA ReachesKept ==
    ASSUME NEW t, Reaches(t), view'[t] = view[t], join'[t] = join[t], work' = work
    PROVE  Reaches(t)'
BY DEF Reaches

\* The peer's arrival and departure in its own hub.
LEMMA DepartureHeardPeer ==
    ASSUME PeerTyped, DepartureHeard, PeerJoins \/ PushPeerJoined \/ PeerCloses \/ DebounceEnds
    PROVE  DepartureHeard'
<1>1. UNCHANGED <<cast, hub, sessionVars, now, unheard>>
  BY DEF PeerJoins, PushPeerJoined, PeerCloses, DebounceEnds
<1>2. Unlisted' /\ cast' = cast /\ told' = told
  BY <1>1 DEF DepartureHeard, Unlisted, hub, sessionVars
<1>3. SUFFICES ASSUME cast.faults = {} PROVE SaidPresent' /\ GoneSays' /\ Underway'
  BY <1>2 DEF DepartureHeard
<1>4. SaidPresent /\ GoneSays /\ Underway
  BY <1>3 DEF DepartureHeard
<1>5. peer \in PeerRow /\ calls \in Seq(Presences)
  BY DEF PeerTyped
<1>6. CASE PeerJoins
  <2>1. ~peer'.gone /\ peer'.join = "ask"
    BY <1>5, <1>6 DEF PeerJoins, PeerRow
  <2> QED
    BY <2>1 DEF SaidPresent, GoneSays, Underway
<1>7. CASE PushPeerJoined
  <2>1. peer'.gone = peer.gone /\ ~peer.gone
    BY <1>4, <1>5, <1>7 DEF PushPeerJoined, PeerRow, GoneSays
  <2>2. calls' = Append(calls, "present") /\ "present" \in Presences
    BY <1>7 DEF PushPeerJoined, Presences
  <2>3. Len(calls') = Len(calls) + 1 /\ Len(calls) \in Nat /\ calls'[Len(calls) + 1] = "present"
    BY <1>5, <2>2, AppendProperties, LenProperties
  <2>4. calls' # <<>> /\ calls'[Len(calls')] = "present"
    BY <2>3
  <2> QED
    BY <2>1, <2>4 DEF SaidPresent, GoneSays, Underway
<1>8. CASE PeerCloses
  <2>1. peer'.gone = peer.gone /\ ~peer.gone
    BY <1>4, <1>5, <1>8 DEF PeerCloses, PeerRow, GoneSays
  <2>2. peer'.join = peer.join /\ peer.seated /\ calls' = calls
    BY <1>5, <1>8 DEF PeerCloses, PeerRow
  <2>3. SaidPresent'
    BY <1>2, <1>4, <2>2 DEF SaidPresent
  <2> QED
    BY <2>1, <2>3 DEF GoneSays, Underway
<1>9. CASE DebounceEnds
  <2>0. NoLateArrival
    BY <1>3, <1>9 DEF DebounceEnds
  <2>1. /\ peer.pending /\ peer.join = "no" /\ calls = <<>>
        /\ ~peer'.pending /\ peer'.gone = ~peer.seated /\ peer'.seated = peer.seated /\ peer'.join = "no"
    BY <1>5, <1>9, <2>0 DEF DebounceEnds, PeerRow, NoLateArrival
  <2>2. told = "present"
    BY <1>4, <2>1 DEF SaidPresent
  <2>3. /\ \A n \in DOMAIN work : work[n].says = "absent"
        /\ \A s \in Sessions : join[s] # [at |-> "answer", says |-> "present"]
    <3>1. \A n \in DOMAIN work : work[n] \in Handler
      BY ElementOfSeq, LenProperties DEF PeerTyped
    <3>2. \A n \in DOMAIN work : work[n].says \in Presences
      BY <3>1 DEF Handler
    <3> QED
      BY <2>0, <3>2 DEF NoLateArrival, Presences
  <2>4. work' = work /\ join' = join
    BY <1>1 DEF hub, sessionVars
  <2>5. CASE peer.seated
    <3>1. calls' = <<>> /\ ~peer'.gone
      BY <1>9, <2>1, <2>5 DEF DebounceEnds
    <3> QED
      BY <1>2, <2>2, <3>1 DEF SaidPresent, GoneSays, Underway
  <2>6. CASE ~peer.seated
    <3>1. calls' = <<"absent">>
      BY <1>9, <2>1, <2>6 DEF DebounceEnds
    <3>2. SaidPresent'
      BY <2>1, <2>6 DEF SaidPresent
    <3>3. GoneSays'
      BY <2>1, <2>3, <2>4, <2>6 DEF GoneSays
    <3>4. Underway'
      BY <1>2, <2>2, <3>1 DEF Underway
    <3> QED
      BY <3>2, <3>3, <3>4
  <2> QED
    BY <2>5, <2>6
<1> QED
  BY <1>6, <1>7, <1>8, <1>9

\* The push of a departure reaches every session in the room, or its handler has
\* them on its list.
LEMMA DepartureHeardPush ==
    ASSUME PeerTyped, DepartureHeard, NEW n \in DOMAIN calls, HandlePush(n)
    PROVE  DepartureHeard'
<1>1. /\ calls[n] \in Presences /\ calls' = RemoveAt(calls, n) /\ calls' \in Seq(Presences)
      /\ "reorder" \in cast.faults \/ n = 1
      /\ UNCHANGED <<cast, peer, conn, entry, join, now>>
      /\ (told = calls[n] /\ UNCHANGED <<hub, view, unheard>>) \/ Pushed(calls[n])
  BY PushDoes
<1>2. Unlisted'
  BY <1>1 DEF DepartureHeard, Unlisted
<1>3. SUFFICES ASSUME cast.faults = {} PROVE SaidPresent' /\ GoneSays' /\ Underway'
  BY <1>1, <1>2 DEF DepartureHeard
<1>4. SaidPresent /\ GoneSays /\ Underway
  BY <1>3 DEF DepartureHeard
<1>5. n = 1 /\ calls \in Seq(Presences) /\ Len(calls) \in Nat /\ DOMAIN calls = 1 .. Len(calls)
  BY <1>1, <1>3, LenProperties DEF PeerTyped
<1>6. /\ Len(calls') = Len(calls) - 1
      /\ 1 < Len(calls) => calls'[Len(calls) - 1] = calls[Len(calls)]
  BY <1>1, <1>5, Removed
<1>7. told' = calls[n]
  BY <1>1 DEF hub, Pushed
<1>8. CASE Len(calls) = 1
  <2>1. calls' = <<>>
    BY <1>1, <1>6, <1>8, EmptySeq
  <2>2. SaidPresent'
    BY <1>1, <1>4, <1>5, <1>7, <1>8, <2>1 DEF SaidPresent
  <2>3. SUFFICES ASSUME peer.gone PROVE GoneSays' /\ Underway'
    BY <1>1, <2>2 DEF GoneSays, Underway
  <2>4. calls = <<"absent">> /\ told = "present"
    BY <1>4, <1>8, <2>3 DEF Underway
  <2>5. calls[n] = "absent"
    BY <1>5, <2>4
  <2>6. Pushed("absent")
    BY <1>1, <2>4, <2>5
  <2>7. \A k \in DOMAIN work' : work'[k].says = "absent"
    <3>1. /\ \A k \in DOMAIN work : work'[k] = work[k]
          /\ \A k \in DOMAIN work' : k \in DOMAIN work \/ work'[k].says = "absent"
      BY <2>6, PushedWork DEF Presences
    <3> QED
      BY <1>4, <2>3, <3>1 DEF GoneSays
  <2>8. GoneSays'
    BY <1>1, <1>4, <2>3, <2>7 DEF GoneSays
  <2>9. ASSUME NEW s \in Sessions, Listening(s)' PROVE Reaches(s)'
    <3>1. conn[s] = "live" /\ entry[s] = "joined"
      BY <1>1, <2>9 DEF Listening
    <3>2. CASE s \in Raws
      <4>1. view' = [x \in Sessions |-> IF x \in {r \in Raws : entry[r] = "joined"} /\ conn[x] = "live"
                                        THEN "absent" ELSE view[x]]
        BY <2>6 DEF Pushed
      <4>2. view'[s] = "absent"
        BY <3>1, <3>2, <4>1
      <4> QED
        BY <4>2 DEF Reaches
    <3>3. CASE s \in Sios
      <4>1. s \in {x \in Sios : entry[x] # "none"}
        BY <3>1, <3>3
      <4>2. PICK l : l = {x \in Sios : entry[x] # "none"}
        OBVIOUS
      <4>3. PICK k \in DOMAIN work' :
                work'[k] = [says |-> "absent", todo |-> {x \in Sios : entry[x] # "none"},
                            delivered |-> {r \in Raws : entry[r] = "joined"} # {}]
        BY <2>6, <4>1, PushedWork DEF Presences
      <4>4. work'[k].todo = l
        BY <4>2, <4>3
      <4> QED
        BY <4>1, <4>2, <4>4 DEF Reaches
    <3> QED
      BY <3>2, <3>3 DEF Sessions
  <2> QED
    BY <2>1, <2>8, <2>9 DEF Underway
<1>9. CASE Len(calls) # 1
  <2>1. Len(calls) > 1
    BY <1>5, <1>9
  <2>2. ~peer.gone
    <3>1. calls # <<>> /\ calls # <<"absent">>
      <4>1. (calls = <<>> => Len(calls) = 0) /\ (calls = <<"absent">> => Len(calls) = 1)
        OBVIOUS
      <4> QED
        BY <1>5, <2>1, <4>1
    <3> QED
      BY <1>4, <3>1 DEF Underway
  <2>3. calls' # <<>> /\ calls'[Len(calls')] = calls[Len(calls)] /\ calls # <<>>
    BY <1>5, <1>6, <2>1
  <2>4. SaidPresent'
    BY <1>1, <1>4, <2>3 DEF SaidPresent
  <2> QED
    BY <1>1, <2>2, <2>4 DEF GoneSays, Underway
<1> QED
  BY <1>8, <1>9

\* A session that is called hears of the departure; the others stay on the list.
LEMMA DepartureHeardCall ==
    ASSUME PeerTyped, DepartureHeard, NEW n \in DOMAIN work, NEW s \in Sios, CallSession(n, s)
    PROVE  DepartureHeard'
<1>1. PICK ok \in BOOLEAN : ("fail" \notin cast.faults /\ conn[s] = "live" => ok) /\ Called(n, s, ok)
  BY CallDoes
<1>2. /\ work[n] \in Handler /\ s \in Sessions
      /\ UNCHANGED <<cast, peerVars, told, conn, entry, join, now>>
  BY CallDoes
<1>3. Unlisted'
  BY <1>2 DEF DepartureHeard, Unlisted
<1>4. SUFFICES ASSUME cast.faults = {} PROVE SaidPresent' /\ GoneSays' /\ Underway'
  BY <1>2, <1>3 DEF DepartureHeard
<1>5. SaidPresent /\ GoneSays /\ Underway
  BY <1>4 DEF DepartureHeard
<1>6. SaidPresent'
  BY <1>2, <1>5 DEF SaidPresent, peerVars
<1>7. SUFFICES ASSUME peer.gone PROVE GoneSays' /\ Underway'
  BY <1>2, <1>6 DEF GoneSays, Underway, peerVars
<1>8. \A k \in DOMAIN work : work[k].says = "absent"
  BY <1>5, <1>7 DEF GoneSays
<1>9. /\ \A k \in DOMAIN work' : work'[k].says = "absent"
      /\ \A t \in Sios, k \in DOMAIN work :
             t # s /\ t \in work[k].todo => \E j \in DOMAIN work' : t \in work'[j].todo
  <2>1. CASE work[n].todo \ {s} = {}
    <3>1. work' = RemoveAt(work, n)
      BY <1>1, <2>1 DEF Called
    <3>2. /\ \A k \in DOMAIN work : k # n => \E j \in DOMAIN work' : work'[j] = work[k]
          /\ \A j \in DOMAIN work' : \E k \in DOMAIN work : work'[j] = work[k]
      BY <3>1, Removed DEF PeerTyped
    <3>3. \A k \in DOMAIN work' : work'[k].says = "absent"
      BY <1>8, <3>2
    <3>4. ASSUME NEW t \in Sios, NEW k \in DOMAIN work, t # s, t \in work[k].todo
          PROVE  \E j \in DOMAIN work' : t \in work'[j].todo
      <4>1. k # n
        BY <2>1, <3>4
      <4> QED
        BY <3>2, <3>4, <4>1
    <3> QED
      BY <3>3, <3>4
  <2>2. CASE work[n].todo \ {s} # {}
    <3>1. /\ DOMAIN work' = DOMAIN work
          /\ \A k \in DOMAIN work : k # n => work'[k] = work[k]
          /\ work'[n].says = work[n].says /\ work'[n].todo = work[n].todo \ {s}
      BY <1>1, <2>2, CalledWork
    <3>2. \A k \in DOMAIN work' : work'[k].says = "absent"
      BY <1>8, <3>1
    <3>3. ASSUME NEW t \in Sios, NEW k \in DOMAIN work, t # s, t \in work[k].todo
          PROVE  t \in work'[k].todo
      BY <3>1, <3>3
    <3> QED
      BY <3>1, <3>2, <3>3
  <2> QED
    BY <2>1, <2>2
<1>10. GoneSays'
  BY <1>2, <1>5, <1>7, <1>9 DEF GoneSays, peerVars
<1>11. view' = IF ok /\ entry[s] = "joined" /\ conn[s] = "live" THEN [view EXCEPT ![s] = "absent"] ELSE view
  BY <1>1, <1>8 DEF Called, Told
<1>12. ASSUME NEW t \in Sessions, Listening(t)', Reaches(t) PROVE Reaches(t)'
  <2>1. conn[t] = "live" /\ entry[t] = "joined"
    BY <1>2, <1>12 DEF Listening
  <2>2. view[t] = "absent" => view'[t] = "absent"
    BY <1>2, <1>11 DEF PeerTyped
  <2>3. t = s => view'[t] = "absent"
    BY <1>1, <1>2, <1>4, <1>11, <2>1 DEF PeerTyped
  <2>4. ASSUME t # s, NEW k \in DOMAIN work, t \in work[k].todo
        PROVE  \E j \in DOMAIN work' : t \in work'[j].todo
    <3>1. work[k] \in Handler
      BY ElementOfSeq, LenProperties DEF PeerTyped
    <3>2. t \in Sios
      BY <2>4, <3>1 DEF Handler
    <3> QED
      BY <1>9, <2>4, <3>2
  <2> QED
    BY <1>2, <1>12, <2>2, <2>3, <2>4 DEF Reaches
<1>13. Underway'
  <2>1. CASE calls = <<"absent">> /\ told = "present"
    BY <1>2, <2>1 DEF Underway, peerVars
  <2>2. CASE calls = <<>> /\ \A t \in Sessions : Listening(t) => Reaches(t)
    <3>1. \A t \in Sessions : Listening(t)' => Listening(t)
      BY <1>2 DEF Listening
    <3>2. \A t \in Sessions : Listening(t)' => Reaches(t)'
      BY <1>12, <2>2, <3>1
    <3> QED
      BY <1>2, <2>2, <3>2 DEF Underway, peerVars
  <2> QED
    BY <1>5, <1>7, <2>1, <2>2 DEF Underway
<1> QED
  BY <1>10, <1>13

\* What a step of a session leaves alone: the peer, the pushes and the hub's record
\* of what was told.
LEMMA SessionLeaves ==
    ASSUME NEW s \in Sessions,
           \/ Open(s) \/ JoinRoom(s) \/ Register(s) \/ ParkedHeard(s) \/ AskPeer(s) \/ Snapshot(s)
           \/ Dies(s) \/ Unregister(s)
    PROVE  UNCHANGED <<cast, peer, calls, told, work>>
BY DEF Open, JoinRoom, Register, ParkedHeard, AskPeer, Snapshot, Dies, Unregister, hub, peerVars

\* The rest of a join after a step of its session: never a claim that the peer is
\* present once it is gone, and a way to tell the session stays open.
SessionKeeps(s) ==
    /\ \A t \in Sessions : t # s => /\ conn'[t] = conn[t] /\ entry'[t] = entry[t]
                                    /\ join'[t] = join[t] /\ view'[t] = view[t]
    /\ conn'[s] = "new" => entry'[s] = "none"
    /\ cast.faults = {} /\ peer.gone /\ GoneSays =>
           /\ join'[s] # [at |-> "answer", says |-> "present"]
           /\ Listening(s)' /\ (Listening(s) => Reaches(s)) => Reaches(s)'

\* A session that opens, dies or is unregistered.
LEMMA SessionKeepsEnds ==
    ASSUME PeerTyped, Unlisted, NEW s \in Sessions, Open(s) \/ Dies(s) \/ Unregister(s)
    PROVE  SessionKeeps(s)
<1>1. join' = join /\ view' = view /\ work' = work
  BY DEF Open, Dies, Unregister, hub
<1>2. \A t \in Sessions : t # s => conn'[t] = conn[t] /\ entry'[t] = entry[t]
  BY DEF Open, Dies, Unregister, PeerTyped
<1>3. ~Listening(s)' /\ (conn'[s] = "new" => entry'[s] = "none")
  <2>1. CASE Open(s)
    <3>1. conn'[s] = "live" /\ entry[s] = "none"
      BY <2>1 DEF Open, PeerTyped, Unlisted
    <3>2. entry'[s] # "joined"
      BY <2>1, <3>1 DEF Open, PeerTyped
    <3> QED
      BY <3>1, <3>2 DEF Listening
  <2>2. CASE Dies(s)
    BY <2>2 DEF Dies, PeerTyped, Listening
  <2>3. CASE Unregister(s)
    BY <2>3 DEF Unregister, PeerTyped, Listening
  <2> QED
    BY <2>1, <2>2, <2>3
<1> QED
  BY <1>1, <1>2, <1>3 DEF SessionKeeps, GoneSays

\* A session that joins the room or registers again.
LEMMA SessionKeepsJoins ==
    ASSUME PeerTyped, NEW s \in Sessions, JoinRoom(s) \/ Register(s)
    PROVE  SessionKeeps(s)
<1>1. conn' = conn /\ conn[s] = "live" /\ view' = view /\ work' = work /\ join[s].at = "no"
  BY DEF JoinRoom, Register
<1>2. \A t \in Sessions : t # s => entry'[t] = entry[t]
  BY DEF JoinRoom, Register, PeerTyped
<1>3. CASE JoinRoom(s)
  <2>1. PICK r \in JoinRow : r.at \in {"parked", "ask"} /\ join' = [join EXCEPT ![s] = r]
    <3>1. CASE DeliverParked(s, "ask")
      BY <3>1, DeliverDoes
    <3>2. CASE join' = [join EXCEPT ![s] = [at |-> "ask", says |-> "nothing"]]
      <4>1. PICK r : r = [at |-> "ask", says |-> "nothing"]
        OBVIOUS
      <4>2. r \in JoinRow /\ r.at \in {"parked", "ask"} /\ join' = [join EXCEPT ![s] = r]
        BY <3>2, <4>1 DEF JoinRow, Says
      <4> QED
        BY <4>2
    <3> QED
      BY <1>3, <3>1, <3>2 DEF JoinRoom
  <2>2. join'[s] = r /\ \A t \in Sessions : t # s => join'[t] = join[t]
    BY <2>1 DEF PeerTyped
  <2>3. join'[s] # [at |-> "answer", says |-> "present"]
    BY <2>1, <2>2
  <2>4. Reaches(s)'
    BY <2>1, <2>2 DEF Reaches
  <2> QED
    BY <1>1, <1>2, <2>2, <2>3, <2>4 DEF SessionKeeps
<1>4. CASE Register(s)
  <2>1. PICK r \in JoinRow : r.at \in {"parked", "no"} /\ join' = [join EXCEPT ![s] = r]
    BY <1>4, DeliverDoes DEF Register
  <2>2. join'[s] = r /\ \A t \in Sessions : t # s => join'[t] = join[t]
    BY <2>1 DEF PeerTyped
  <2>3. join'[s] # [at |-> "answer", says |-> "present"]
    BY <2>1, <2>2
  <2>4. Listening(s)' => Listening(s)
    BY <1>1, <1>4 DEF Register, Listening
  <2>5. Reaches(s) => view[s] = "absent" \/ \E k \in DOMAIN work : s \in work[k].todo
    BY <1>1 DEF Reaches
  <2>6. Reaches(s) => Reaches(s)'
    BY <1>1, <2>5 DEF Reaches
  <2> QED
    BY <1>1, <1>2, <2>2, <2>3, <2>4, <2>6 DEF SessionKeeps
<1> QED
  BY <1>3, <1>4

\* A session that hears what was parked, asks, and hears the answer.
LEMMA SessionKeepsHears ==
    ASSUME PeerTyped, Unlisted, NEW s \in Sessions, ParkedHeard(s) \/ AskPeer(s) \/ Snapshot(s)
    PROVE  SessionKeeps(s)
<1>1. conn' = conn /\ entry' = entry /\ work' = work
  BY DEF ParkedHeard, AskPeer, Snapshot, hub
<1>2. (conn'[s] = "new" => entry'[s] = "none") /\ (Listening(s)' => Listening(s))
  BY <1>1 DEF Unlisted, Listening
<1>3. ASSUME NEW t \in Sessions, t # s PROVE view'[t] = view[t]
  BY <1>3 DEF ParkedHeard, AskPeer, Snapshot, Told, PeerTyped
<1>4. CASE ParkedHeard(s)
  <2>1. join'[s] = [at |-> "ask", says |-> "nothing"] /\ \A t \in Sessions : t # s => join'[t] = join[t]
    BY <1>4 DEF ParkedHeard, PeerTyped
  <2>2. Reaches(s)' /\ join'[s] # [at |-> "answer", says |-> "present"]
    BY <2>1 DEF Reaches
  <2> QED
    BY <1>1, <1>2, <1>3, <2>1, <2>2 DEF SessionKeeps
<1>5. CASE AskPeer(s)
  <2>1. join'[s] = [at |-> "answer", says |-> PresenceAnswer] /\ \A t \in Sessions : t # s => join'[t] = join[t]
    BY <1>5 DEF AskPeer, PeerTyped
  <2>2. ASSUME peer.gone, GoneSays PROVE PresenceAnswer = "absent"
    BY <2>2 DEF GoneSays, PresenceAnswer
  <2>3. ASSUME peer.gone, GoneSays PROVE Reaches(s)' /\ join'[s] # [at |-> "answer", says |-> "present"]
    BY <2>1, <2>2, <2>3 DEF Reaches
  <2> QED
    BY <1>1, <1>2, <1>3, <2>1, <2>3 DEF SessionKeeps
<1>6. CASE Snapshot(s)
  <2>1. join'[s] = NoJoin /\ \A t \in Sessions : t # s => join'[t] = join[t]
    BY <1>6 DEF Snapshot, PeerTyped
  <2>2. join'[s] # [at |-> "answer", says |-> "present"]
    BY <2>1 DEF NoJoin
  <2>3. ASSUME peer.gone, GoneSays, Listening(s), Reaches(s) PROVE Reaches(s)'
    <3>1. join[s] \in JoinRow /\ join[s].at = "answer" /\ conn[s] = "live" /\ view' = Told(s, join[s].says)
      BY <1>6, <2>3 DEF Snapshot, Listening, PeerTyped
    <3>2. join[s].says # "present"
      <4>1. join[s] # [at |-> "answer", says |-> "present"]
        BY <2>3 DEF GoneSays
      <4> QED
        BY <3>1, <4>1 DEF JoinRow
    <3>3. CASE join[s].says = "absent"
      <4>1. view'[s] = "absent"
        BY <3>1, <3>3 DEF Told, PeerTyped
      <4> QED
        BY <4>1 DEF Reaches
    <3>4. CASE join[s].says = "nothing"
      <4>1. view' = view
        BY <3>1, <3>4 DEF Told
      <4>2. view[s] = "absent" \/ \E k \in DOMAIN work : s \in work[k].todo
        BY <2>3, <3>1, <3>4 DEF Reaches
      <4> QED
        BY <1>1, <4>1, <4>2 DEF Reaches
    <3> QED
      BY <3>1, <3>2, <3>3, <3>4 DEF JoinRow, Says, Presences
  <2> QED
    BY <1>1, <1>2, <1>3, <2>1, <2>2, <2>3 DEF SessionKeeps
<1> QED
  BY <1>4, <1>5, <1>6

\* Every step of a session keeps the ways open.
LEMMA DepartureHeardSession ==
    ASSUME PeerTyped, DepartureHeard, NEW s \in Sessions,
           \/ Open(s) \/ JoinRoom(s) \/ Register(s) \/ ParkedHeard(s) \/ AskPeer(s) \/ Snapshot(s)
           \/ Dies(s) \/ Unregister(s)
    PROVE  DepartureHeard'
<1>1. UNCHANGED <<cast, peer, calls, told, work>>
  BY SessionLeaves
<1>2. Unlisted
  BY DEF DepartureHeard
<1>3. SessionKeeps(s)
  BY <1>2, SessionKeepsEnds, SessionKeepsJoins, SessionKeepsHears
<1>4. Unlisted'
  BY <1>2, <1>3 DEF SessionKeeps, Unlisted
<1>5. SUFFICES ASSUME cast.faults = {} PROVE SaidPresent' /\ GoneSays' /\ Underway'
  BY <1>1, <1>4 DEF DepartureHeard
<1>6. SaidPresent /\ GoneSays /\ Underway
  BY <1>5 DEF DepartureHeard
<1>7. SaidPresent'
  BY <1>1, <1>6 DEF SaidPresent
<1>8. SUFFICES ASSUME peer.gone PROVE GoneSays' /\ Underway'
  BY <1>1, <1>7 DEF GoneSays, Underway
<1>9. GoneSays'
  BY <1>1, <1>3, <1>5, <1>6, <1>8 DEF GoneSays, SessionKeeps
<1>10. CASE calls = <<"absent">> /\ told = "present"
  BY <1>1, <1>9, <1>10 DEF Underway
<1>11. CASE calls = <<>> /\ \A t \in Sessions : Listening(t) => Reaches(t)
  <2>1. ASSUME NEW t \in Sessions, Listening(t)' PROVE Reaches(t)'
    <3>1. CASE t = s
      BY <1>3, <1>5, <1>6, <1>8, <1>11, <2>1, <3>1 DEF SessionKeeps
    <3>2. CASE t # s
      <4>1. conn'[t] = conn[t] /\ entry'[t] = entry[t] /\ join'[t] = join[t] /\ view'[t] = view[t]
        BY <1>3, <3>2 DEF SessionKeeps
      <4>2. Listening(t)
        BY <2>1, <4>1 DEF Listening
      <4> QED
        BY <1>1, <1>11, <4>1, <4>2, ReachesKept
    <3> QED
      BY <3>1, <3>2
  <2> QED
    BY <1>1, <1>9, <1>11, <2>1 DEF Underway
<1> QED
  BY <1>6, <1>8, <1>10, <1>11 DEF Underway

\* Every step keeps it.
LEMMA DepartureHeardStep ==
    ASSUME PeerTyped, DepartureHeard, [PeerNext]_vars
    PROVE  DepartureHeard'
<1>1. CASE Tick \/ UNCHANGED vars
  <2>1. UNCHANGED <<cast, peer, calls, told, work, conn, entry, join, view>>
    BY <1>1 DEF Tick, vars, hub, peerVars, sessionVars
  <2> QED
    BY <2>1 DEF DepartureHeard, Unlisted, SaidPresent, GoneSays, Underway, Reaches, Listening
<1> QED
  BY <1>1, DepartureHeardPeer, DepartureHeardPush, DepartureHeardCall, DepartureHeardSession DEF PeerNext

\* push_peer_left and what follows it, for any number of sessions that come, go
\* and are replaced, any joins of the peer and any timing: a confirmed departure
\* is known to every session in the room once nothing is under way.
THEOREM DepartureReachesAll == PeerSpec => []GoneIsHeard
<1>1. PeerInit => PeerTyped /\ DepartureHeard
  <2> SUFFICES ASSUME PeerInit PROVE PeerTyped /\ DepartureHeard
    OBVIOUS
  <2>1. PeerTyped
    BY PeerTypedInit
  <2>2. Unlisted
    BY DEF PeerInit, Unlisted
  <2>3. ~peer.seated /\ ~peer.pending /\ ~peer.gone
    BY DEF PeerInit
  <2> QED
    BY <2>1, <2>2, <2>3 DEF DepartureHeard, SaidPresent, GoneSays, Underway
<1>2. PeerTyped /\ DepartureHeard /\ [PeerNext]_vars => (PeerTyped /\ DepartureHeard)'
  BY PeerTypedStep, DepartureHeardStep
<1>3. DepartureHeard => GoneIsHeard
  <2> SUFFICES ASSUME DepartureHeard, Quiet, peer.gone, cast.faults = {},
                      NEW s \in Sessions, Listening(s)
               PROVE  view[s] = "absent"
    BY DEF GoneIsHeard
  <2>1. calls = <<>> /\ work = <<>> /\ join[s].at = "no"
    BY DEF Quiet
  <2>2. Underway /\ calls # <<"absent">>
    <3>1. Len(<<>>) = 0 /\ Len(<<"absent">>) = 1
      OBVIOUS
    <3> QED
      BY <2>1, <3>1 DEF DepartureHeard
  <2>3. Reaches(s)
    BY <2>2 DEF Underway
  <2>4. DOMAIN work = {}
    BY <2>1
  <2> QED
    BY <2>1, <2>3, <2>4 DEF Reaches
<1> QED
  BY <1>1, <1>2, <1>3, PTL DEF PeerSpec
=============================================================================
