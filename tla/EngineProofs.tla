---------------------------- MODULE EngineProofs ----------------------------
(***************************************************************************)
(* Proofs about EngineSession, for any workloads, any number of rounds,    *)
(* lanes and attempts, and any window of HTTP counters.                    *)
(***************************************************************************)
EXTENDS EngineSession, SequenceTheorems, TLAPS

-----------------------------------------------------------------------------
(* The types of what the handlers make *)

\* What the assumptions say of the constants.
LEMMA Bounds ==
    /\ Idle \in Nat /\ Slack \in Nat /\ Life \in Nat /\ Window \in Nat \ {0}
    /\ RoundCap \in Nat \ {0} /\ Counters \subseteq Nat /\ MaxRound \in Nat /\ MaxLane \in Nat
    /\ 0 \in LaneIds /\ 0 \in AuthStates /\ 0 \in Rounds /\ Rounds \subseteq AuthStates
    /\ Attached \in AuthStates
<1>1. /\ Idle \in Nat /\ Slack \in Nat /\ Life \in Nat /\ Window \in Nat \ {0}
  BY LaneBounds
<1>2. RoundCap \in Nat \ {0} /\ Counters \subseteq Nat /\ MaxRound \in Nat /\ MaxLane \in Nat
  BY EngineBounds
<1> QED
  BY <1>1, <1>2 DEF LaneIds, AuthStates, Rounds, None

\* A new element keeps a sequence without repetition.
LEMMA AppendIsInjective ==
    ASSUME NEW S, NEW s \in Seq(S), NEW x \in S, IsInjective(s), x \notin Range(s)
    PROVE  IsInjective(Append(s, x))
<1> DEFINE t == Append(s, x)
<1> SUFFICES IsInjective(t)
  OBVIOUS
<1>1. Len(s) \in Nat /\ DOMAIN s = 1 .. Len(s)
  OBVIOUS
<1>2. /\ DOMAIN t = 1 .. Len(s) + 1 /\ t[Len(s) + 1] = x
      /\ \A k \in 1 .. Len(s) : t[k] = s[k]
  BY <1>1
<1> HIDE DEF t
<1>3. ASSUME NEW a \in 1 .. Len(s) + 1, NEW b \in 1 .. Len(s) + 1, t[a] = t[b]
      PROVE  a = b
  <2>1. \A k \in 1 .. Len(s) : s[k] # x
    BY <1>1 DEF Range
  <2>2. \A j, k \in 1 .. Len(s) : s[j] = s[k] => j = k
    BY <1>1 DEF IsInjective
  <2>3. a \in 1 .. Len(s) \/ a = Len(s) + 1
    BY <1>1
  <2>4. b \in 1 .. Len(s) \/ b = Len(s) + 1
    BY <1>1
  <2> QED
    BY <1>2, <1>3, <2>1, <2>2, <2>3, <2>4
<1> QED
  BY <1>2, <1>3 DEF IsInjective

\* What a longer sequence holds.
LEMMA AppendRange ==
    ASSUME NEW S, NEW s \in Seq(S), NEW x \in S
    PROVE  Range(Append(s, x)) = Range(s) \cup {x}
<1>1. /\ Len(s) \in Nat /\ DOMAIN s = 1 .. Len(s) /\ DOMAIN Append(s, x) = 1 .. Len(s) + 1
      /\ Append(s, x)[Len(s) + 1] = x /\ \A k \in 1 .. Len(s) : Append(s, x)[k] = s[k]
  OBVIOUS
<1> DEFINE t == Append(s, x)
<1> HIDE DEF t
<1>2. /\ Len(s) \in Nat /\ DOMAIN s = 1 .. Len(s) /\ DOMAIN t = 1 .. Len(s) + 1
      /\ t[Len(s) + 1] = x /\ \A k \in 1 .. Len(s) : t[k] = s[k]
  BY <1>1 DEF t
<1>3. \A k \in 1 .. Len(s) + 1 : k \in 1 .. Len(s) \/ k = Len(s) + 1
  BY <1>2
<1>4. 1 .. Len(s) \subseteq 1 .. Len(s) + 1 /\ Len(s) + 1 \in 1 .. Len(s) + 1
  BY <1>2
<1>5. Range(t) = Range(s) \cup {x}
  BY <1>2, <1>3, <1>4 DEF Range
<1> QED
  BY <1>5 DEF t

\* A sequence without one of its elements.
LEMMA RemoveTyped ==
    ASSUME NEW S, NEW s \in Seq(S), NEW n \in DOMAIN s
    PROVE  RemoveAt(s, n) \in Seq(S)
<1>1. Len(s) \in Nat /\ n \in 1 .. Len(s)
  OBVIOUS
<1>2. SubSeq(s, 1, n - 1) \in Seq(S) /\ SubSeq(s, n + 1, Len(s)) \in Seq(S)
  BY <1>1
<1> QED
  BY <1>2 DEF RemoveAt

\* The lane's operators give lanes.
LEMMA LaneTyped ==
    /\ NoLane \in Lane
    /\ \A id \in LaneIds, round \in AuthStates, t \in Nat : Mint(id, round, t) \in Lane
    /\ \A l \in Lane, t \in Nat : Sealed(l, t) \in Lane
    /\ \A l \in Lane, t \in Nat : \A f : f.n \in Nat => Received(l, f, t) \in Lane
<1>1. NoLane \in Lane
  BY Bounds DEF NoLane, Lane
<1>2. ASSUME NEW id \in LaneIds, NEW round \in AuthStates, NEW t \in Nat
      PROVE  Mint(id, round, t) \in Lane
  <2>1. t + Idle \in Nat
    BY Bounds
  <2> QED
    BY <1>1, <2>1 DEF Mint, Lane
<1>3. ASSUME NEW l \in Lane, NEW t \in Nat PROVE Sealed(l, t) \in Lane
  <2>1. t + Idle \in Nat /\ l.nextOut + 1 \in Nat
    BY Bounds DEF Lane
  <2> QED
    BY <2>1 DEF Sealed, Lane
<1>4. ASSUME NEW l \in Lane, NEW t \in Nat, NEW f, f.n \in Nat PROVE Received(l, f, t) \in Lane
  <2>1. t + Idle \in Nat
    BY Bounds
  <2> QED
    BY <1>4, <2>1 DEF Received, Lane
<1> QED
  BY <1>1, <1>2, <1>3, <1>4

\* What a session makes of its state in memory or on its socket is a session.
LEMMA SessionsTyped ==
    /\ Blank \in Session /\ Absent \in Session
    /\ \A i, a \in Session : Woken(i, a) \in Session
    /\ \A i \in Session, r \in RoundsKept : Authenticated(i, r) \in Session
    /\ \A i \in Session, l \in Lane : [i EXCEPT !.lane = l] \in Session
    /\ \A i \in Session : Stored(i) \in RoundsKept \/ rounds \notin RoundsKept
<1>1. Blank \in Session
  BY LaneTyped, Bounds DEF Blank, Session, None
<1>2. Absent \in Session
  BY <1>1 DEF Absent, Session
<1>3. \A i, a \in Session : Woken(i, a) \in Session
  BY DEF Woken
<1>4. ASSUME NEW i \in Session, NEW r \in RoundsKept PROVE Authenticated(i, r) \in Session
  <2>1. (i.connected \/ r.current # None) \in BOOLEAN /\ r.current \in AuthStates
    BY DEF RoundsKept
  <2> QED
    BY <2>1 DEF Authenticated, Session
<1>5. ASSUME NEW i \in Session, NEW l \in Lane PROVE [i EXCEPT !.lane = l] \in Session
  BY DEF Session
<1>6. ASSUME NEW i \in Session, rounds \in RoundsKept PROVE Stored(i) \in RoundsKept
  <2>0. <<>> \in Seq(AuthStates) /\ i.auth \in AuthStates /\ FALSE \in BOOLEAN
    BY DEF Session
  <2>2. [held |-> FALSE, current |-> i.auth, list |-> <<>>] \in RoundsKept
    BY <2>0 DEF RoundsKept
  <2> QED
    BY <1>6, <2>2 DEF Stored
<1> QED
  BY <1>1, <1>2, <1>3, <1>4, <1>5, <1>6

\* Remembering and advancing rounds give rounds.
LEMMA RoundsTyped ==
    ASSUME NEW r \in RoundsKept, NEW state \in Rounds
    PROVE  Remember(r, state) \in RoundsKept /\ Advance(r, state) \in RoundsKept
<1> DEFINE first == IF r.list = <<>> /\ r.current # None THEN <<r.current>> ELSE <<>>
           all == r.list \o first \o <<state>>
           list == IF Len(all) > RoundCap THEN Tail(all) ELSE all
<1>1. state \in AuthStates /\ r.current \in AuthStates /\ r.list \in Seq(AuthStates)
  BY Bounds DEF RoundsKept
<1>2. first \in Seq(AuthStates)
  BY <1>1
<1> HIDE DEF first
<1>3. all \in Seq(AuthStates) /\ all # <<>>
  BY <1>1, <1>2
<1> HIDE DEF all
<1>4. list \in Seq(AuthStates)
  BY <1>3
<1>5. Remember(r, state) = [held |-> TRUE, current |-> IF r.current = None THEN state ELSE r.current,
                            list |-> list]
  BY DEF Remember, all, first
<1> HIDE DEF list
<1>6. (IF r.current = None THEN state ELSE r.current) \in AuthStates
  BY <1>1
<1>7. Remember(r, state) \in RoundsKept
  BY <1>4, <1>5, <1>6 DEF RoundsKept
<1>8. Advance(r, state) \in RoundsKept
  <2>1. (IF Known(r, state) THEN state ELSE r.current) \in AuthStates
    BY <1>1
  <2> QED
    BY <2>1 DEF Advance, RoundsKept
<1> QED
  BY <1>7, <1>8

\* The histories' updates are histories.
LEMMA HappenedTyped ==
    ASSUME NEW g \in Happened
    PROVE  /\ \A r \in Rounds : [g EXCEPT !.remembered = Append(@, r)] \in Happened
           /\ \A r \in Rounds : [g EXCEPT !.unknown = @ \cup {r}] \in Happened
           /\ \A r \in Rounds : [g EXCEPT !.unknown = @ \cup {r}, !.ended = TRUE] \in Happened
           /\ g.minted < MaxLane => [g EXCEPT !.minted = @ + 1] \in Happened
           /\ \A x \in LaneIds \X Nat : /\ [g EXCEPT !.routed = Append(@, x)] \in Happened
                                        /\ [g EXCEPT !.stamped = Append(@, x)] \in Happened
           /\ [g EXCEPT !.ended = TRUE] \in Happened
           /\ g.minted < MaxLane => g.minted + 1 \in Lanes
<1>1. /\ g.remembered \in Seq(Rounds) /\ g.unknown \in SUBSET Rounds /\ g.minted \in 0 .. MaxLane
      /\ g.routed \in Seq(LaneIds \X Nat) /\ g.stamped \in Seq(LaneIds \X Nat)
  BY DEF Happened, LaneIds
<1>2. \A r \in Rounds : Append(g.remembered, r) \in Seq(Rounds) /\ g.unknown \cup {r} \in SUBSET Rounds
  BY <1>1
<1>3. \A x \in LaneIds \X Nat : /\ Append(g.routed, x) \in Seq(LaneIds \X Nat)
                                /\ Append(g.stamped, x) \in Seq(LaneIds \X Nat)
  BY <1>1
<1>4. g.minted < MaxLane => g.minted + 1 \in LaneIds /\ g.minted + 1 \in Lanes
  BY <1>1, Bounds DEF LaneIds, Lanes
<1>5. \A r \in Rounds : [g EXCEPT !.remembered = Append(@, r)] \in Happened
  BY <1>2 DEF Happened
<1>6. \A r \in Rounds : [g EXCEPT !.unknown = @ \cup {r}] \in Happened
  BY <1>2 DEF Happened
<1>7. \A r \in Rounds : [g EXCEPT !.unknown = @ \cup {r}, !.ended = TRUE] \in Happened
  BY <1>2 DEF Happened
<1>8. g.minted < MaxLane => [g EXCEPT !.minted = @ + 1] \in Happened
  BY <1>4 DEF Happened
<1>9. ASSUME NEW x \in LaneIds \X Nat PROVE [g EXCEPT !.routed = Append(@, x)] \in Happened
  BY <1>3 DEF Happened
<1>10. ASSUME NEW x \in LaneIds \X Nat PROVE [g EXCEPT !.stamped = Append(@, x)] \in Happened
  BY <1>3 DEF Happened
<1>11. [g EXCEPT !.ended = TRUE] \in Happened
  BY DEF Happened
<1> QED
  BY <1>4, <1>5, <1>6, <1>7, <1>8, <1>9, <1>10, <1>11

\* What is under way on the socket.
LEMMA FrameTyped ==
    ASSUME TypeOK, up # <<>>
    PROVE  /\ Tail(up) \in Seq(UpFrame)
           /\ Head(up).k = "initial" => Head(up).round \in Rounds
           /\ Head(up).k = "ask" => Head(up).round \in Rounds /\ Head(up).ask \in Nat
           /\ Head(up).k = "event" => Head(up).lane \in Lanes /\ Head(up).n \in Nat
<1>1. up \in Seq(UpFrame)
  BY DEF TypeOK
<1>2. Tail(up) \in Seq(UpFrame) /\ Head(up) \in UpFrame
  BY <1>1
<1>3. \A f \in UpFrame : /\ f.k = "initial" => f.round \in Rounds
                         /\ f.k = "ask" => f.round \in Rounds /\ f.ask \in Nat
                         /\ f.k = "event" => f.lane \in Lanes /\ f.n \in Nat
  BY DEF UpFrame
<1> QED
  BY <1>2, <1>3

\* A forward that is answered or tried again.
LEMMA WaitTyped ==
    ASSUME NEW w \in {AttachWait} \cup ForwardWait, w.k = "forward"
    PROVE  /\ w \in ForwardWait /\ EventPost(w) \in HubPost
           /\ [w EXCEPT !.answered = TRUE] \in ForwardWait
           /\ [w EXCEPT !.tries = @ + 1] \in ForwardWait
<1>1. w \in ForwardWait
  BY DEF AttachWait
<1>2. /\ w.update \in LaneUpdate /\ w.lane \in LaneIds /\ w.n \in Nat /\ w.tries \in Nat
      /\ w.tries + 1 \in Nat
  BY <1>1 DEF ForwardWait
<1>3. <<w.lane, w.n, w.tries>> \in LaneIds \X Nat \X Nat
  BY <1>2
<1>4. EventPost(w) \in [k : {"event"}, update : LaneUpdate, try : LaneIds \X Nat \X Nat]
  BY <1>2, <1>3 DEF EventPost
<1>5. [w EXCEPT !.answered = TRUE] \in ForwardWait /\ [w EXCEPT !.tries = @ + 1] \in ForwardWait
  BY <1>1, <1>2 DEF ForwardWait
<1> QED
  BY <1>1, <1>4, <1>5 DEF HubPost

\* A forward begun.
LEMMA ForwardTyped ==
    ASSUME NEW l \in Lane, NEW n \in Nat
    PROVE  Forward(l, n) \in ForwardWait /\ Forward(l, n).k = "forward"
<1>1. Update(l) \in LaneUpdate
  BY Bounds DEF Update, LaneUpdate, Lane
<1>2. l.id \in LaneIds
  BY DEF Lane
<1> QED
  BY <1>1, <1>2 DEF Forward, ForwardWait

\* The hub's record of a lane.
LEMMA MirrorTyped ==
    /\ NoMirror \in Mirror
    /\ \A m \in Mirror, u \in LaneUpdate : UpsertMirror(m, u) \in Mirror
    /\ \A m \in Mirror, h \in Counters, t \in Nat :
          CounterIsFresh(m, h) => HttpAccepted(m, h, t) \in Mirror
<1>1. NoMirror \in Mirror
  <2>1. <<>> \in Seq(Counters) /\ {} \in SUBSET (0 .. Window - 1)
    OBVIOUS
  <2> QED
    BY <2>1, Bounds DEF NoMirror, Mirror
<1>2. ASSUME NEW m \in Mirror, NEW u \in LaneUpdate PROVE UpsertMirror(m, u) \in Mirror
  <2>1. u.id \in LaneIds /\ u.exp \in Nat /\ u.minted \in Nat
    BY DEF LaneUpdate
  <2>2. NewMirror(u) \in Mirror
    BY <1>1, <2>1 DEF NewMirror, Mirror
  <2>3. [m EXCEPT !.exp = u.exp] \in Mirror
    BY <2>1 DEF Mirror
  <2> QED
    BY <2>2, <2>3 DEF UpsertMirror
<1>3. ASSUME NEW m \in Mirror, NEW h \in Counters, NEW t \in Nat, CounterIsFresh(m, h)
      PROVE  HttpAccepted(m, h, t) \in Mirror
  <2>1. h \in Nat /\ m.lastH \in Nat /\ m.seen \in SUBSET (0 .. Window - 1) /\ m.took \in Seq(Counters)
    BY Bounds DEF Mirror
  <2>2. t + Idle \in Nat /\ Append(m.took, h) \in Seq(Counters)
    BY <2>1, Bounds
  <2> DEFINE seen == IF h > m.lastH
                     THEN ({b + (h - m.lastH) : b \in m.seen} \cap (0 .. Window - 1)) \cup {0}
                     ELSE m.seen \cup {m.lastH - h}
             lastH == IF h > m.lastH THEN h ELSE m.lastH
  <2>3. AcceptCounter(m, h) = [m EXCEPT !.lastH = lastH, !.seen = seen]
    BY DEF AcceptCounter, Mirror
  <2>4. lastH \in Nat
    BY <2>1
  <2>5. seen \in SUBSET (0 .. Window - 1)
    <3>1. CASE h > m.lastH
      BY <2>1, <3>1, Bounds
    <3>2. CASE ~(h > m.lastH)
      <4>1. m.lastH - h \in 0 .. Window - 1
        BY <1>3, <2>1, <3>2, Bounds DEF CounterIsFresh
      <4> QED
        BY <2>1, <3>2, <4>1
    <3> QED
      BY <3>1, <3>2
  <2> HIDE DEF seen, lastH
  <2>6. HttpAccepted(m, h, t) = [m EXCEPT !.lastH = lastH, !.seen = seen, !.exp = t + Idle,
                                          !.took = Append(m.took, h)]
    BY <2>3 DEF HttpAccepted, Mirror
  <2> QED
    BY <2>2, <2>4, <2>5, <2>6 DEF Mirror
<1> QED
  BY <1>1, <1>2, <1>3

-----------------------------------------------------------------------------
(* Type correctness *)

\* The polling transport and the upgrade.
LEMMA PollingTyped ==
    ASSUME TypeOK,
           PollInitial \/ HandOff \/ AppendReads \/ AppendWrites \/ DrainReads \/ DrainWrites
               \/ PollGeneral \/ Upgrade \/ Evict
    PROVE  TypeOK'
<1> USE DEF session, polling, hubs, clientVars
<1>0. /\ worker \in Worker /\ client \in Client /\ ghost \in Happened /\ rounds \in RoundsKept
      /\ inner \in Session /\ att \in Session /\ queue \in Seq(Rounds)
  BY DEF TypeOK
<1>w. /\ worker.round \in Rounds /\ worker.read \in Seq(Rounds) /\ worker.get \in Seq(Rounds)
      /\ client.heard \in SUBSET Rounds
  BY <1>0 DEF Worker, Client
<1>b. Woken(inner, Blank) \in Session /\ Woken(Woken(inner, att), Blank) \in Session
  BY <1>0, SessionsTyped
<1>1. CASE PollInitial
  <2>1. client.asked + 1 \in Rounds
    BY <1>0, <1>1, Bounds DEF Client, Rounds, None, PollInitial
  <2>2. client' \in Client /\ worker' \in Worker
    BY <1>0, <1>1, <2>1 DEF PollInitial, Client, Worker
  <2> QED
    BY <1>1, <2>2 DEF PollInitial, TypeOK
<1>2. CASE HandOff
  <2> DEFINE i == Woken(Woken(inner, att), Blank)
             r == Remember(Stored(i), worker.round)
  <2>1. r \in RoundsKept /\ Authenticated(i, r) \in Session
    BY <1>0, <1>w, <1>b, SessionsTyped, RoundsTyped
  <2>2. [ghost EXCEPT !.remembered = Append(@, worker.round)] \in Happened
    BY <1>0, <1>w, HappenedTyped
  <2>3. worker' \in Worker
    BY <1>0, <1>2 DEF HandOff, Worker, MarkedClosed
  <2>4. /\ rounds' = r \/ rounds' = rounds
        /\ inner' = Authenticated(i, r) \/ inner' = inner
        /\ att' = Authenticated(i, r) \/ att' = att
        /\ ghost' = [ghost EXCEPT !.remembered = Append(@, worker.round)] \/ ghost' = ghost
    BY <1>2 DEF HandOff, Persist
  <2> HIDE DEF r, i
  <2>5. rounds' \in RoundsKept /\ inner' \in Session /\ att' \in Session /\ ghost' \in Happened
    BY <1>0, <2>1, <2>2, <2>4
  <2> QED
    BY <1>2, <2>3, <2>5 DEF HandOff, TypeOK
<1>3. CASE AppendReads
  <2>1. Append(queue, worker.round) \in Seq(Rounds)
    BY <1>0, <1>w
  <2>2. worker' \in Worker
    BY <1>0, <1>3, <2>1 DEF AppendReads, Worker
  <2> QED
    BY <1>3, <2>2 DEF AppendReads, TypeOK
<1>4. CASE AppendWrites
  <2> DEFINE empty == <<>>
  <2>0. empty \in Seq(Rounds) /\ worker' = [worker EXCEPT !.post = "idle", !.read = empty]
    BY <1>4 DEF AppendWrites
  <2> HIDE DEF empty
  <2>1. worker' \in Worker /\ queue' \in Seq(Rounds)
    BY <1>0, <1>w, <1>4, <2>0 DEF AppendWrites, Worker
  <2> QED
    BY <1>4, <2>1 DEF AppendWrites, TypeOK
<1>5. CASE DrainReads
  <2>1. worker' \in Worker
    BY <1>0, <1>5 DEF DrainReads, Worker
  <2> QED
    BY <1>5, <2>1 DEF DrainReads, TypeOK
<1>6. CASE DrainWrites
  <2>1. client.heard \cup Range(worker.get) \in SUBSET Rounds
    BY <1>w DEF Range
  <2> DEFINE empty == <<>>
  <2>0. empty \in Seq(Rounds) /\ queue' = empty /\ worker' = [worker EXCEPT !.get = empty]
    BY <1>6 DEF DrainWrites
  <2> HIDE DEF empty
  <2>2. worker' \in Worker /\ client' \in Client /\ queue' \in Seq(Rounds)
    BY <1>0, <1>w, <1>6, <2>0, <2>1 DEF DrainWrites, Worker, Client
  <2> QED
    BY <1>6, <2>2 DEF DrainWrites, TypeOK
<1>7. CASE PollGeneral
  <2> DEFINE i == Woken(inner, Blank)
  <2>1. PICK r \in client.heard :
          /\ rounds' = Advance(Stored(i), r) \/ rounds' = rounds
          /\ inner' = Authenticated(i, Advance(Stored(i), r)) \/ inner' = inner
          /\ ghost' = ghost \/ ghost' = [ghost EXCEPT !.unknown = @ \cup {r}]
    BY <1>7 DEF PollGeneral
  <2>2. Stored(i) \in RoundsKept
    BY <1>0, <1>b, SessionsTyped
  <2>3. Advance(Stored(i), r) \in RoundsKept
    BY <1>w, <2>2, RoundsTyped
  <2>4. Authenticated(i, Advance(Stored(i), r)) \in Session
    BY <1>b, <2>3, SessionsTyped
  <2>5. ghost' \in Happened
    BY <1>0, <1>w, <2>1, HappenedTyped
  <2>6. rounds' \in RoundsKept /\ inner' \in Session
    BY <1>0, <2>1, <2>3, <2>4
  <2>7. worker' \in Worker
    BY <1>0, <1>7 DEF PollGeneral, Worker, MarkedClosed
  <2> HIDE DEF i
  <2> QED
    BY <1>7, <2>5, <2>6, <2>7 DEF PollGeneral, TypeOK
<1>8. CASE Upgrade
  <2>1. inner' \in Session /\ att' \in Session
    BY <1>0, <1>8, <1>b, SessionsTyped DEF Upgrade
  <2> QED
    BY <1>8, <2>1 DEF Upgrade, TypeOK
<1>9. CASE Evict
  BY <1>9, SessionsTyped DEF Evict, TypeOK
<1> QED
  BY <1>1, <1>2, <1>3, <1>4, <1>5, <1>6, <1>7, <1>8, <1>9

\* What the client sends and hears, and the clock.
LEMMA ClientTyped ==
    ASSUME TypeOK,
           \/ SendInitial \/ SendAsk \/ SendAttach \/ AttachTimesOut \/ SendEvent \/ SendBye
           \/ \E f \in down : Hears(f)
           \/ Tick
    PROVE  TypeOK'
<1> USE DEF session, polling, hubs, clientVars
<1>0. client \in Client /\ up \in Seq(UpFrame) /\ down \subseteq DownFrame /\ now \in Nat
  BY DEF TypeOK
<1>c. /\ client.heard \in SUBSET Rounds /\ client.ask \in Nat /\ client.n \in Nat \ {0}
      /\ client.lane \in LaneIds /\ client.askRound \in Rounds /\ client.asked \in Rounds
  BY <1>0 DEF Client
<1>f. \A f \in UpFrame : Append(up, f) \in Seq(UpFrame)
  BY <1>0
<1>1. CASE SendInitial
  <2>1. client.asked + 1 \in Rounds
    BY <1>c, <1>1, Bounds DEF Rounds, None, SendInitial
  <2>2. client' \in Client
    BY <1>0, <1>1, <2>1 DEF SendInitial, Client
  <2>3. [k |-> "initial", round |-> client.asked + 1] \in UpFrame
    BY <2>1 DEF UpFrame
  <2>4. up' \in Seq(UpFrame)
    BY <1>1, <1>f, <2>3 DEF SendInitial, Sends
  <2> QED
    BY <1>1, <2>2, <2>4 DEF SendInitial, TypeOK
<1>2. CASE SendAsk
  <2>1. PICK r \in client.heard :
          /\ client' = [client EXCEPT !.ask = @ + 1, !.askRound = r]
          /\ Sends([k |-> "ask", round |-> r, ask |-> client.ask + 1])
    BY <1>2 DEF SendAsk
  <2>2. r \in Rounds /\ client.ask + 1 \in Nat
    BY <1>c
  <2>3. client' \in Client
    BY <1>0, <2>1, <2>2 DEF Client
  <2>4. [k |-> "ask", round |-> r, ask |-> client.ask + 1] \in UpFrame
    BY <2>2 DEF UpFrame
  <2>5. up' \in Seq(UpFrame)
    BY <1>f, <2>1, <2>4 DEF Sends
  <2> QED
    BY <1>2, <2>3, <2>5 DEF SendAsk, TypeOK
<1>3. CASE SendAttach
  <2>1. client' \in Client
    BY <1>0, <1>3 DEF SendAttach, Client
  <2>2. [k |-> "attach"] \in UpFrame
    BY DEF UpFrame
  <2>3. up' \in Seq(UpFrame)
    BY <1>3, <1>f, <2>2 DEF SendAttach, Sends
  <2> QED
    BY <1>3, <2>1, <2>3 DEF SendAttach, TypeOK
<1>4. CASE AttachTimesOut
  <2>1. client' \in Client
    BY <1>0, <1>4 DEF AttachTimesOut, Client
  <2> QED
    BY <1>4, <2>1 DEF AttachTimesOut, TypeOK
<1>5. CASE SendEvent
  <2>1. PICK n \in {client.n, client.n - 1} \ {0} :
          /\ client' = [client EXCEPT !.n = n + 1]
          /\ Sends([k |-> "event", lane |-> client.lane, n |-> n])
    BY <1>5 DEF SendEvent
  <2>2. n \in Nat /\ n + 1 \in Nat \ {0}
    BY <1>c
  <2>3. client.lane \in Lanes
    BY <1>c, <1>5, Bounds DEF SendEvent, LaneIds, Lanes
  <2>4. client' \in Client
    BY <1>0, <2>1, <2>2 DEF Client
  <2>5. [k |-> "event", lane |-> client.lane, n |-> n] \in UpFrame
    BY <2>2, <2>3 DEF UpFrame
  <2>6. up' \in Seq(UpFrame)
    BY <1>f, <2>1, <2>5 DEF Sends
  <2> QED
    BY <1>5, <2>4, <2>6 DEF SendEvent, TypeOK
<1>6. CASE SendBye
  <2>1. [k |-> "bye"] \in UpFrame
    BY DEF UpFrame
  <2>2. up' \in Seq(UpFrame)
    BY <1>6, <1>f, <2>1 DEF SendBye, Sends
  <2> QED
    BY <1>6, <2>2 DEF SendBye, TypeOK
<1>7. ASSUME NEW f \in down, Hears(f) PROVE TypeOK'
  <2>1. f \in DownFrame
    BY <1>0
  <2>2. /\ f.k = "response" => f.round \in Rounds
        /\ f.k \in {"offer", "attached"} => f.lane \in LaneIds
    BY <2>1, Bounds DEF DownFrame, LaneIds, Lanes
  <2>9. 1 \in Nat \ {0} /\ client.askRound \in AuthStates /\ Attached \in AuthStates
    BY <1>c, Bounds
  <2>3. f.k = "response" => [client EXCEPT !.heard = @ \cup {f.round}] \in Client
    BY <1>0, <1>c, <2>2 DEF Client
  <2>4. f.k = "offer" => [client EXCEPT !.lane = f.lane, !.laneRound = client.askRound, !.n = 1]
                             \in Client
    BY <1>0, <2>2, <2>9 DEF Client
  <2>5. f.k = "attached" => [client EXCEPT !.attach = "over", !.lane = f.lane,
                                           !.laneRound = Attached, !.n = 1] \in Client
    BY <1>0, <2>2, <2>9 DEF Client
  <2>6. [client EXCEPT !.attach = "over"] \in Client
    BY <1>0 DEF Client
  <2>7. client' \in Client
    BY <1>0, <1>7, <2>3, <2>4, <2>5, <2>6 DEF Hears
  <2> QED
    BY <1>0, <1>7, <2>7 DEF Hears, TypeOK
<1>8. CASE Tick
  <2>1. now + 1 \in Nat
    BY <1>0
  <2> QED
    BY <1>8, <2>1 DEF Tick, TypeOK
<1> QED
  BY <1>1, <1>2, <1>3, <1>4, <1>5, <1>6, <1>7, <1>8

\* The handlers of the session's object.
LEMMA HandlersTyped ==
    ASSUME TypeOK,
           \/ HandleInitial \/ HandleAsk \/ HandleAttach \/ AttachAnswered \/ HandleEvent
           \/ HandleBye \/ Broadcast \/ WebsocketClose
    PROVE  TypeOK'
<1> USE DEF session, polling, hubs, clientVars
<1>0. /\ ghost \in Happened /\ rounds \in RoundsKept /\ inner \in Session /\ att \in Session
      /\ down \subseteq DownFrame /\ posts \subseteq HubPost
      /\ waits \subseteq {AttachWait} \cup ForwardWait /\ now \in Nat
  BY DEF TypeOK
<1> DEFINE i == Woken(inner, att)
<1>i. i \in Session /\ i.lane \in Lane /\ i.lane.id \in LaneIds /\ Stored(i) \in RoundsKept
  <2>1. i \in Session
    BY <1>0, SessionsTyped
  <2> QED
    BY <1>0, <2>1, SessionsTyped DEF Session, Lane
<1>u. SocketEnds \/ HandleBye => inner' \in Session /\ posts' \subseteq HubPost
  <2>1. [i EXCEPT !.lane = NoLane] \in Session
    BY <1>i, LaneTyped, SessionsTyped
  <2>2. [k |-> "unregister", lane |-> i.lane.id] \in HubPost
    BY <1>i DEF HubPost
  <2> QED
    BY <1>0, <2>1, <2>2 DEF SocketEnds, HandleBye, Unregister
<1>e. Emit(i) => inner' \in Session /\ att' \in Session /\ ghost' \in Happened
  <2>1. [i EXCEPT !.lane = Sealed(i.lane, now)] \in Session
    BY <1>0, <1>i, LaneTyped, SessionsTyped
  <2>2. <<i.lane.id, i.lane.nextOut>> \in LaneIds \X Nat
    BY <1>i DEF Lane
  <2>3. [ghost EXCEPT !.stamped = Append(@, <<i.lane.id, i.lane.nextOut>>)] \in Happened
    BY <1>0, <2>2, HappenedTyped
  <2>4. Emit(i) => /\ inner' = [i EXCEPT !.lane = Sealed(i.lane, now)] \/ inner' = i
                   /\ att' = [i EXCEPT !.lane = Sealed(i.lane, now)] \/ att' = att
                   /\ ghost' = ghost \/ ghost' = [ghost EXCEPT !.stamped =
                                                Append(@, <<i.lane.id, i.lane.nextOut>>)]
    BY <1>i DEF Emit, Persist, Session
  <2> HIDE DEF i
  <2> QED
    BY <1>0, <1>i, <2>1, <2>3, <2>4
<1>m. \A r \in AuthStates : ghost.minted < MaxLane =>
          /\ MintLane(r) \in Lane /\ MintLane(r).id = ghost.minted + 1 /\ MintLane(r).id \in Lanes
          /\ [ghost EXCEPT !.minted = @ + 1] \in Happened
  <2> SUFFICES ASSUME NEW r \in AuthStates, ghost.minted < MaxLane
               PROVE  /\ MintLane(r) \in Lane /\ MintLane(r).id = ghost.minted + 1
                      /\ MintLane(r).id \in Lanes
                      /\ [ghost EXCEPT !.minted = @ + 1] \in Happened
    OBVIOUS
  <2>1. ghost.minted + 1 \in Lanes /\ [ghost EXCEPT !.minted = @ + 1] \in Happened
    BY <1>0, HappenedTyped
  <2>2. ghost.minted + 1 \in LaneIds
    BY <2>1, Bounds DEF LaneIds, Lanes
  <2>3. MintLane(r) \in Lane
    BY <1>0, <2>2, LaneTyped DEF MintLane
  <2>4. MintLane(r).id = ghost.minted + 1
    BY DEF MintLane, Mint, NoLane
  <2> QED
    BY <2>1, <2>3, <2>4
<1>f. \A kind : Frame(kind) =>
          /\ Tail(up) \in Seq(UpFrame) /\ Head(up).k = kind
          /\ Head(up).k = "initial" => Head(up).round \in Rounds
          /\ Head(up).k = "ask" => Head(up).round \in Rounds /\ Head(up).ask \in Nat
          /\ Head(up).k = "event" => Head(up).lane \in Lanes /\ Head(up).n \in Nat
  BY FrameTyped DEF Frame
<1>z. <<>> \in Seq(UpFrame) /\ Absent \in Session
  BY SessionsTyped
<1> HIDE DEF i
<1>1. CASE HandleInitial
  <2> DEFINE r == Remember(Stored(i), Head(up).round)
  <2>1. Head(up).round \in Rounds /\ Tail(up) \in Seq(UpFrame)
    BY <1>1, <1>f DEF HandleInitial
  <2>2. r \in RoundsKept
    BY <1>i, <2>1, RoundsTyped
  <2>3. Authenticated(i, r) \in Session
    BY <1>i, <2>2, SessionsTyped
  <2>4. [ghost EXCEPT !.remembered = Append(@, Head(up).round)] \in Happened
    BY <1>0, <2>1, HappenedTyped
  <2>5. [k |-> "response", round |-> Head(up).round] \in DownFrame
    BY <2>1 DEF DownFrame
  <2>6. /\ rounds' = r /\ inner' = Authenticated(i, r)
        /\ att' = Authenticated(i, r) \/ att' = att
        /\ up' = Tail(up) /\ down' = down \cup {[k |-> "response", round |-> Head(up).round]}
        /\ ghost' = [ghost EXCEPT !.remembered = Append(@, Head(up).round)]
    BY <1>1 DEF HandleInitial, Persist, i
  <2> HIDE DEF r
  <2> QED
    BY <1>0, <1>1, <2>1, <2>2, <2>3, <2>4, <2>5, <2>6 DEF HandleInitial, TypeOK
<1>2. CASE HandleAsk
  <2> DEFINE round == Head(up).round
             r == Advance(Stored(i), round)
             lane == MintLane(round)
             verified == [Authenticated(i, r) EXCEPT !.emitted = TRUE, !.lane = lane]
  <2>1. round \in Rounds /\ Head(up).ask \in Nat /\ Tail(up) \in Seq(UpFrame) /\ round \in AuthStates
    BY <1>2, <1>f, Bounds DEF HandleAsk
  <2>2. r \in RoundsKept
    BY <1>i, <2>1, RoundsTyped
  <2>3. Authenticated(i, r) \in Session
    BY <1>i, <2>2, SessionsTyped
  <2>4. rounds' = r
    BY <1>2 DEF HandleAsk, i
  <2>5. \/ /\ ghost.minted < MaxLane
           /\ inner' = verified
           /\ Persist(verified)
           /\ up' = Tail(up)
           /\ down' = down \cup {[k |-> "offer", lane |-> lane.id, ask |-> Head(up).ask]}
           /\ ghost' = [ghost EXCEPT !.minted = @ + 1]
           /\ posts' = posts
        \/ /\ SocketEnds
           /\ ghost' = [ghost EXCEPT !.unknown = @ \cup {round}, !.ended = TRUE]
    BY <1>2 DEF HandleAsk, i
  <2>6. ghost.minted < MaxLane => lane \in Lane /\ lane.id \in Lanes
    BY <1>m, <2>1
  <2>7. ghost.minted < MaxLane => verified \in Session
    BY <2>3, <2>6 DEF Session
  <2>8. ghost.minted < MaxLane =>
            [k |-> "offer", lane |-> lane.id, ask |-> Head(up).ask] \in DownFrame
    BY <2>1, <2>6 DEF DownFrame
  <2>9. [ghost EXCEPT !.unknown = @ \cup {round}, !.ended = TRUE] \in Happened
    BY <1>0, <2>1, HappenedTyped
  <2>10. [ghost EXCEPT !.minted = @ + 1] \in Happened \/ ~(ghost.minted < MaxLane)
    BY <1>0, HappenedTyped
  <2> HIDE DEF round, r, lane, verified
  <2>11. /\ inner' \in Session /\ att' \in Session /\ posts' \subseteq HubPost
         /\ up' \in Seq(UpFrame) /\ down' \subseteq DownFrame /\ ghost' \in Happened
    <3>1. CASE SocketEnds /\ ghost' = [ghost EXCEPT !.unknown = @ \cup {round}, !.ended = TRUE]
      BY <1>u, <1>z, <2>9, <3>1 DEF SocketEnds
    <3>2. CASE ~(SocketEnds /\ ghost' = [ghost EXCEPT !.unknown = @ \cup {round}, !.ended = TRUE])
      BY <1>0, <2>1, <2>5, <2>7, <2>8, <2>10, <3>2 DEF Persist
    <3> QED
      BY <3>1, <3>2
  <2> QED
    BY <1>2, <2>2, <2>4, <2>11 DEF HandleAsk, TypeOK
<1>3. CASE HandleAttach
  <2>1. [i EXCEPT !.tried = TRUE] \in Session
    BY <1>i DEF Session
  <2>2. [k |-> "attachRefused"] \in DownFrame
    BY DEF DownFrame
  <2>3. Tail(up) \in Seq(UpFrame)
    BY <1>3, <1>f DEF HandleAttach
  <2>4. /\ inner' = i \/ inner' = [i EXCEPT !.tried = TRUE]
        /\ att' = att \/ att' = [i EXCEPT !.tried = TRUE]
        /\ waits' = waits \/ waits' = waits \cup {AttachWait}
        /\ down' = down \/ down' = down \cup {[k |-> "attachRefused"]}
    BY <1>3 DEF HandleAttach, Persist, i
  <2>5. /\ inner' \in Session /\ att' \in Session /\ down' \subseteq DownFrame
        /\ waits' \subseteq {AttachWait} \cup ForwardWait
    BY <1>0, <1>i, <2>1, <2>2, <2>4
  <2> QED
    BY <1>3, <2>3, <2>5 DEF HandleAttach, TypeOK
<1>4. CASE AttachAnswered
  <2> DEFINE lane == MintLane(Attached)
             done == [inner EXCEPT !.auth = Attached, !.emitted = TRUE, !.lane = lane]
  <2>1. ghost.minted < MaxLane => lane \in Lane /\ lane.id \in Lanes
                                  /\ [ghost EXCEPT !.minted = @ + 1] \in Happened
    BY <1>m, Bounds
  <2>2. ghost.minted < MaxLane => done \in Session
    BY <1>0, <2>1, Bounds DEF Session
  <2>3. /\ ghost.minted < MaxLane => [k |-> "attached", lane |-> lane.id] \in DownFrame
        /\ [k |-> "attachRefused"] \in DownFrame
    BY <2>1 DEF DownFrame
  <2>4. \/ /\ ghost.minted < MaxLane /\ inner' = done /\ att' \in {done, att}
           /\ ghost' = [ghost EXCEPT !.minted = @ + 1]
           /\ down' \in {down, down \cup {[k |-> "attached", lane |-> lane.id]}}
        \/ /\ UNCHANGED <<inner, att, ghost>>
           /\ down' \in {down, down \cup {[k |-> "attachRefused"]}}
    BY <1>4 DEF AttachAnswered, Persist
  <2> HIDE DEF lane, done
  <2>5. inner' \in Session /\ att' \in Session /\ down' \subseteq DownFrame /\ ghost' \in Happened
    BY <1>0, <2>1, <2>2, <2>3, <2>4
  <2> QED
    BY <1>4, <2>5 DEF AttachAnswered, TypeOK
<1>5. CASE HandleEvent
  <2> DEFINE lane == Received(i.lane, Head(up), now)
             w == Forward(lane, Head(up).n)
  <2>1. Head(up).n \in Nat /\ Tail(up) \in Seq(UpFrame)
    BY <1>5, <1>f DEF HandleEvent
  <2>2. lane \in Lane
    BY <1>0, <1>i, <2>1, LaneTyped
  <2>3. [i EXCEPT !.lane = lane] \in Session
    BY <1>i, <2>2, SessionsTyped
  <2>4. w \in ForwardWait /\ EventPost(w) \in HubPost
    BY <2>1, <2>2, ForwardTyped, WaitTyped
  <2>5. <<lane.id, Head(up).n>> \in LaneIds \X Nat
    BY <2>1, <2>2 DEF Lane
  <2>6. [ghost EXCEPT !.routed = Append(@, <<lane.id, Head(up).n>>)] \in Happened
    BY <1>0, <2>5, HappenedTyped
  <2>7. /\ inner' \in {i, [i EXCEPT !.lane = lane]} /\ att' \in {att, [i EXCEPT !.lane = lane]}
        /\ waits' \in {waits, waits \cup {w}} /\ posts' \in {posts, posts \cup {EventPost(w)}}
        /\ ghost' \in {ghost, [ghost EXCEPT !.routed = Append(@, <<lane.id, Head(up).n>>)]}
    BY <1>5 DEF HandleEvent, Persist, i
  <2> HIDE DEF lane, w
  <2>8. /\ inner' \in Session /\ att' \in Session /\ posts' \subseteq HubPost /\ ghost' \in Happened
        /\ waits' \subseteq {AttachWait} \cup ForwardWait
    BY <1>0, <1>i, <2>3, <2>4, <2>6, <2>7
  <2> QED
    BY <1>5, <2>1, <2>8 DEF HandleEvent, TypeOK
<1>6. CASE HandleBye
  <2>1. Tail(up) \in Seq(UpFrame)
    BY <1>6, <1>f DEF HandleBye
  <2> QED
    BY <1>6, <1>u, <2>1 DEF HandleBye, TypeOK
<1>7. CASE Broadcast
  <2>1. inner' \in Session /\ att' \in Session /\ ghost' \in Happened
    BY <1>0, <1>7, <1>e, <1>i DEF Broadcast, i
  <2> QED
    BY <1>7, <2>1 DEF Broadcast, TypeOK
<1>8. CASE WebsocketClose
  <2>1. inner' \in Session /\ posts' \subseteq HubPost
    BY <1>8, <1>u DEF WebsocketClose
  <2>2. att' \in Session /\ up' \in Seq(UpFrame) /\ down' \subseteq DownFrame
    BY <1>8, <1>z DEF WebsocketClose, SocketEnds
  <2>3. ghost' \in Happened
    BY <1>0, <1>8, HappenedTyped DEF WebsocketClose
  <2> QED
    BY <1>8, <2>1, <2>2, <2>3 DEF WebsocketClose, TypeOK
<1> QED
  BY <1>1, <1>2, <1>3, <1>4, <1>5, <1>6, <1>7, <1>8

\* The forwards under way, and the identity's hubs.
LEMMA HubsTyped ==
    ASSUME TypeOK,
           \/ \E w \in waits : ForwardAnswered(w) \/ ForwardRetries(w) \/ ForwardGivesUp(w)
           \/ \E p \in posts : HubEvent(p) \/ HubUnregister(p) \/ PostLost(p)
           \/ Sweep
           \/ \E h \in Counters : HttpCall(h)
           \/ \E n \in DOMAIN calls : SessionTake(n) \/ SessionKept(n)
    PROVE  TypeOK'
<1> USE DEF session, polling, hubs, clientVars
<1> DEFINE Mirrors == [Stores -> [Lanes -> Mirror]]
<1>0. /\ ghost \in Happened /\ inner \in Session /\ att \in Session /\ posts \subseteq HubPost
      /\ waits \subseteq {AttachWait} \cup ForwardWait /\ now \in Nat
      /\ mirror \in Mirrors /\ calls \in Seq(HubCall) /\ client \in Client /\ store \in Stores
  BY DEF TypeOK
<1>p. \A ms \in Mirrors, hub \in Stores, l \in Lanes, m \in Mirror : Put(ms, hub, l, m) \in Mirrors
  <2> SUFFICES ASSUME NEW ms \in Mirrors, NEW hub \in Stores, NEW l \in Lanes, NEW m \in Mirror
               PROVE  Put(ms, hub, l, m) \in Mirrors
    OBVIOUS
  <2>1. ms[hub] \in [Lanes -> Mirror]
    OBVIOUS
  <2>2. [ms[hub] EXCEPT ![l] = m] \in [Lanes -> Mirror]
    BY <2>1
  <2> QED
    BY <2>2 DEF Put
<1>v. ASSUME NEW ms \in Mirrors, NEW hub \in Stores, NEW l \in Lanes, NEW h \in Counters,
             VerifySession(ms, hub, l, h)
      PROVE  mirror' \in Mirrors
  <2> DEFINE m == ms[hub][l]
             verdict == IF m.id = 0 THEN "unknown-session" ELSE VerifyHttp(m, h, now)
  <2>1. m \in Mirror
    OBVIOUS
  <2>2. verdict = "ok" => CounterIsFresh(m, h)
    BY DEF VerifyHttp
  <2>3. mirror' = CASE verdict = "ok" -> Put(ms, hub, l, HttpAccepted(m, h, now))
                    [] verdict = "expired" -> Put(ms, hub, l, NoMirror)
                    [] OTHER -> ms
    BY <1>v DEF VerifySession
  <2> HIDE DEF verdict, m
  <2>4. verdict = "ok" => HttpAccepted(m, h, now) \in Mirror
    BY <1>0, <2>1, <2>2, MirrorTyped
  <2>5. CASE verdict = "ok"
    BY <1>p, <2>3, <2>4, <2>5
  <2>6. CASE verdict = "expired"
    BY <1>p, <2>3, <2>6, MirrorTyped
  <2>7. CASE verdict # "ok" /\ verdict # "expired"
    BY <2>3, <2>7
  <2> QED
    BY <2>5, <2>6, <2>7
<1>l. ASSUME NEW x \in LaneIds, x # 0 PROVE x \in Lanes
  BY <1>l, Bounds DEF LaneIds, Lanes
<1>1. ASSUME NEW w \in waits, ForwardAnswered(w) PROVE TypeOK'
  <2>1. inner.lane \in Lane /\ inner.lane.id \in LaneIds /\ inner.lane.nextOut \in Nat
    BY <1>0 DEF Session, Lane
  <2>2. [inner EXCEPT !.lane = Sealed(inner.lane, now)] \in Session
    BY <1>0, <2>1, LaneTyped, SessionsTyped
  <2>3. <<inner.lane.id, inner.lane.nextOut>> \in LaneIds \X Nat
    BY <2>1
  <2>4. [ghost EXCEPT !.stamped = Append(@, <<inner.lane.id, inner.lane.nextOut>>)] \in Happened
    BY <1>0, <2>3, HappenedTyped
  <2>5. /\ inner' \in {inner, [inner EXCEPT !.lane = Sealed(inner.lane, now)]}
        /\ att' \in {att, [inner EXCEPT !.lane = Sealed(inner.lane, now)]}
        /\ ghost' \in {ghost, [ghost EXCEPT !.stamped =
                                    Append(@, <<inner.lane.id, inner.lane.nextOut>>)]}
    BY <1>0, <1>1 DEF ForwardAnswered, Emit, Persist, Session
  <2>6. inner' \in Session /\ att' \in Session /\ ghost' \in Happened
    BY <1>0, <2>2, <2>4, <2>5
  <2>7. waits' \subseteq {AttachWait} \cup ForwardWait
    BY <1>0, <1>1 DEF ForwardAnswered
  <2> QED
    BY <1>1, <2>6, <2>7 DEF ForwardAnswered, TypeOK
<1>2. ASSUME NEW w \in waits, ForwardRetries(w) PROVE TypeOK'
  <2> DEFINE again == [w EXCEPT !.tries = @ + 1]
  <2>1. w \in {AttachWait} \cup ForwardWait /\ w.k = "forward"
    BY <1>0, <1>2 DEF ForwardRetries
  <2>2. again \in ForwardWait
    BY <2>1, WaitTyped
  <2>3. EventPost(again) \in HubPost
    <3>1. again.k = "forward"
      BY <2>2 DEF ForwardWait
    <3> HIDE DEF again
    <3> QED
      BY <2>2, <3>1, WaitTyped
  <2>4. waits' = (waits \ {w}) \cup {again} /\ posts' = posts \cup {EventPost(again)}
    BY <1>2 DEF ForwardRetries
  <2> HIDE DEF again
  <2>5. waits' \subseteq {AttachWait} \cup ForwardWait /\ posts' \subseteq HubPost
    BY <1>0, <2>2, <2>3, <2>4
  <2> QED
    BY <1>2, <2>5 DEF ForwardRetries, TypeOK
<1>3. ASSUME NEW w \in waits, ForwardGivesUp(w) PROVE TypeOK'
  BY <1>3 DEF ForwardGivesUp, TypeOK
<1>4. ASSUME NEW p \in posts, HubEvent(p) PROVE TypeOK'
  <2>1. p \in HubPost /\ p.k = "event"
    BY <1>0, <1>4 DEF HubEvent
  <2>2. p.update \in LaneUpdate /\ p.update.id \in LaneIds
    BY <2>1 DEF HubPost, LaneUpdate
  <2>3. ASSUME p.update.id # 0
        PROVE  UpsertMirror(mirror["kv"][p.update.id], p.update) \in Mirror /\ p.update.id \in Lanes
    <3>1. p.update.id \in Lanes /\ "kv" \in Stores
      BY <1>l, <2>2, <2>3 DEF Stores
    <3>2. mirror["kv"][p.update.id] \in Mirror
      BY <1>0, <3>1
    <3> QED
      BY <2>2, <3>1, <3>2, MirrorTyped
  <2>4. mirror' \in Mirrors
    <3>1. "kv" \in Stores
      BY DEF Stores
    <3>2. mirror' = IF p.update.id = 0 THEN mirror
             ELSE Put(mirror, "kv", p.update.id, UpsertMirror(mirror["kv"][p.update.id], p.update))
      BY <1>4 DEF HubEvent
    <3> QED
      BY <1>0, <1>p, <2>3, <3>1, <3>2
  <2>5. waits' \subseteq {AttachWait} \cup ForwardWait
    <3>1. \A w \in waits : w.k = "forward" => [w EXCEPT !.answered = TRUE] \in ForwardWait
      BY <1>0, WaitTyped
    <3> QED
      BY <1>0, <1>4, <3>1 DEF HubEvent
  <2> QED
    BY <1>4, <2>4, <2>5 DEF HubEvent, TypeOK
<1>5. ASSUME NEW p \in posts, HubUnregister(p) PROVE TypeOK'
  <2>1. p.lane \in LaneIds
    BY <1>0, <1>5 DEF HubUnregister, HubPost
  <2>2. mirror' \in Mirrors
    <3>1. "kv" \in Stores
      BY DEF Stores
    <3> QED
      BY <1>0, <1>5, <1>p, <1>l, <2>1, <3>1, MirrorTyped DEF HubUnregister
  <2> QED
    BY <1>5, <2>2 DEF HubUnregister, TypeOK
<1>6. ASSUME NEW p \in posts, PostLost(p) PROVE TypeOK'
  BY <1>6 DEF PostLost, TypeOK
<1>7. CASE Sweep
  <2>1. "kv" \in Stores
    BY DEF Stores
  <2>2. [l \in Lanes |-> IF IsLive(mirror["kv"][l], now) THEN mirror["kv"][l] ELSE NoMirror]
            \in [Lanes -> Mirror]
    BY <1>0, <2>1, MirrorTyped
  <2>3. mirror' \in Mirrors
    BY <1>0, <1>7, <2>1, <2>2 DEF Sweep
  <2> QED
    BY <1>7, <2>3 DEF Sweep, TypeOK
<1>8. ASSUME NEW h \in Counters, HttpCall(h) PROVE TypeOK'
  <2>1. client.lane \in Lanes
    BY <1>0, <1>8, <1>l DEF HttpCall, Client
  <2>2. [lane |-> client.lane, h |-> h, taken |-> FALSE, m |-> NoMirror] \in HubCall
    BY <2>1, MirrorTyped DEF HubCall
  <2>3. mirror' \in Mirrors
    BY <1>0, <1>8, <1>v, <2>1 DEF HttpCall
  <2> DEFINE call == [lane |-> client.lane, h |-> h, taken |-> FALSE, m |-> NoMirror]
  <2>a. calls' = calls \/ calls' = Append(calls, call)
    BY <1>8 DEF HttpCall
  <2>b. call \in HubCall /\ calls \in Seq(HubCall)
    BY <1>0, <2>2
  <2> HIDE DEF call
  <2>4. calls' \in Seq(HubCall)
    BY <2>a, <2>b
  <2> QED
    BY <1>8, <2>3, <2>4 DEF HttpCall, TypeOK
<1>9. ASSUME NEW n \in DOMAIN calls, SessionTake(n) PROVE TypeOK'
  <2>0. calls[n] \in HubCall
    BY <1>0
  <2>1. calls[n] \in HubCall /\ calls[n].lane \in Lanes /\ "kv" \in Stores
    BY <2>0 DEF HubCall, Stores
  <2>2. mirror["kv"][calls[n].lane] \in Mirror /\ NoMirror \in Mirror
    BY <1>0, <2>1, MirrorTyped
  <2>3. mirror' \in Mirrors
    BY <1>0, <1>9, <1>p, <2>1, <2>2 DEF SessionTake
  <2>4. PICK m \in {mirror["kv"][calls[n].lane], NoMirror} :
            calls' = [calls EXCEPT ![n] = [calls[n] EXCEPT !.taken = TRUE, !.m = m]]
    BY <1>9 DEF SessionTake
  <2>5. [calls[n] EXCEPT !.taken = TRUE, !.m = m] \in HubCall
    BY <2>1, <2>2 DEF HubCall
  <2>6. calls' \in Seq(HubCall)
    BY <1>0, <2>4, <2>5
  <2> QED
    BY <1>9, <2>3, <2>6 DEF SessionTake, TypeOK
<1>10. ASSUME NEW n \in DOMAIN calls, SessionKept(n) PROVE TypeOK'
  <2> DEFINE c == calls[n]
             kept == IF c.m.id = 0 THEN mirror ELSE Put(mirror, "sql", c.lane, c.m)
  <2>1. c \in HubCall
    BY <1>0
  <2>2. c.lane \in Lanes /\ c.h \in Counters /\ c.m \in Mirror /\ "sql" \in Stores
    BY <2>1 DEF HubCall, Stores
  <2>3. kept \in Mirrors
    BY <1>0, <1>p, <2>2
  <2>4. VerifySession(kept, "sql", c.lane, c.h)
    BY <1>10 DEF SessionKept
  <2> HIDE DEF kept, c
  <2>5. mirror' \in Mirrors
    BY <1>v, <2>2, <2>3, <2>4
  <2>6. calls' \in Seq(HubCall)
    <3>1. calls' = RemoveAt(calls, n) /\ calls \in Seq(HubCall)
      BY <1>0, <1>10 DEF SessionKept
    <3> QED
      BY <3>1, RemoveTyped
  <2> QED
    BY <1>10, <2>5, <2>6 DEF SessionKept, TypeOK
<1> QED
  BY <1>1, <1>2, <1>3, <1>4, <1>5, <1>6, <1>7, <1>8, <1>9, <1>10

\* Every step keeps the type.
LEMMA TypeStep == TypeOK /\ [Next]_vars => TypeOK'
<1>1. ASSUME TypeOK, Next PROVE TypeOK'
  BY <1>1, PollingTyped, ClientTyped, HandlersTyped, HubsTyped DEF Next
<1>2. ASSUME TypeOK, UNCHANGED vars PROVE TypeOK'
  BY <1>2 DEF TypeOK, vars, session, polling, hubs, clientVars
<1> QED
  BY <1>1, <1>2

\* It holds at the start.
LEMMA TypeInit == ASSUME Init PROVE TypeOK
<1>1. store \in Stores
  BY WorkloadBounds DEF Init, Stores
<1>2. rounds \in RoundsKept /\ inner \in Session /\ att \in Session
  <2>1. <<>> \in Seq(AuthStates) /\ None \in AuthStates
    BY Bounds DEF None
  <2> QED
    BY <2>1, SessionsTyped DEF Init, NoRounds, RoundsKept
<1>3. queue \in Seq(Rounds) /\ calls \in Seq(HubCall) /\ up \in Seq(UpFrame)
  BY DEF Init
<1>4. worker \in Worker
  <2>1. <<>> \in Seq(Rounds) /\ 0 \in Rounds
    BY Bounds
  <2> QED
    BY <2>1 DEF Init, Worker
<1>5. mirror \in [Stores -> [Lanes -> Mirror]]
  BY MirrorTyped DEF Init
<1>6. client \in Client
  BY Bounds DEF Init, Client, None
<1>7. ghost \in Happened
  <2>1. <<>> \in Seq(Rounds) /\ <<>> \in Seq(LaneIds \X Nat) /\ 0 \in LaneIds
    BY Bounds
  <2> QED
    BY <2>1 DEF Init, Happened
<1> QED
  BY <1>1, <1>2, <1>3, <1>4, <1>5, <1>6, <1>7 DEF Init, TypeOK

\* What the object, its socket and its storage hold, what is under way between
\* the client, the Worker and the hubs, and the mirrors keep their types.
THEOREM TypeCorrect == Spec => []TypeOK
<1>1. Init => TypeOK
  BY TypeInit
<1>2. TypeOK /\ [Next]_vars => TypeOK'
  BY TypeStep
<1> QED
  BY <1>1, <1>2, PTL DEF Spec

-----------------------------------------------------------------------------
(* The window of HTTP counters *)

\* A mirror's mask says which of the last Window counters it took.
Masked(m) ==
    /\ m \in Mirror
    /\ IsInjective(m.took)
    /\ \A x \in Range(m.took) : x <= m.lastH
    /\ \A b \in 0 .. Window - 1 : b \in m.seen <=> m.lastH - b \in Range(m.took)

\* Every mirror, and every mirror handed over and not yet kept.
MirrorsMasked ==
    /\ \A hub \in Stores, l \in Lanes : Masked(mirror[hub][l])
    /\ \A n \in DOMAIN calls : Masked(calls[n].m)

\* A mirror whose mask is the set of counters it took within its window
\* judges every counter exactly.
LEMMA MaskedExact ==
    ASSUME NEW m, Masked(m) PROVE WindowExact(m, Counters)
<1>1. m.lastH \in Nat /\ m.took \in Seq(Counters) /\ Counters \subseteq Nat /\ Window \in Nat \ {0}
  BY Bounds DEF Masked, Mirror
<1>2. ASSUME NEW h \in Counters
      PROVE  CounterIsFresh(m, h) <=> (h \notin Range(m.took) /\ h > m.lastH - Window)
  <2>1. h \in Nat
    BY <1>1
  <2>2. CASE h > m.lastH
    BY <1>1, <2>1, <2>2 DEF Masked, CounterIsFresh
  <2>3. CASE ~(h > m.lastH) /\ m.lastH - h < Window
    <3>1. m.lastH - h \in 0 .. Window - 1 /\ m.lastH - (m.lastH - h) = h
      BY <1>1, <2>1, <2>3
    <3>2. m.lastH - h \in m.seen <=> h \in Range(m.took)
      BY <3>1 DEF Masked
    <3> QED
      BY <1>1, <2>1, <2>3, <3>2 DEF CounterIsFresh
  <2>4. CASE ~(h > m.lastH) /\ ~(m.lastH - h < Window)
    BY <1>1, <2>1, <2>4 DEF CounterIsFresh
  <2> QED
    BY <2>2, <2>3, <2>4
<1> QED
  BY <1>2 DEF WindowExact, Masked

\* A mirror not there took nothing.
LEMMA NoneMasked == Masked(NoMirror)
<1>1. NoMirror \in Mirror
  BY MirrorTyped
<1>2. NoMirror.took = <<>> /\ NoMirror.lastH = 0 /\ NoMirror.seen = {}
  BY DEF NoMirror
<1>3. Range(<<>>) = {} /\ IsInjective(<<>>)
  BY DEF Range, IsInjective
<1> QED
  BY <1>1, <1>2, <1>3 DEF Masked

\* A mirror the hub takes or renews: a new lane starts empty, the same one
\* keeps its counters.
LEMMA UpsertMasked ==
    ASSUME NEW m, Masked(m), NEW u \in LaneUpdate PROVE Masked(UpsertMirror(m, u))
<1>1. m \in Mirror /\ UpsertMirror(m, u) \in Mirror
  BY MirrorTyped DEF Masked
<1>2. \/ UpsertMirror(m, u).took = m.took /\ UpsertMirror(m, u).lastH = m.lastH
            /\ UpsertMirror(m, u).seen = m.seen
      \/ UpsertMirror(m, u).took = NoMirror.took /\ UpsertMirror(m, u).lastH = NoMirror.lastH
            /\ UpsertMirror(m, u).seen = NoMirror.seen
  BY <1>1 DEF UpsertMirror, NewMirror, NoMirror, Mirror
<1> QED
  BY <1>1, <1>2, NoneMasked DEF Masked

\* Taking a fresh counter shifts the mask with the window, or sets a bit.
LEMMA AcceptedMasked ==
    ASSUME NEW m, Masked(m), NEW h \in Counters, CounterIsFresh(m, h), NEW t \in Nat
    PROVE  Masked(HttpAccepted(m, h, t))
<1> DEFINE after == HttpAccepted(m, h, t)
<1> SUFFICES Masked(after)
  OBVIOUS
<1>1. m \in Mirror /\ after \in Mirror
  BY MirrorTyped DEF Masked
<1>2. /\ m.lastH \in Nat /\ m.took \in Seq(Counters) /\ h \in Nat /\ Window \in Nat \ {0}
      /\ m.seen \subseteq 0 .. Window - 1
  BY <1>1, Bounds DEF Mirror
<1>3. h \notin Range(m.took)
  BY MaskedExact DEF WindowExact
<1>4. after.took = Append(m.took, h)
  BY <1>1 DEF HttpAccepted, AcceptCounter, Mirror
<1>5. Range(after.took) = Range(m.took) \cup {h}
  BY <1>2, <1>4, AppendRange
<1>6. IsInjective(after.took)
  BY <1>2, <1>3, <1>4, AppendIsInjective DEF Masked
<1>7. CASE h > m.lastH
  <2>1. /\ after.lastH = h
        /\ after.seen = ({b + (h - m.lastH) : b \in m.seen} \cap (0 .. Window - 1)) \cup {0}
    BY <1>1, <1>7 DEF HttpAccepted, AcceptCounter, Mirror
  <2>2. \A x \in Range(after.took) : x <= h
    <3>1. Range(m.took) \subseteq Nat
      <4>1. \A n \in DOMAIN m.took : m.took[n] \in Counters
        BY <1>2
      <4> QED
        BY <4>1, Bounds DEF Range
    <3> QED
      BY <1>2, <1>5, <1>7, <3>1 DEF Masked
  <2>3. ASSUME NEW b \in 0 .. Window - 1
        PROVE  b \in after.seen <=> h - b \in Range(after.took)
    <3>1. CASE b = 0
      BY <1>2, <1>5, <2>1, <3>1
    <3>2. CASE b # 0
      <4>1. h - b # h
        BY <1>2, <3>2
      <4>2. h - b \in Range(after.took) <=> h - b \in Range(m.took)
        BY <1>5, <4>1
      <4>3. b \in after.seen <=> \E x \in m.seen : b = x + (h - m.lastH)
        BY <2>1, <3>2
      <4>4. CASE b - (h - m.lastH) \in 0 .. Window - 1
        <5>1. b \in after.seen <=> b - (h - m.lastH) \in m.seen
          BY <1>2, <4>3, <4>4
        <5>2. m.lastH - (b - (h - m.lastH)) = h - b
          BY <1>2
        <5> QED
          BY <4>2, <4>4, <5>1, <5>2 DEF Masked
      <4>5. CASE b - (h - m.lastH) \notin 0 .. Window - 1
        <5>1. b < h - m.lastH
          BY <1>2, <1>7, <4>5
        <5>2. b \notin after.seen
          BY <1>2, <4>3, <5>1
        <5>3. h - b > m.lastH /\ h - b \in Int
          BY <1>2, <5>1
        <5>4. h - b \notin Range(m.took)
          BY <1>2, <5>3 DEF Masked
        <5> QED
          BY <4>2, <5>2, <5>4
      <4> QED
        BY <4>4, <4>5
    <3> QED
      BY <3>1, <3>2
  <2> HIDE DEF after
  <2> QED
    BY <1>1, <1>6, <2>1, <2>2, <2>3 DEF Masked
<1>8. CASE ~(h > m.lastH)
  <2>1. after.lastH = m.lastH /\ after.seen = m.seen \cup {m.lastH - h}
    BY <1>1, <1>8 DEF HttpAccepted, AcceptCounter, Mirror
  <2>2. \A x \in Range(after.took) : x <= m.lastH
    BY <1>2, <1>5, <1>8 DEF Masked
  <2>3. ASSUME NEW b \in 0 .. Window - 1
        PROVE  b \in after.seen <=> m.lastH - b \in Range(after.took)
    <3>1. b = m.lastH - h <=> m.lastH - b = h
      BY <1>2
    <3>2. b \in m.seen <=> m.lastH - b \in Range(m.took)
      BY DEF Masked
    <3> QED
      BY <1>5, <2>1, <3>1, <3>2
  <2> HIDE DEF after
  <2> QED
    BY <1>1, <1>6, <2>1, <2>2, <2>3 DEF Masked
<1> QED
  BY <1>7, <1>8

\* One mirror written among the masked.
LEMMA PutMasked ==
    ASSUME NEW ms \in [Stores -> [Lanes -> Mirror]],
           \A x \in Stores, y \in Lanes : Masked(ms[x][y]),
           NEW hub \in Stores, NEW l \in Lanes, NEW m, Masked(m)
    PROVE  /\ Put(ms, hub, l, m) \in [Stores -> [Lanes -> Mirror]]
           /\ \A x \in Stores, y \in Lanes : Masked(Put(ms, hub, l, m)[x][y])
<1>1. m \in Mirror /\ ms[hub] \in [Lanes -> Mirror]
  BY DEF Masked
<1>2. [ms[hub] EXCEPT ![l] = m] \in [Lanes -> Mirror]
  BY <1>1
<1>3. Put(ms, hub, l, m) \in [Stores -> [Lanes -> Mirror]]
  BY <1>2 DEF Put
<1>4. \A x \in Stores, y \in Lanes : Put(ms, hub, l, m)[x][y] \in {ms[x][y], m}
  BY <1>1 DEF Put
<1> QED
  BY <1>3, <1>4

\* No other step writes a mirror or a call.
LEMMA OthersKeepHubs ==
    ASSUME Next,
           ~\E p \in posts : HubEvent(p) \/ HubUnregister(p), ~Sweep,
           ~\E h \in Counters : HttpCall(h),
           ~\E n \in DOMAIN calls : SessionTake(n) \/ SessionKept(n)
    PROVE  UNCHANGED <<mirror, calls>>
<1> USE DEF session, polling, hubs, clientVars
<1>1. CASE \/ PollInitial \/ HandOff \/ AppendReads \/ AppendWrites \/ DrainReads \/ DrainWrites
           \/ PollGeneral \/ Upgrade \/ Evict
  BY <1>1 DEF PollInitial, HandOff, AppendReads, AppendWrites, DrainReads, DrainWrites,
              PollGeneral, Upgrade, Evict
<1>2. CASE \/ SendInitial \/ SendAsk \/ SendAttach \/ AttachTimesOut \/ SendEvent \/ SendBye
           \/ (\E f \in down : Hears(f)) \/ Tick
  BY <1>2 DEF SendInitial, SendAsk, SendAttach, AttachTimesOut, SendEvent, SendBye, Hears, Tick
<1>3. CASE \/ HandleInitial \/ HandleAsk \/ HandleAttach \/ AttachAnswered \/ HandleEvent
           \/ HandleBye \/ Broadcast \/ WebsocketClose
  BY <1>3 DEF HandleInitial, HandleAsk, HandleAttach, AttachAnswered, HandleEvent, HandleBye,
              Broadcast, WebsocketClose
<1>4. CASE \/ \E w \in waits : ForwardAnswered(w) \/ ForwardRetries(w) \/ ForwardGivesUp(w)
           \/ \E p \in posts : PostLost(p)
  BY <1>4 DEF ForwardAnswered, ForwardRetries, ForwardGivesUp, PostLost
<1> QED
  BY <1>1, <1>2, <1>3, <1>4 DEF Next

\* verify_session keeps the mirrors masked, whatever its verdict.
LEMMA VerifiedMasked ==
    ASSUME TypeOK, NEW ms \in [Stores -> [Lanes -> Mirror]],
           \A x \in Stores, y \in Lanes : Masked(ms[x][y]),
           NEW hub \in Stores, NEW l \in Lanes, NEW h \in Counters, VerifySession(ms, hub, l, h)
    PROVE  \A x \in Stores, y \in Lanes : Masked(mirror'[x][y])
<1> DEFINE m == ms[hub][l]
           verdict == IF m.id = 0 THEN "unknown-session" ELSE VerifyHttp(m, h, now)
<1>1. Masked(m) /\ now \in Nat
  BY DEF TypeOK
<1>2. verdict = "ok" => CounterIsFresh(m, h)
  BY DEF VerifyHttp
<1>3. mirror' = CASE verdict = "ok" -> Put(ms, hub, l, HttpAccepted(m, h, now))
                  [] verdict = "expired" -> Put(ms, hub, l, NoMirror)
                  [] OTHER -> ms
  BY DEF VerifySession
<1> HIDE DEF verdict, m
<1>4. verdict = "ok" => Masked(HttpAccepted(m, h, now))
  BY <1>1, <1>2, AcceptedMasked
<1>5. CASE verdict = "ok"
  BY <1>3, <1>4, <1>5, PutMasked
<1>6. CASE verdict = "expired"
  BY <1>3, <1>6, PutMasked, NoneMasked
<1>7. CASE verdict # "ok" /\ verdict # "expired"
  BY <1>3, <1>7
<1> QED
  BY <1>5, <1>6, <1>7

\* What is left after a removal was there before it.
LEMMA RemoveAtKeeps ==
    ASSUME NEW S, NEW s \in Seq(S), NEW n \in DOMAIN s, NEW k \in DOMAIN RemoveAt(s, n)
    PROVE  \E j \in DOMAIN s : RemoveAt(s, n)[k] = s[j]
<1>1. n \in 1 .. Len(s) /\ Len(s) \in Nat
  OBVIOUS
<1> DEFINE a == SubSeq(s, 1, n - 1)
           b == SubSeq(s, n + 1, Len(s))
<1>2. a \in Seq(S) /\ Len(a) = n - 1 /\ \A j \in 1 .. n - 1 : a[j] = s[j]
  BY <1>1
<1>3. b \in Seq(S) /\ Len(b) = Len(s) - n /\ \A j \in 1 .. Len(s) - n : b[j] = s[n + j]
  BY <1>1
<1>4. RemoveAt(s, n) = a \o b
  BY DEF RemoveAt
<1> HIDE DEF a, b
<1>c. /\ Len(a \o b) = Len(a) + Len(b)
      /\ \A i \in 1 .. Len(a) + Len(b) :
            (a \o b)[i] = IF i <= Len(a) THEN a[i] ELSE b[i - Len(a)]
      /\ a \o b \in Seq(S)
  BY <1>2, <1>3, ConcatProperties
<1> DEFINE ab == a \o b
<1> HIDE DEF ab
<1>d. /\ Len(ab) = Len(a) + Len(b) /\ ab \in Seq(S) /\ RemoveAt(s, n) = ab
      /\ \A i \in 1 .. Len(a) + Len(b) : ab[i] = IF i <= Len(a) THEN a[i] ELSE b[i - Len(a)]
  BY <1>4, <1>c DEF ab
<1>5. k \in 1 .. (n - 1) + (Len(s) - n) /\ k \in 1 .. Len(a) + Len(b)
  BY <1>1, <1>2, <1>3, <1>d
<1>6. CASE k <= n - 1
  <2>1. k \in 1 .. n - 1 /\ k \in 1 .. Len(s)
    BY <1>1, <1>5, <1>6
  <2>2. k <= Len(a)
    BY <1>2, <2>1
  <2>3. ab[k] = a[k]
    BY <1>5, <1>d, <2>2
  <2>4. k \in DOMAIN s
    BY <2>1
  <2> QED
    BY <1>2, <1>d, <2>1, <2>3, <2>4
<1>7. CASE ~(k <= n - 1)
  <2>1. k - (n - 1) \in 1 .. Len(s) - n
    BY <1>1, <1>5, <1>7
  <2>2. ab[k] = b[k - (n - 1)]
    BY <1>1, <1>2, <1>5, <1>7, <1>d
  <2>3. n + (k - (n - 1)) \in DOMAIN s /\ b[k - (n - 1)] = s[n + (k - (n - 1))]
    BY <1>1, <1>3, <2>1
  <2> QED
    BY <1>d, <2>2, <2>3
<1> QED
  BY <1>6, <1>7

\* Every step keeps the mirrors masked.
LEMMA MaskedStep ==
    ASSUME TypeOK, MirrorsMasked, [Next]_vars PROVE MirrorsMasked'
<1> USE DEF session, polling, hubs, clientVars
<1>0. /\ mirror \in [Stores -> [Lanes -> Mirror]] /\ calls \in Seq(HubCall) /\ client \in Client
      /\ store \in Stores /\ posts \subseteq HubPost /\ now \in Nat
      /\ "kv" \in Stores /\ "sql" \in Stores
  BY DEF TypeOK, Stores
<1>m. /\ \A x \in Stores, y \in Lanes : Masked(mirror[x][y])
      /\ \A n \in DOMAIN calls : Masked(calls[n].m)
  BY DEF MirrorsMasked
<1>l. ASSUME NEW x \in LaneIds, x # 0 PROVE x \in Lanes
  BY <1>l, Bounds DEF LaneIds, Lanes
<1>1. ASSUME NEW p \in posts, HubEvent(p) PROVE MirrorsMasked'
  <2>1. p.update \in LaneUpdate /\ p.update.id \in LaneIds
    BY <1>0, <1>1 DEF HubEvent, HubPost, LaneUpdate
  <2>2. mirror' = IF p.update.id = 0 THEN mirror
             ELSE Put(mirror, "kv", p.update.id, UpsertMirror(mirror["kv"][p.update.id], p.update))
    BY <1>1 DEF HubEvent
  <2>3. p.update.id # 0 => p.update.id \in Lanes
                           /\ Masked(UpsertMirror(mirror["kv"][p.update.id], p.update))
    BY <1>0, <1>m, <1>l, <2>1, UpsertMasked
  <2>4. \A x \in Stores, y \in Lanes : Masked(mirror'[x][y])
    BY <1>0, <1>m, <2>2, <2>3, PutMasked
  <2> QED
    BY <1>1, <1>m, <2>4 DEF HubEvent, MirrorsMasked
<1>2. ASSUME NEW p \in posts, HubUnregister(p) PROVE MirrorsMasked'
  <2>1. p.lane \in LaneIds
    BY <1>0, <1>2 DEF HubUnregister, HubPost
  <2>2. \A x \in Stores, y \in Lanes : Masked(mirror'[x][y])
    BY <1>0, <1>2, <1>m, <1>l, <2>1, NoneMasked, PutMasked DEF HubUnregister
  <2> QED
    BY <1>2, <1>m, <2>2 DEF HubUnregister, MirrorsMasked
<1>3. CASE Sweep
  <2>1. \A y \in Lanes : mirror'["kv"][y] \in {mirror["kv"][y], NoMirror}
    BY <1>0, <1>3 DEF Sweep
  <2>2. \A x \in Stores : x # "kv" => mirror'[x] = mirror[x]
    BY <1>0, <1>3 DEF Sweep
  <2>3. \A x \in Stores, y \in Lanes : Masked(mirror'[x][y])
    BY <1>m, <2>1, <2>2, NoneMasked
  <2> QED
    BY <1>3, <1>m, <2>3 DEF Sweep, MirrorsMasked
<1>4. ASSUME NEW h \in Counters, HttpCall(h) PROVE MirrorsMasked'
  <2>1. client.lane \in Lanes
    BY <1>0, <1>4, <1>l DEF HttpCall, Client
  <2>2. \A x \in Stores, y \in Lanes : Masked(mirror'[x][y])
    <3>1. CASE VerifySession(mirror, store, client.lane, h)
      BY <1>0, <1>m, <2>1, <3>1, VerifiedMasked
    <3>2. CASE UNCHANGED mirror
      BY <1>m, <3>2
    <3> QED
      BY <1>4, <3>1, <3>2 DEF HttpCall
  <2>3. \A n \in DOMAIN calls' : Masked(calls'[n].m)
    <3>1. CASE calls' = calls
      BY <1>m, <3>1
    <3>2. CASE calls' = Append(calls, [lane |-> client.lane, h |-> h, taken |-> FALSE, m |-> NoMirror])
      <4> SUFFICES ASSUME NEW n \in DOMAIN calls' PROVE Masked(calls'[n].m)
        OBVIOUS
      <4>1. \/ n \in DOMAIN calls /\ calls'[n] = calls[n]
            \/ calls'[n] = [lane |-> client.lane, h |-> h, taken |-> FALSE, m |-> NoMirror]
        BY <1>0, <3>2
      <4>2. CASE n \in DOMAIN calls /\ calls'[n] = calls[n]
        BY <1>m, <4>2
      <4>3. CASE calls'[n] = [lane |-> client.lane, h |-> h, taken |-> FALSE, m |-> NoMirror]
        BY <4>3, NoneMasked
      <4> QED
        BY <4>1, <4>2, <4>3
    <3> QED
      BY <1>4, <3>1, <3>2 DEF HttpCall
  <2> QED
    BY <2>2, <2>3 DEF MirrorsMasked
<1>5. ASSUME NEW n \in DOMAIN calls, SessionTake(n) PROVE MirrorsMasked'
  <2>1. calls[n] \in HubCall
    BY <1>0
  <2>2. calls[n].lane \in Lanes
    BY <2>1 DEF HubCall
  <2>3. \A x \in Stores, y \in Lanes : Masked(mirror'[x][y])
    BY <1>0, <1>5, <1>m, <2>2, NoneMasked, PutMasked DEF SessionTake
  <2>4. PICK m \in {mirror["kv"][calls[n].lane], NoMirror} :
            calls' = [calls EXCEPT ![n] = [calls[n] EXCEPT !.taken = TRUE, !.m = m]]
    BY <1>5 DEF SessionTake
  <2>5. Masked(m)
    BY <1>0, <1>m, <2>2, NoneMasked
  <2>6. [calls[n] EXCEPT !.taken = TRUE, !.m = m].m = m
    BY <2>1 DEF HubCall
  <2>7. ASSUME NEW k \in DOMAIN calls' PROVE Masked(calls'[k].m)
    <3>1. k \in DOMAIN calls /\ (k # n => calls'[k] = calls[k])
          /\ (k = n => calls'[k] = [calls[n] EXCEPT !.taken = TRUE, !.m = m])
      BY <1>0, <2>4
    <3> QED
      BY <1>m, <2>5, <2>6, <3>1
  <2> QED
    BY <2>3, <2>7 DEF MirrorsMasked
<1>6. ASSUME NEW n \in DOMAIN calls, SessionKept(n) PROVE MirrorsMasked'
  <2> DEFINE c == calls[n]
             kept == IF c.m.id = 0 THEN mirror ELSE Put(mirror, "sql", c.lane, c.m)
  <2>1. c \in HubCall
    BY <1>0
  <2>2. c.lane \in Lanes /\ c.h \in Counters /\ c.m \in Mirror /\ Masked(c.m)
    BY <1>m, <2>1 DEF HubCall
  <2>3. \A x \in Stores, y \in Lanes : Masked(kept[x][y])
    BY <1>0, <1>m, <2>2, PutMasked
  <2>4. kept \in [Stores -> [Lanes -> Mirror]]
    BY <1>0, <1>m, <2>2, PutMasked
  <2>5. VerifySession(kept, "sql", c.lane, c.h)
    BY <1>6 DEF SessionKept
  <2> HIDE DEF kept, c
  <2>6. \A x \in Stores, y \in Lanes : Masked(mirror'[x][y])
    BY <1>0, <2>2, <2>3, <2>4, <2>5, VerifiedMasked
  <2>7. ASSUME NEW k \in DOMAIN calls' PROVE Masked(calls'[k].m)
    <3>1. \E j \in DOMAIN calls : calls'[k] = calls[j]
      BY <1>0, <1>6, RemoveAtKeeps DEF SessionKept
    <3> QED
      BY <1>m, <3>1
  <2> QED
    BY <2>6, <2>7 DEF MirrorsMasked
<1>7. ASSUME UNCHANGED <<mirror, calls>> PROVE MirrorsMasked'
  BY <1>7, <1>m DEF MirrorsMasked
<1>8. ASSUME Next,
             ~\E p \in posts : HubEvent(p) \/ HubUnregister(p), ~Sweep,
             ~\E h \in Counters : HttpCall(h),
             ~\E n \in DOMAIN calls : SessionTake(n) \/ SessionKept(n)
      PROVE  UNCHANGED <<mirror, calls>>
  BY <1>8, OthersKeepHubs
<1> QED
  BY <1>1, <1>2, <1>3, <1>4, <1>5, <1>6, <1>7, <1>8 DEF vars

\* verify_http and the hand-over of a mirror between the hubs: whatever order the
\* calls arrive in, whenever a mirror is swept, revoked, handed over or lost on
\* the way, no mirror takes a counter twice, and one it has not taken is refused
\* only when it is Window behind the newest.
THEOREM WindowsAreExact == Spec => []WindowIsExact
<1>1. Init => MirrorsMasked
  <2> SUFFICES ASSUME Init PROVE MirrorsMasked
    OBVIOUS
  <2>1. \A hub \in Stores, l \in Lanes : mirror[hub][l] = NoMirror
    BY DEF Init
  <2>2. DOMAIN calls = {}
    BY DEF Init
  <2> QED
    BY <2>1, <2>2, NoneMasked DEF MirrorsMasked
<1>2. TypeOK /\ MirrorsMasked /\ [Next]_vars => MirrorsMasked'
  BY MaskedStep
<1>3. MirrorsMasked => WindowIsExact
  BY MaskedExact DEF MirrorsMasked, WindowIsExact
<1> QED
  BY <1>1, <1>2, <1>3, TypeCorrect, PTL DEF Spec

-----------------------------------------------------------------------------
(* Counters of the socket's lane *)

\* Of the lane's frames, those routed are at or below its inbound counter, and
\* those stamped below its outbound one.
LaneCounted(g, l) ==
    /\ l.id <= g.minted
    /\ l.id # 0 =>
          /\ \A k \in DOMAIN g.routed : g.routed[k][1] = l.id => g.routed[k][2] <= l.lastIn
          /\ \A k \in DOMAIN g.stamped : g.stamped[k][1] = l.id => g.stamped[k][2] < l.nextOut

\* No number is used again for another lane.
IdsMinted(g) ==
    /\ \A k \in DOMAIN g.routed : g.routed[k][1] \in 1 .. g.minted
    /\ \A k \in DOMAIN g.stamped : g.stamped[k][1] \in 1 .. g.minted

\* Memory and attachment each hold counters that are enough to go on from: the
\* object may be evicted, and woken from the attachment, at any point.
Counted ==
    /\ IsInjective(ghost.routed) /\ IsInjective(ghost.stamped) /\ IdsMinted(ghost)
    /\ LaneCounted(ghost, inner.lane) /\ LaneCounted(ghost, att.lane)
    /\ ~att.on => att.lane.id = 0
    /\ waits # {} => inner.on

\* The parts of the state Counted speaks of.
LEMMA GhostParts ==
    ASSUME TypeOK
    PROVE  /\ ghost.routed \in Seq(LaneIds \X Nat) /\ ghost.stamped \in Seq(LaneIds \X Nat)
           /\ ghost.minted \in Nat /\ inner.lane \in Lane /\ att.lane \in Lane
           /\ ghost.remembered \in Seq(Rounds)
  BY Bounds DEF TypeOK, Happened, Session, LaneIds

\* A step that routes, stamps and mints nothing.
LEMMA CountedKept ==
    ASSUME TypeOK, Counted,
           ghost'.routed = ghost.routed, ghost'.stamped = ghost.stamped,
           ghost'.minted = ghost.minted,
           inner'.lane \in {inner.lane, att.lane, NoLane},
           att'.lane \in {inner.lane, att.lane, NoLane},
           ~att'.on => att'.lane.id = 0, waits' # {} => inner'.on
    PROVE  Counted'
<1>1. LaneCounted(ghost', NoLane)
  BY GhostParts DEF LaneCounted, NoLane
<1>2. LaneCounted(ghost', inner.lane) /\ LaneCounted(ghost', att.lane)
  BY DEF Counted, LaneCounted
<1>3. IdsMinted(ghost')
  BY DEF Counted, IdsMinted
<1>4. LaneCounted(ghost', inner'.lane) /\ LaneCounted(ghost', att'.lane)
  BY <1>1, <1>2
<1> QED
  BY <1>3, <1>4 DEF Counted

\* A lane minted is newer than any that was used.
LEMMA CountedMint ==
    ASSUME TypeOK, Counted, NEW r,
           ghost' = [ghost EXCEPT !.minted = @ + 1],
           inner'.lane = MintLane(r), inner'.on,
           att' = IF att.on THEN inner' ELSE att
    PROVE  Counted'
<1>1. /\ ghost'.routed = ghost.routed /\ ghost'.stamped = ghost.stamped
      /\ ghost'.minted = ghost.minted + 1 /\ ghost.minted \in Nat
  BY GhostParts DEF TypeOK, Happened
<1>2. inner'.lane.id = ghost.minted + 1
  BY DEF MintLane, Mint, NoLane
<1>3. IdsMinted(ghost')
  BY <1>1 DEF Counted, IdsMinted
<1>4. /\ \A k \in DOMAIN ghost.routed : ghost.routed[k][1] # ghost.minted + 1
      /\ \A k \in DOMAIN ghost.stamped : ghost.stamped[k][1] # ghost.minted + 1
  BY <1>1 DEF Counted, IdsMinted
<1>5. LaneCounted(ghost', inner'.lane)
  BY <1>1, <1>2, <1>4 DEF LaneCounted
<1>6. LaneCounted(ghost', att.lane)
  <2>1. att.lane.id \in Nat
    BY GhostParts, Bounds DEF Lane, LaneIds
  <2> QED
    BY <1>1, <2>1 DEF Counted, LaneCounted
<1>7. LaneCounted(ghost', att'.lane) /\ (~att'.on => att'.lane.id = 0)
  BY <1>5, <1>6 DEF Counted
<1> QED
  BY <1>1, <1>3, <1>5, <1>7 DEF Counted

\* An event routed has a counter above the last its lane took.
LEMMA CountedRouted ==
    ASSUME TypeOK, Counted, NEW l \in {inner.lane, att.lane}, l.id # 0, NEW n \in Nat, n > l.lastIn,
           ghost' = [ghost EXCEPT !.routed = Append(@, <<l.id, n>>)],
           inner'.lane.id = l.id, inner'.lane.lastIn = n, inner'.lane.nextOut = l.nextOut, inner'.on,
           att' = IF att.on THEN inner' ELSE att
    PROVE  Counted'
<1>1. /\ ghost'.routed = Append(ghost.routed, <<l.id, n>>) /\ ghost'.stamped = ghost.stamped
      /\ ghost'.minted = ghost.minted /\ ghost.minted \in Nat
      /\ ghost.routed \in Seq(LaneIds \X Nat)
  BY GhostParts DEF TypeOK, Happened
<1>2. l \in Lane /\ LaneCounted(ghost, l)
  BY GhostParts DEF Counted
<1>3. l.id \in LaneIds /\ l.id \in 1 .. ghost.minted /\ l.lastIn \in Nat /\ <<l.id, n>> \in LaneIds \X Nat
  BY <1>1, <1>2, Bounds DEF Lane, LaneIds, LaneCounted
<1>4. \A k \in DOMAIN ghost.routed : ghost.routed[k] \in LaneIds \X Nat
  BY <1>1
<1>5. \A k \in DOMAIN ghost.routed : ghost.routed[k][1] = l.id => ghost.routed[k][2] <= l.lastIn
  BY <1>2 DEF LaneCounted
<1>6. <<l.id, n>> \notin Range(ghost.routed)
  BY <1>3, <1>4, <1>5 DEF Range
<1>7. IsInjective(ghost'.routed)
  <2>1. IsInjective(ghost.routed)
    BY DEF Counted
  <2> DEFINE Pairs == LaneIds \X Nat
             x == <<l.id, n>>
  <2>2. x \in Pairs /\ ghost.routed \in Seq(Pairs) /\ x \notin Range(ghost.routed)
        /\ ghost'.routed = Append(ghost.routed, x)
    BY <1>1, <1>3, <1>6
  <2> HIDE DEF Pairs, x
  <2> QED
    BY <2>1, <2>2, AppendIsInjective
<1>8. \A k \in DOMAIN ghost'.routed :
          \/ k \in DOMAIN ghost.routed /\ ghost'.routed[k] = ghost.routed[k]
          \/ ghost'.routed[k] = <<l.id, n>>
  BY <1>1
<1>9. IdsMinted(ghost')
  <2>1. IdsMinted(ghost) /\ ghost'.stamped = ghost.stamped /\ ghost'.minted = ghost.minted
    BY <1>1 DEF Counted
  <2>2. \A k \in DOMAIN ghost'.routed : ghost'.routed[k][1] \in 1 .. ghost.minted
    BY <1>3, <1>8, <2>1 DEF IdsMinted
  <2> QED
    BY <2>1, <2>2 DEF IdsMinted
<1>10. LaneCounted(ghost', inner'.lane)
  <2>1. ASSUME NEW k \in DOMAIN ghost'.routed, ghost'.routed[k][1] = l.id
        PROVE  ghost'.routed[k][2] <= n
    <3>1. CASE k \in DOMAIN ghost.routed /\ ghost'.routed[k] = ghost.routed[k]
      <4>1. ghost.routed[k][2] <= l.lastIn /\ ghost.routed[k][2] \in Nat
        BY <1>4, <1>5, <2>1, <3>1
      <4> QED
        BY <1>3, <3>1, <4>1
    <3>2. CASE ghost'.routed[k] = <<l.id, n>>
      BY <3>2
    <3> QED
      BY <1>8, <3>1, <3>2
  <2>2. \A k \in DOMAIN ghost'.stamped : ghost'.stamped[k][1] = l.id => ghost'.stamped[k][2] < l.nextOut
    BY <1>1, <1>2 DEF LaneCounted
  <2> QED
    BY <1>1, <1>2, <2>1, <2>2 DEF LaneCounted
<1>11. LaneCounted(ghost', att'.lane) /\ (~att'.on => att'.lane.id = 0)
  <2>1. CASE att.on
    BY <1>10, <2>1
  <2>2. CASE ~att.on
    BY <1>1, <2>2 DEF Counted, LaneCounted
  <2> QED
    BY <2>1, <2>2
<1> QED
  BY <1>1, <1>7, <1>9, <1>10, <1>11 DEF Counted

\* A delivery stamped takes the next number of its lane.
LEMMA CountedStamped ==
    ASSUME TypeOK, Counted, NEW l \in {inner.lane, att.lane}, l.id # 0,
           ghost' = [ghost EXCEPT !.stamped = Append(@, <<l.id, l.nextOut>>)],
           inner'.lane.id = l.id, inner'.lane.lastIn = l.lastIn,
           inner'.lane.nextOut = l.nextOut + 1, inner'.on,
           att' = IF att.on THEN inner' ELSE att
    PROVE  Counted'
<1>1. /\ ghost'.stamped = Append(ghost.stamped, <<l.id, l.nextOut>>) /\ ghost'.routed = ghost.routed
      /\ ghost'.minted = ghost.minted /\ ghost.minted \in Nat
      /\ ghost.stamped \in Seq(LaneIds \X Nat)
  BY GhostParts DEF TypeOK, Happened
<1>2. l \in Lane /\ LaneCounted(ghost, l)
  BY GhostParts DEF Counted
<1>3. /\ l.id \in LaneIds /\ l.id \in 1 .. ghost.minted /\ l.nextOut \in Nat
      /\ <<l.id, l.nextOut>> \in LaneIds \X Nat
  BY <1>1, <1>2, Bounds DEF Lane, LaneIds, LaneCounted
<1>4. \A k \in DOMAIN ghost.stamped : ghost.stamped[k] \in LaneIds \X Nat
  BY <1>1
<1>5. \A k \in DOMAIN ghost.stamped : ghost.stamped[k][1] = l.id => ghost.stamped[k][2] < l.nextOut
  BY <1>2 DEF LaneCounted
<1>6. <<l.id, l.nextOut>> \notin Range(ghost.stamped)
  BY <1>3, <1>4, <1>5 DEF Range
<1>7. IsInjective(ghost'.stamped)
  <2>1. IsInjective(ghost.stamped)
    BY DEF Counted
  <2> DEFINE Pairs == LaneIds \X Nat
             x == <<l.id, l.nextOut>>
  <2>2. x \in Pairs /\ ghost.stamped \in Seq(Pairs) /\ x \notin Range(ghost.stamped)
        /\ ghost'.stamped = Append(ghost.stamped, x)
    BY <1>1, <1>3, <1>6
  <2> HIDE DEF Pairs, x
  <2> QED
    BY <2>1, <2>2, AppendIsInjective
<1>8. \A k \in DOMAIN ghost'.stamped :
          \/ k \in DOMAIN ghost.stamped /\ ghost'.stamped[k] = ghost.stamped[k]
          \/ ghost'.stamped[k] = <<l.id, l.nextOut>>
  BY <1>1
<1>9. IdsMinted(ghost')
  <2>1. IdsMinted(ghost) /\ ghost'.routed = ghost.routed /\ ghost'.minted = ghost.minted
    BY <1>1 DEF Counted
  <2>2. \A k \in DOMAIN ghost'.stamped : ghost'.stamped[k][1] \in 1 .. ghost.minted
    BY <1>3, <1>8, <2>1 DEF IdsMinted
  <2> QED
    BY <2>1, <2>2 DEF IdsMinted
<1>10. LaneCounted(ghost', inner'.lane)
  <2>1. ASSUME NEW k \in DOMAIN ghost'.stamped, ghost'.stamped[k][1] = l.id
        PROVE  ghost'.stamped[k][2] < l.nextOut + 1
    <3>1. CASE k \in DOMAIN ghost.stamped /\ ghost'.stamped[k] = ghost.stamped[k]
      <4>1. ghost.stamped[k][2] < l.nextOut /\ ghost.stamped[k][2] \in Nat
        BY <1>4, <1>5, <2>1, <3>1
      <4> QED
        BY <1>3, <3>1, <4>1
    <3>2. CASE ghost'.stamped[k] = <<l.id, l.nextOut>>
      BY <1>3, <3>2
    <3> QED
      BY <1>8, <3>1, <3>2
  <2>2. \A k \in DOMAIN ghost'.routed : ghost'.routed[k][1] = l.id => ghost'.routed[k][2] <= l.lastIn
    BY <1>1, <1>2 DEF LaneCounted
  <2> QED
    BY <1>1, <1>2, <2>1, <2>2 DEF LaneCounted
<1>11. LaneCounted(ghost', att'.lane) /\ (~att'.on => att'.lane.id = 0)
  <2>1. CASE att.on
    BY <1>10, <2>1
  <2>2. CASE ~att.on
    BY <1>1, <2>2 DEF Counted, LaneCounted
  <2> QED
    BY <2>1, <2>2
<1> QED
  BY <1>1, <1>7, <1>9, <1>10, <1>11 DEF Counted

\* Every step keeps Counted, evictions between any two of them included.
LEMMA CountedStep ==
    ASSUME TypeOK, Counted, [Next]_vars PROVE Counted'
<1> USE DEF session, polling, hubs, clientVars
<1>0. inner \in Session /\ att \in Session /\ ghost \in Happened /\ rounds \in RoundsKept
  BY DEF TypeOK
<1>a. (~att.on => att.lane.id = 0) /\ (waits # {} => inner.on)
  BY DEF Counted
<1>b. Blank.on /\ Blank.lane = NoLane /\ ~Absent.on /\ Absent.lane = NoLane /\ NoLane.id = 0
  BY DEF Blank, Absent, NoLane
<1> DEFINE i == Woken(inner, att)
<1>i. i \in Session /\ i \in {inner, att} /\ (att.on => i.on)
  BY <1>0 DEF Woken
<1>r. \A x \in Session : \A r : /\ Authenticated(x, r).lane = x.lane
                                /\ Authenticated(x, r).on = x.on
  BY DEF Authenticated, Session
<1>e. ASSUME NEW x \in {inner, i}, Emit(x), x.on, waits' # {} => inner'.on PROVE Counted'
  <2>1. x \in Session /\ x.lane \in {inner.lane, att.lane} /\ x.lane \in Lane
    BY <1>0, <1>i DEF Session
  <2>2. CASE OnLane(x.lane)
    <3>1. /\ inner' = [x EXCEPT !.lane = Sealed(x.lane, now)]
          /\ att' = IF att.on THEN inner' ELSE att
          /\ ghost' = [ghost EXCEPT !.stamped = Append(@, <<x.lane.id, x.lane.nextOut>>)]
      BY <1>e, <2>1, <2>2 DEF Emit, Persist, Session
    <3>2. inner'.lane = Sealed(x.lane, now) /\ inner'.on
      BY <1>e, <2>1, <3>1 DEF Session
    <3>3. /\ inner'.lane.id = x.lane.id /\ inner'.lane.lastIn = x.lane.lastIn
          /\ inner'.lane.nextOut = x.lane.nextOut + 1
      BY <2>1, <3>2 DEF Sealed, Lane
    <3>4. x.lane.id # 0
      BY <2>2 DEF OnLane
    <3> QED
      BY <2>1, <3>1, <3>2, <3>3, <3>4, CountedStamped
  <2>3. CASE ~OnLane(x.lane)
    <3>1. inner' = x /\ att' = att /\ ghost' = ghost
      BY <1>e, <2>3 DEF Emit
    <3> QED
      BY <1>a, <1>e, <2>1, <3>1, CountedKept
  <2> QED
    BY <2>2, <2>3
<1> HIDE DEF i
<1>1. CASE HandOff
  <2> DEFINE j == Woken(Woken(inner, att), Blank)
             r == Remember(Stored(j), worker.round)
  <2>1. j \in Session /\ j.on /\ j.lane \in {inner.lane, att.lane, NoLane}
    BY <1>0, <1>b, SessionsTyped DEF Woken
  <2>2. CASE UNCHANGED <<inner, att, ghost>>
    BY <1>1, <1>a, <2>2, CountedKept DEF HandOff
  <2>3. CASE ~UNCHANGED <<inner, att, ghost>>
    <3>1. /\ inner' = Authenticated(j, r) /\ Persist(Authenticated(j, r)) /\ waits' = waits
          /\ ghost' = [ghost EXCEPT !.remembered = Append(@, worker.round)]
      BY <1>1, <2>3 DEF HandOff
    <3> HIDE DEF j, r
    <3>2. ghost'.routed = ghost.routed /\ ghost'.stamped = ghost.stamped /\ ghost'.minted = ghost.minted
      BY <1>0, <3>1 DEF Happened
    <3>3. inner'.lane = j.lane /\ inner'.on
      BY <1>r, <2>1, <3>1
    <3>4. att' = inner' \/ att' = att
      BY <3>1 DEF Persist
    <3> QED
      BY <1>a, <2>1, <3>2, <3>3, <3>4, CountedKept
  <2> QED
    BY <2>2, <2>3
<1>2. CASE PollGeneral
  <2> DEFINE j == Woken(inner, Blank)
  <2>1. j \in Session /\ j.on /\ j.lane \in {inner.lane, NoLane}
    BY <1>0, <1>b, SessionsTyped DEF Woken
  <2>a. CASE UNCHANGED <<inner, ghost>>
    BY <1>2, <1>a, <2>a, CountedKept DEF PollGeneral
  <2>b. SUFFICES ASSUME ~UNCHANGED <<inner, ghost>> PROVE Counted'
    BY <2>a
  <2>2. PICK r \in client.heard : /\ inner' = Authenticated(j, Advance(Stored(j), r))
                                  /\ \/ ghost' = ghost
                                     \/ ghost' = [ghost EXCEPT !.unknown = @ \cup {r}]
    BY <1>2, <2>b DEF PollGeneral
  <2>3. ghost'.routed = ghost.routed /\ ghost'.stamped = ghost.stamped /\ ghost'.minted = ghost.minted
    BY <1>0, <2>2 DEF Happened
  <2>4. inner'.lane = j.lane /\ inner'.on
    BY <1>r, <2>1, <2>2
  <2> HIDE DEF j
  <2>5. att' = att
    BY <1>2 DEF PollGeneral
  <2> QED
    BY <1>a, <2>1, <2>3, <2>4, <2>5, CountedKept
<1>3. CASE Upgrade
  <2> DEFINE j == Woken(inner, Blank)
  <2>1. j \in Session /\ j.on /\ j.lane \in {inner.lane, NoLane}
    BY <1>0, <1>b, SessionsTyped DEF Woken
  <2>2. inner' = j \/ inner' = Authenticated(j, rounds)
    BY <1>3 DEF Upgrade
  <2>3. inner'.lane = j.lane /\ inner'.on
    BY <1>r, <2>1, <2>2
  <2> HIDE DEF j
  <2>4. att' = inner' /\ ghost' = ghost
    BY <1>3 DEF Upgrade
  <2> QED
    BY <2>1, <2>3, <2>4, CountedKept
<1>4. CASE Evict
  BY <1>4, <1>a, <1>b, CountedKept DEF Evict
<1>5. CASE HandleInitial
  <2> DEFINE r == Remember(Stored(i), Head(up).round)
  <2>1. /\ inner' = Authenticated(i, r) /\ Persist(Authenticated(i, r)) /\ att.on
        /\ ghost' = [ghost EXCEPT !.remembered = Append(@, Head(up).round)]
    BY <1>5 DEF HandleInitial, Frame, i
  <2> HIDE DEF r
  <2>2. ghost'.routed = ghost.routed /\ ghost'.stamped = ghost.stamped /\ ghost'.minted = ghost.minted
    BY <1>0, <2>1 DEF Happened
  <2>3. inner'.lane = i.lane /\ inner'.on /\ att' = inner'
    BY <1>i, <1>r, <2>1 DEF Persist
  <2> QED
    BY <1>i, <2>2, <2>3, CountedKept
<1>s. ASSUME SocketEnds, att.on, ghost'.routed = ghost.routed, ghost'.stamped = ghost.stamped,
             ghost'.minted = ghost.minted
      PROVE  Counted'
  <2>1. inner' = [i EXCEPT !.lane = NoLane] /\ att' = Absent
    BY <1>s DEF SocketEnds, Unregister, i
  <2>2. inner'.lane = NoLane /\ inner'.on
    BY <1>i, <1>s, <2>1 DEF Session
  <2> QED
    BY <1>b, <1>s, <2>1, <2>2, CountedKept
<1>6. CASE HandleAsk
  <2> DEFINE round == Head(up).round
             verified == [Authenticated(i, Advance(Stored(i), round)) EXCEPT
                              !.emitted = TRUE, !.lane = MintLane(round)]
  <2>0. att.on
    BY <1>6 DEF HandleAsk, Frame
  <2>1. \/ /\ inner' = verified /\ Persist(verified)
           /\ ghost' = [ghost EXCEPT !.minted = @ + 1]
        \/ /\ SocketEnds
           /\ ghost' = [ghost EXCEPT !.unknown = @ \cup {round}, !.ended = TRUE]
    BY <1>6 DEF HandleAsk, i
  <2>2. verified.lane = MintLane(round) /\ verified.on = i.on
    BY <1>i, <1>r DEF Authenticated, Session
  <2> HIDE DEF verified, round
  <2>3. CASE /\ inner' = verified /\ Persist(verified)
             /\ ghost' = [ghost EXCEPT !.minted = @ + 1]
    <3>1. inner'.lane = MintLane(round) /\ inner'.on
      BY <1>i, <2>0, <2>2, <2>3
    <3>2. att' = IF att.on THEN inner' ELSE att
      BY <2>3 DEF Persist
    <3> QED
      BY <2>3, <3>1, <3>2, CountedMint
  <2>4. CASE SocketEnds /\ ghost' = [ghost EXCEPT !.unknown = @ \cup {round}, !.ended = TRUE]
    <3>1. ghost'.routed = ghost.routed /\ ghost'.stamped = ghost.stamped /\ ghost'.minted = ghost.minted
      BY <1>0, <2>4 DEF Happened
    <3> QED
      BY <1>s, <2>0, <2>4, <3>1
  <2> QED
    BY <2>1, <2>3, <2>4
<1>7. CASE HandleAttach
  <2>1. /\ inner' \in {i, [i EXCEPT !.tried = TRUE]} /\ att' \in {att, [i EXCEPT !.tried = TRUE]}
        /\ att.on /\ ghost' = ghost
    BY <1>7 DEF HandleAttach, Frame, Persist, i
  <2>2. [i EXCEPT !.tried = TRUE].lane = i.lane /\ [i EXCEPT !.tried = TRUE].on = i.on
    BY <1>i DEF Session
  <2> QED
    BY <1>i, <2>1, <2>2, CountedKept
<1>8. CASE AttachAnswered
  <2> DEFINE done == [inner EXCEPT !.auth = Attached, !.emitted = TRUE, !.lane = MintLane(Attached)]
  <2>1. waits # {} /\ inner.on
    BY <1>8, <1>a DEF AttachAnswered
  <2>2. \/ /\ inner' = done /\ Persist(done) /\ ghost' = [ghost EXCEPT !.minted = @ + 1]
        \/ UNCHANGED <<inner, att, ghost>>
    BY <1>8 DEF AttachAnswered
  <2>3. done.lane = MintLane(Attached) /\ done.on = inner.on
    BY <1>0 DEF Session
  <2> HIDE DEF done
  <2>4. CASE inner' = done /\ Persist(done) /\ ghost' = [ghost EXCEPT !.minted = @ + 1]
    BY <2>1, <2>3, <2>4, CountedMint DEF Persist
  <2>5. CASE UNCHANGED <<inner, att, ghost>>
    BY <1>a, <2>1, <2>5, CountedKept
  <2> QED
    BY <2>2, <2>4, <2>5
<1>9. CASE HandleEvent
  <2> DEFINE n == Head(up).n
             lane == Received(i.lane, Head(up), now)
  <2>0. att.on /\ n \in Nat
    BY <1>9, FrameTyped DEF HandleEvent, Frame
  <2>1. i.lane \in Lane /\ i.lane \in {inner.lane, att.lane}
    BY <1>i DEF Session
  <2>2. CASE VerifyInbound(i.lane, Head(up), now) = "ok"
    <3>1. i.lane.id # 0 /\ n > i.lane.lastIn
      <4>1. i.lane.lastIn \in Nat
        BY <2>1 DEF Lane
      <4> QED
        BY <2>0, <2>2, <4>1 DEF VerifyInbound
    <3>2. /\ inner' = [i EXCEPT !.lane = lane] /\ Persist([i EXCEPT !.lane = lane])
          /\ ghost' = [ghost EXCEPT !.routed = Append(@, <<lane.id, n>>)]
      BY <1>9, <2>2 DEF HandleEvent, i
    <3>3. lane.id = i.lane.id /\ lane.lastIn = n /\ lane.nextOut = i.lane.nextOut
      BY <2>1 DEF Received, Lane
    <3> HIDE DEF lane, n
    <3>4. inner'.lane = lane /\ inner'.on
      BY <1>i, <2>0, <3>2 DEF Session
    <3>5. att' = IF att.on THEN inner' ELSE att
      BY <3>2 DEF Persist
    <3>6. ghost' = [ghost EXCEPT !.routed = Append(@, <<i.lane.id, n>>)]
      BY <3>2, <3>3
    <3> QED
      BY <2>0, <2>1, <3>1, <3>3, <3>4, <3>5, <3>6, CountedRouted
  <2>3. CASE VerifyInbound(i.lane, Head(up), now) # "ok"
    <3>1. inner' = i /\ att' = att /\ ghost' = ghost
      BY <1>9, <2>3 DEF HandleEvent, i
    <3> QED
      BY <1>i, <2>0, <3>1, CountedKept
  <2> QED
    BY <2>2, <2>3
<1>10. CASE HandleBye
  <2>1. inner' = [i EXCEPT !.lane = NoLane] /\ att' = att /\ ghost' = ghost /\ att.on
    BY <1>10 DEF HandleBye, Unregister, Frame, i
  <2>2. inner'.lane = NoLane /\ inner'.on
    BY <1>i, <2>1 DEF Session
  <2> QED
    BY <2>1, <2>2, CountedKept
<1>11. CASE Broadcast
  <2>1. att.on /\ i.on /\ waits' = waits
    BY <1>11, <1>i DEF Broadcast
  <2>2. CASE inner' = i /\ UNCHANGED <<att, ghost>>
    BY <1>i, <2>1, <2>2, CountedKept
  <2>3. CASE Emit(i)
    <3>1. inner'.on
      <4>1. inner' = i \/ inner' = [i EXCEPT !.lane = Sealed(@, now)]
        BY <2>3 DEF Emit
      <4> QED
        BY <1>i, <2>1, <4>1 DEF Session
    <3> QED
      BY <1>e, <2>1, <2>3, <3>1
  <2> QED
    BY <1>11, <2>2, <2>3 DEF Broadcast, i
<1>12. CASE WebsocketClose
  <2>1. ghost'.routed = ghost.routed /\ ghost'.stamped = ghost.stamped /\ ghost'.minted = ghost.minted
    BY <1>0, <1>12 DEF WebsocketClose, Happened
  <2> QED
    BY <1>12, <1>s, <2>1 DEF WebsocketClose
<1>13. ASSUME NEW w \in waits, ForwardAnswered(w) PROVE Counted'
  <2>1. inner.on /\ Emit(inner)
    BY <1>13, <1>a DEF ForwardAnswered
  <2>2. inner'.on
    <3>1. inner' = inner \/ inner' = [inner EXCEPT !.lane = Sealed(@, now)]
      BY <2>1 DEF Emit
    <3> QED
      BY <1>0, <2>1, <3>1 DEF Session
  <2> QED
    BY <1>e, <2>1, <2>2
<1>14. ASSUME UNCHANGED <<inner, att, ghost>>, waits # {} \/ waits' = waits PROVE Counted'
  BY <1>14, <1>a, CountedKept
<1>15. CASE \/ PollInitial \/ AppendReads \/ AppendWrites \/ DrainReads \/ DrainWrites
            \/ SendInitial \/ SendAsk \/ SendAttach \/ AttachTimesOut \/ SendEvent \/ SendBye
            \/ (\E f \in down : Hears(f)) \/ Tick
  <2>1. UNCHANGED <<inner, att, ghost>> /\ waits' = waits
    BY <1>15 DEF PollInitial, AppendReads, AppendWrites, DrainReads, DrainWrites, SendInitial,
         SendAsk, SendAttach, AttachTimesOut, SendEvent, SendBye, Hears, Tick
  <2> QED
    BY <1>14, <2>1
<1>16. CASE \/ \E w \in waits : ForwardRetries(w) \/ ForwardGivesUp(w)
            \/ \E p \in posts : HubEvent(p) \/ HubUnregister(p) \/ PostLost(p)
            \/ Sweep \/ (\E h \in Counters : HttpCall(h))
            \/ \E n \in DOMAIN calls : SessionTake(n) \/ SessionKept(n)
  <2>1. UNCHANGED <<inner, att, ghost>> /\ (waits # {} \/ waits' = waits)
    BY <1>16 DEF ForwardRetries, ForwardGivesUp, HubEvent, HubUnregister, PostLost, Sweep,
         HttpCall, SessionTake, SessionKept
  <2> QED
    BY <1>14, <2>1
<1>17. CASE UNCHANGED vars
  BY <1>14, <1>17 DEF vars
<1> QED
  BY <1>1, <1>2, <1>3, <1>4, <1>5, <1>6, <1>7, <1>8, <1>9, <1>10, <1>11, <1>12, <1>13, <1>15,
     <1>16, <1>17 DEF Next

\* So the counters of memory and attachment are always good ones.
LEMMA CountedHolds == Spec => []Counted
<1>1. Init => Counted
  <2> SUFFICES ASSUME Init PROVE Counted
    OBVIOUS
  <2>1. ghost.routed = <<>> /\ ghost.stamped = <<>> /\ ghost.minted = 0
    BY DEF Init
  <2>2. inner.lane = NoLane /\ att.lane = NoLane /\ NoLane.id = 0 /\ waits = {}
    BY DEF Init, Absent, Blank, NoLane
  <2>3. IsInjective(<<>>)
    BY DEF IsInjective
  <2> QED
    BY <2>1, <2>2, <2>3 DEF Counted, IdsMinted, LaneCounted
<1>2. TypeOK /\ Counted /\ [Next]_vars => Counted'
  BY CountedStep
<1> QED
  BY <1>1, <1>2, TypeCorrect, PTL DEF Spec

\* dispatch_session_message and emit_on_session_lane move the counter before the
\* event is routed or the frame sent: however the object is evicted, its handlers
\* interleave, forwards are retried or lanes replaced, no frame of the client is
\* routed twice and no outbound counter is stamped twice.
THEOREM CountersAreUsedOnce == Spec => []CountersOnce
<1>1. Counted => CountersOnce
  BY DEF Counted, CountersOnce
<1> QED
  BY <1>1, CountedHolds, PTL

-----------------------------------------------------------------------------
(* The rounds the object knows *)

\* The list ends with the last RoundCap rounds that were remembered.
ListKept(rs, remembered) ==
    /\ Len(rs.list) <= RoundCap
    /\ ~rs.held => rs.list = <<>>
    /\ \A d \in 0 .. RoundCap - 1 :
          d < Len(remembered) =>
              /\ d < Len(rs.list)
              /\ rs.list[Len(rs.list) - d] = remembered[Len(remembered) - d]

\* A round the client is told of, by any way an answer takes to it, has been
\* remembered before.
PollTold(told) ==
    /\ Range(queue) \subseteq told /\ Range(worker.read) \subseteq told
    /\ Range(worker.get) \subseteq told
    /\ worker.post = "append" => worker.round \in told

SocketTold(told) ==
    /\ client.heard \subseteq told
    /\ \A k \in DOMAIN up : up[k].k = "ask" => up[k].round \in told
    /\ \A f \in down : f.k = "response" => f.round \in told

Recalled ==
    /\ ListKept(rounds, ghost.remembered)
    /\ PollTold(Range(ghost.remembered)) /\ SocketTold(Range(ghost.remembered))
    /\ GeneralIsKnown

\* The rounds a session reads are those of its storage.
LEMMA StoredList ==
    ASSUME TypeOK, Recalled, NEW i PROVE Stored(i).list = rounds.list
  BY DEF Recalled, ListKept, Stored

\* A round remembered is the newest, and pushes out the oldest at the cap.
LEMMA RememberKept ==
    ASSUME NEW r \in RoundsKept, NEW rem \in Seq(Rounds), NEW state \in Rounds,
           Len(r.list) <= RoundCap,
           \A d \in 0 .. RoundCap - 1 :
              d < Len(rem) => /\ d < Len(r.list)
                              /\ r.list[Len(r.list) - d] = rem[Len(rem) - d]
    PROVE  ListKept(Remember(r, state), Append(rem, state))
<1> DEFINE first == IF r.list = <<>> /\ r.current # None THEN <<r.current>> ELSE <<>>
           all == r.list \o first \o <<state>>
           list == IF Len(all) > RoundCap THEN Tail(all) ELSE all
           rem2 == Append(rem, state)
<1>1. /\ r.list \in Seq(AuthStates) /\ r.current \in AuthStates /\ state \in AuthStates
      /\ Len(r.list) \in Nat /\ Len(rem) \in Nat /\ RoundCap \in Nat \ {0}
  BY Bounds DEF RoundsKept
<1>2. first \in Seq(AuthStates) /\ Len(first) \in 0 .. 1 /\ (r.list # <<>> => first = <<>>)
  BY <1>1
<1>3. r.list = <<>> <=> Len(r.list) = 0
  BY <1>1
<1>4. rem2 \in Seq(Rounds) /\ Len(rem2) = Len(rem) + 1 /\ rem2[Len(rem) + 1] = state
      /\ \A k \in 1 .. Len(rem) : rem2[k] = rem[k]
  BY <1>1
<1> DEFINE old == r.list \o first
<1> HIDE DEF first
<1>5. old \in Seq(AuthStates) /\ Len(old) = Len(r.list) + Len(first)
      /\ (r.list # <<>> => Len(old) = Len(r.list) /\ \A k \in 1 .. Len(r.list) : old[k] = r.list[k])
  <2>1. /\ r.list \o first \in Seq(AuthStates)
        /\ Len(r.list \o first) = Len(r.list) + Len(first)
        /\ \A k \in 1 .. Len(r.list) + Len(first) :
              (r.list \o first)[k] = IF k <= Len(r.list) THEN r.list[k] ELSE first[k - Len(r.list)]
    BY <1>1, <1>2, ConcatProperties
  <2> HIDE DEF old
  <2>2. /\ old \in Seq(AuthStates) /\ Len(old) = Len(r.list) + Len(first)
        /\ \A k \in 1 .. Len(r.list) + Len(first) :
              old[k] = IF k <= Len(r.list) THEN r.list[k] ELSE first[k - Len(r.list)]
    BY <2>1 DEF old
  <2>3. ASSUME r.list # <<>>
        PROVE  Len(old) = Len(r.list) /\ \A k \in 1 .. Len(r.list) : old[k] = r.list[k]
    <3>1. Len(first) = 0
      BY <1>2, <2>3
    <3> QED
      BY <1>1, <2>2, <3>1
  <2> QED
    BY <2>2, <2>3
<1>6. Len(old) <= RoundCap /\ Len(old) \in Nat
  <2>1. CASE r.list = <<>>
    BY <1>1, <1>2, <1>3, <1>5, <2>1
  <2>2. CASE r.list # <<>>
    BY <1>1, <1>5, <2>2
  <2> QED
    BY <2>1, <2>2
<1> HIDE DEF old
<1>7. all \in Seq(AuthStates) /\ Len(all) = Len(old) + 1 /\ all[Len(old) + 1] = state
      /\ \A k \in 1 .. Len(old) : all[k] = old[k]
  BY <1>1, <1>5, <1>6 DEF old
<1> HIDE DEF all
<1>8. /\ Len(list) <= RoundCap /\ Len(list) \in Nat
      /\ Len(list) = Len(all) \/ (Len(list) = RoundCap /\ Len(all) = RoundCap + 1)
      /\ \A d \in 0 .. RoundCap - 1 : d < Len(all) => /\ d < Len(list)
                                                       /\ list[Len(list) - d] = all[Len(all) - d]
  <2>1. CASE Len(all) > RoundCap
    <3>1. Len(all) = RoundCap + 1 /\ all # <<>>
      BY <1>1, <1>6, <1>7, <2>1
    <3>2. Len(Tail(all)) = RoundCap /\ \A k \in 1 .. RoundCap : Tail(all)[k] = all[k + 1]
      BY <1>1, <1>7, <3>1
    <3>3. list = Tail(all)
      BY <2>1
    <3> HIDE DEF list
    <3>4. \A d \in 0 .. RoundCap - 1 : /\ d < Len(list) /\ list[Len(list) - d] = all[Len(all) - d]
      <4> SUFFICES ASSUME NEW d \in 0 .. RoundCap - 1
                   PROVE  d < Len(list) /\ list[Len(list) - d] = all[Len(all) - d]
        OBVIOUS
      <4>1. RoundCap - d \in 1 .. RoundCap /\ (RoundCap - d) + 1 = Len(all) - d
        BY <1>1, <3>1
      <4> QED
        BY <1>1, <3>2, <3>3, <4>1
    <3> QED
      BY <1>1, <3>1, <3>2, <3>3, <3>4
  <2>2. CASE ~(Len(all) > RoundCap)
    <3>1. list = all
      BY <2>2
    <3> HIDE DEF list
    <3> QED
      BY <1>1, <1>6, <1>7, <2>2, <3>1
  <2> QED
    BY <2>1, <2>2
<1>9. Remember(r, state).list = list /\ Remember(r, state).held
  BY DEF Remember, all, first
<1> HIDE DEF list
<1>10. ASSUME NEW d \in 0 .. RoundCap - 1, d < Len(rem2)
       PROVE  d < Len(list) /\ list[Len(list) - d] = rem2[Len(rem2) - d]
  <2>1. CASE d = 0
    <3>1. d < Len(all) /\ all[Len(all) - d] = state
      BY <1>6, <1>7, <2>1
    <3>2. rem2[Len(rem2) - d] = state
      BY <1>1, <1>4, <2>1
    <3> QED
      BY <1>8, <3>1, <3>2
  <2>2. CASE d # 0
    <3>1. d - 1 \in 0 .. RoundCap - 1 /\ d - 1 < Len(rem)
      BY <1>1, <1>4, <1>10, <2>2
    <3>2. d - 1 < Len(r.list) /\ r.list[Len(r.list) - (d - 1)] = rem[Len(rem) - (d - 1)]
      BY <3>1
    <3>3. r.list # <<>>
      BY <1>1, <1>3, <3>1, <3>2
    <3>4. Len(old) = Len(r.list) /\ \A k \in 1 .. Len(r.list) : old[k] = r.list[k]
      BY <1>5, <3>3
    <3>5. Len(r.list) - (d - 1) \in 1 .. Len(r.list) /\ Len(all) - d = Len(r.list) - (d - 1)
      BY <1>1, <1>7, <3>1, <3>2, <3>4
    <3>6. all[Len(all) - d] = r.list[Len(r.list) - (d - 1)] /\ d < Len(all)
      <4> DEFINE k == Len(r.list) - (d - 1)
      <4>1. k \in 1 .. Len(old) /\ Len(all) - d = k
        BY <3>4, <3>5
      <4> HIDE DEF k
      <4>2. all[k] = old[k] /\ old[k] = r.list[k]
        BY <1>7, <3>4, <4>1
      <4>3. d < Len(all)
        BY <1>1, <1>7, <3>2, <3>4
      <4> QED
        BY <4>1, <4>2, <4>3 DEF k
    <3>7. Len(rem) - (d - 1) \in 1 .. Len(rem) /\ Len(rem2) - d = Len(rem) - (d - 1)
      BY <1>1, <1>4, <3>1
    <3>8. rem2[Len(rem2) - d] = rem[Len(rem) - (d - 1)]
      BY <1>4, <3>7
    <3> QED
      BY <1>8, <3>2, <3>6, <3>8
  <2> QED
    BY <2>1, <2>2
<1> HIDE DEF rem2
<1>11. ListKept(Remember(r, state), rem2)
  BY <1>8, <1>9, <1>10 DEF ListKept
<1> QED
  BY <1>11 DEF rem2

\* A round that was remembered and is not known has RoundCap rounds behind it.
LEMMA UnknownIsOld ==
    ASSUME TypeOK, Recalled, NEW i, NEW r \in Range(ghost.remembered), ~Known(Stored(i), r)
    PROVE  \E n \in DOMAIN ghost.remembered :
              ghost.remembered[n] = r /\ Len(ghost.remembered) - n >= RoundCap
<1> DEFINE rem == ghost.remembered
<1>1. rem \in Seq(Rounds) /\ Len(rem) \in Nat /\ DOMAIN rem = 1 .. Len(rem) /\ RoundCap \in Nat
      /\ rounds.list \in Seq(AuthStates)
  BY GhostParts, Bounds DEF TypeOK, RoundsKept
<1>2. PICK n \in DOMAIN rem : rem[n] = r
  BY DEF Range
<1>3. ASSUME ~(Len(rem) - n >= RoundCap) PROVE FALSE
  <2>1. Len(rem) - n \in 0 .. RoundCap - 1 /\ Len(rem) - n < Len(rem)
        /\ Len(rem) - (Len(rem) - n) = n
    BY <1>1, <1>3
  <2> DEFINE d == Len(rem) - n
  <2>2. d < Len(rounds.list) /\ rounds.list[Len(rounds.list) - d] = rem[Len(rem) - d]
    BY <2>1 DEF Recalled, ListKept
  <2>3. rem[Len(rem) - d] = r
    BY <1>2, <2>1
  <2>4. Len(rounds.list) - d \in DOMAIN rounds.list
    BY <1>1, <2>1, <2>2
  <2> HIDE DEF d
  <2>5. \E k \in DOMAIN rounds.list : rounds.list[k] = r
    BY <2>2, <2>3, <2>4
  <2> QED
    BY <2>5, StoredList DEF Known
<1> QED
  BY <1>2, <1>3

\* A round is remembered, and what the client is told of grows by no more.
LEMMA RecalledMore ==
    ASSUME TypeOK, Recalled, NEW i \in Session, NEW state \in Rounds,
           rounds' = Remember(Stored(i), state),
           ghost' = [ghost EXCEPT !.remembered = Append(@, state)],
           PollTold(Range(ghost.remembered))', SocketTold(Range(ghost.remembered))'
    PROVE  Recalled'
<1>1. Stored(i) \in RoundsKept /\ ghost.remembered \in Seq(Rounds)
  BY SessionsTyped, GhostParts DEF TypeOK
<1>2. /\ ghost'.remembered = Append(ghost.remembered, state) /\ ghost'.unknown = ghost.unknown
  BY DEF TypeOK, Happened
<1>5. ListKept(rounds', ghost'.remembered)
  <2>1. Stored(i).list = rounds.list
    BY StoredList
  <2>2. ListKept(Remember(Stored(i), state), Append(ghost.remembered, state))
    <3> DEFINE r == Stored(i)
               rem == ghost.remembered
    <3>1. /\ Len(r.list) <= RoundCap
          /\ \A d \in 0 .. RoundCap - 1 :
                d < Len(rem) => /\ d < Len(r.list)
                                /\ r.list[Len(r.list) - d] = rem[Len(rem) - d]
      BY <2>1 DEF Recalled, ListKept
    <3>2. r \in RoundsKept /\ rem \in Seq(Rounds)
      BY <1>1
    <3> HIDE DEF r, rem
    <3>3. ListKept(Remember(r, state), Append(rem, state))
      BY <3>1, <3>2, RememberKept
    <3> QED
      BY <3>3 DEF r, rem
  <2> QED
    BY <1>2, <2>2
<1>6. GeneralIsKnown'
  <2> SUFFICES ASSUME NEW r \in ghost.unknown
               PROVE  \E n \in DOMAIN ghost'.remembered :
                         ghost'.remembered[n] = r /\ Len(ghost'.remembered) - n >= RoundCap
    BY <1>2 DEF GeneralIsKnown
  <2>1. PICK n \in DOMAIN ghost.remembered :
            ghost.remembered[n] = r /\ Len(ghost.remembered) - n >= RoundCap
    BY DEF Recalled, GeneralIsKnown
  <2>2. n \in DOMAIN ghost'.remembered /\ ghost'.remembered[n] = r
        /\ Len(ghost'.remembered) = Len(ghost.remembered) + 1 /\ Len(ghost.remembered) \in Nat
        /\ n \in Nat
    BY <1>1, <1>2, <2>1
  <2>3. Len(ghost'.remembered) - n >= RoundCap
    BY <2>1, <2>2, Bounds
  <2> QED
    BY <2>2, <2>3
<1> QED
  BY <1>5, <1>6 DEF Recalled

\* Nothing is remembered, and no General is judged.
LEMMA RecalledSame ==
    ASSUME TypeOK, Recalled, rounds' = rounds, ghost'.remembered = ghost.remembered,
           ghost'.unknown = ghost.unknown,
           PollTold(Range(ghost.remembered))', SocketTold(Range(ghost.remembered))'
    PROVE  Recalled'
  BY DEF Recalled, GeneralIsKnown

\* A General is judged.
LEMMA RecalledJudged ==
    ASSUME TypeOK, Recalled, NEW i \in Session, NEW r \in Range(ghost.remembered),
           rounds' = Advance(Stored(i), r), ghost'.remembered = ghost.remembered,
           ghost'.unknown = ghost.unknown
               \/ (ghost'.unknown = ghost.unknown \cup {r} /\ ~Known(Stored(i), r)),
           PollTold(Range(ghost.remembered))', SocketTold(Range(ghost.remembered))'
    PROVE  Recalled'
<1>1. rounds'.list = rounds.list /\ rounds'.held
  <2>1. Stored(i) \in RoundsKept
    BY SessionsTyped DEF TypeOK
  <2> QED
    BY <2>1, StoredList DEF Advance, RoundsKept
<1>2. ListKept(rounds', ghost'.remembered)
  BY <1>1 DEF Recalled, ListKept
<1>3. GeneralIsKnown'
  BY UnknownIsOld DEF Recalled, GeneralIsKnown
<1> QED
  BY <1>2, <1>3 DEF Recalled

\* Every step keeps Recalled.
LEMMA RecalledStep ==
    ASSUME TypeOK, Recalled, [Next]_vars PROVE Recalled'
<1> USE DEF session, polling, hubs, clientVars
<1> DEFINE told == Range(ghost.remembered)
<1>0. /\ ghost \in Happened /\ inner \in Session /\ att \in Session /\ worker \in Worker
      /\ client \in Client /\ up \in Seq(UpFrame) /\ queue \in Seq(Rounds)
  BY DEF TypeOK
<1>p. Range(queue) \subseteq told /\ Range(worker.read) \subseteq told /\ Range(worker.get) \subseteq told
      /\ (worker.post = "append" => worker.round \in told)
  BY DEF Recalled, PollTold
<1>s. /\ client.heard \subseteq told
      /\ \A k \in DOMAIN up : up[k].k = "ask" => up[k].round \in told
      /\ \A f \in down : f.k = "response" => f.round \in told
  BY DEF Recalled, SocketTold
<1>e. Range(<<>>) = {}
  BY DEF Range
<1>t. up # <<>> => \A k \in DOMAIN Tail(up) : k + 1 \in DOMAIN up /\ Tail(up)[k] = up[k + 1]
  BY <1>0
<1>u. ASSUME up # <<>>
      PROVE  /\ Head(up).k = "ask" => Head(up).round \in told
             /\ \A k \in DOMAIN Tail(up) : Tail(up)[k].k = "ask" => Tail(up)[k].round \in told
  <2>1. 1 \in DOMAIN up /\ Head(up) = up[1]
    BY <1>0, <1>u
  <2> QED
    BY <1>s, <1>t, <1>u, <2>1
<1> DEFINE PollNext(t) == /\ Range(queue') \subseteq t /\ Range(worker'.read) \subseteq t
                          /\ Range(worker'.get) \subseteq t
                          /\ worker'.post = "append" => worker'.round \in t
           SocketNext(t) == /\ client'.heard \subseteq t
                            /\ \A k \in DOMAIN up' : up'[k].k = "ask" => up'[k].round \in t
                            /\ \A f \in down' : f.k = "response" => f.round \in t
\* The polling side, or the socket, is as it was.
<1>kp. ASSUME UNCHANGED <<queue, worker>>, NEW t, told \subseteq t PROVE PollNext(t)
  BY <1>kp, <1>p
<1>ks. ASSUME client'.heard = client.heard, UNCHANGED <<up, down>>, NEW t, told \subseteq t
       PROVE  SocketNext(t)
  BY <1>ks, <1>s
\* Nothing is remembered; a General is judged; a round is remembered.
<1>ka. ASSUME rounds' = rounds, ghost'.remembered = ghost.remembered, ghost'.unknown = ghost.unknown,
              PollNext(told), SocketNext(told)
       PROVE  Recalled'
  <2>0. Range(ghost.remembered)' = told
    BY <1>ka
  <2>1. PollTold(Range(ghost.remembered))' /\ SocketTold(Range(ghost.remembered))'
    <3>1. PollTold(Range(ghost.remembered))'
      BY <1>ka, <2>0 DEF PollTold
    <3>2. SocketTold(Range(ghost.remembered))'
      BY <1>ka, <2>0 DEF SocketTold
    <3> QED
      BY <3>1, <3>2
  <2> QED
    BY <1>ka, <2>1, RecalledSame
<1>kb. ASSUME NEW i \in Session, NEW r \in told, rounds' = Advance(Stored(i), r),
              ghost'.remembered = ghost.remembered,
              ghost'.unknown = ghost.unknown
                  \/ (ghost'.unknown = ghost.unknown \cup {r} /\ ~Known(Stored(i), r)),
              PollNext(told), SocketNext(told)
       PROVE  Recalled'
  <2>0. Range(ghost.remembered)' = told
    BY <1>kb
  <2>1. PollTold(Range(ghost.remembered))' /\ SocketTold(Range(ghost.remembered))'
    <3>1. PollTold(Range(ghost.remembered))'
      BY <1>kb, <2>0 DEF PollTold
    <3>2. SocketTold(Range(ghost.remembered))'
      BY <1>kb, <2>0 DEF SocketTold
    <3> QED
      BY <3>1, <3>2
  <2> QED
    BY <1>kb, <2>1, RecalledJudged
<1>kc. ASSUME NEW i \in Session, NEW r \in Rounds, rounds' = Remember(Stored(i), r),
              ghost' = [ghost EXCEPT !.remembered = Append(@, r)],
              PollNext(told \cup {r}), SocketNext(told \cup {r})
       PROVE  Recalled'
  <2>1. ghost'.remembered = Append(ghost.remembered, r) /\ ghost.remembered \in Seq(Rounds)
    BY <1>0, <1>kc DEF Happened
  <2>2. Range(ghost'.remembered) = told \cup {r}
    BY <2>1, AppendRange
  <2> QED
    <3>1. PollTold(Range(ghost.remembered))' /\ SocketTold(Range(ghost.remembered))'
      BY <1>kc, <2>2 DEF PollTold, SocketTold
    <3> QED
      BY <1>kc, <3>1, RecalledMore
<1> HIDE DEF told, PollNext, SocketNext
<1>w. Woken(inner, att) \in Session /\ Woken(inner, Blank) \in Session
      /\ Woken(Woken(inner, att), Blank) \in Session
  BY <1>0, SessionsTyped
<1>1. CASE PollInitial
  <2>1. PollNext(told)
    BY <1>0, <1>1, <1>p DEF PollInitial, PollNext, Worker
  <2>2. client'.heard = client.heard
    BY <1>0, <1>1 DEF PollInitial, Client
  <2> QED
    BY <1>1, <1>ks, <1>ka, <2>1, <2>2 DEF PollInitial
<1>2. CASE HandOff
  <2>0. worker.round \in Rounds
    BY <1>0 DEF Worker
  <2>1. CASE UNCHANGED <<rounds, inner, att, ghost>> /\ worker' = MarkedClosed
    <3>1. PollNext(told)
      BY <1>0, <1>2, <1>p, <2>1 DEF HandOff, PollNext, Worker, MarkedClosed
    <3> QED
      BY <1>2, <1>ks, <1>ka, <2>1, <3>1 DEF HandOff
  <2>2. CASE /\ rounds' = Remember(Stored(Woken(Woken(inner, att), Blank)), worker.round)
             /\ ghost' = [ghost EXCEPT !.remembered = Append(@, worker.round)]
             /\ worker' \in {[worker EXCEPT !.post = "append"], MarkedClosed}
    <3>1. PollNext(told \cup {worker.round})
      BY <1>0, <1>2, <1>p, <2>2 DEF HandOff, PollNext, Worker, MarkedClosed
    <3>2. SocketNext(told \cup {worker.round})
      BY <1>2, <1>ks DEF HandOff
    <3> QED
      BY <1>w, <1>kc, <2>0, <2>2, <3>1, <3>2
  <2> QED
    BY <1>2, <2>1, <2>2 DEF HandOff
<1>3. CASE AppendReads
  <2>1. Range(Append(queue, worker.round)) = Range(queue) \cup {worker.round}
    <3>1. worker.round \in Rounds
      BY <1>0 DEF Worker
    <3> QED
      BY <1>0, <3>1, AppendRange
  <2>2. PollNext(told)
    BY <1>0, <1>3, <1>p, <2>1 DEF AppendReads, PollNext, Worker
  <2> QED
    BY <1>3, <1>ks, <1>ka, <2>2 DEF AppendReads
<1>4. CASE AppendWrites
  <2>1. /\ queue' = worker.read /\ worker'.read = <<>> /\ worker'.get = worker.get
        /\ worker'.post = "idle"
    BY <1>0, <1>4 DEF AppendWrites, Worker
  <2>2. PollNext(told)
    BY <1>e, <1>p, <2>1 DEF PollNext
  <2> QED
    BY <1>4, <1>ks, <1>ka, <2>2 DEF AppendWrites
<1>5. CASE DrainReads
  <2>1. PollNext(told)
    BY <1>0, <1>5, <1>p DEF DrainReads, PollNext, Worker
  <2> QED
    BY <1>5, <1>ks, <1>ka, <2>1 DEF DrainReads
<1>6. CASE DrainWrites
  <2>1. /\ queue' = <<>> /\ worker'.read = worker.read /\ worker'.get = <<>>
        /\ worker'.post = worker.post /\ worker'.round = worker.round
    BY <1>0, <1>6 DEF DrainWrites, Worker
  <2>2. PollNext(told)
    BY <1>e, <1>p, <2>1 DEF PollNext
  <2>3. client'.heard = client.heard \cup Range(worker.get)
    BY <1>0, <1>6 DEF DrainWrites, Client
  <2>4. SocketNext(told)
    BY <1>6, <1>p, <1>s, <2>3 DEF DrainWrites, SocketNext
  <2> QED
    BY <1>6, <1>ka, <2>2, <2>4 DEF DrainWrites
<1>7. CASE PollGeneral
  <2> DEFINE i == Woken(inner, Blank)
  <2>a. PollNext(told) /\ SocketNext(told)
    <3>1. /\ worker'.read = worker.read /\ worker'.get = worker.get /\ queue' = queue
          /\ worker'.round = worker.round
          /\ worker'.post \in {worker.post, "idle"}
      BY <1>0, <1>7 DEF PollGeneral, Worker, MarkedClosed
    <3>2. PollNext(told)
      BY <1>p, <3>1 DEF PollNext
    <3> QED
      BY <1>7, <1>ks, <3>2 DEF PollGeneral
  <2>b. CASE UNCHANGED <<rounds, ghost>>
    BY <1>ka, <2>a, <2>b
  <2>c. SUFFICES ASSUME ~UNCHANGED <<rounds, ghost>> PROVE Recalled'
    BY <2>b
  <2>1. PICK r \in client.heard :
          /\ rounds' = Advance(Stored(i), r)
          /\ ghost' = IF Known(Stored(i), r) THEN ghost ELSE [ghost EXCEPT !.unknown = @ \cup {r}]
    BY <1>7, <2>c DEF PollGeneral
  <2>2. r \in told /\ i \in Session
    BY <1>s, <1>w
  <2>3. /\ ghost'.remembered = ghost.remembered
        /\ \/ ghost'.unknown = ghost.unknown
           \/ ghost'.unknown = ghost.unknown \cup {r} /\ ~Known(Stored(i), r)
    BY <1>0, <2>1 DEF Happened
  <2> HIDE DEF i
  <2> QED
    BY <1>kb, <2>1, <2>2, <2>3, <2>a
<1>8. CASE Upgrade \/ Evict \/ AttachAnswered \/ Broadcast
            \/ (\E w \in waits : ForwardAnswered(w) \/ ForwardRetries(w) \/ ForwardGivesUp(w))
  <2>1. /\ rounds' = rounds /\ UNCHANGED <<queue, worker, client, up>>
        /\ ghost'.remembered = ghost.remembered /\ ghost'.unknown = ghost.unknown
    BY <1>0, <1>8 DEF Upgrade, Evict, AttachAnswered, Broadcast, ForwardAnswered, ForwardRetries,
         ForwardGivesUp, Emit, Happened
  <2>2. \A f \in down' : f.k = "response" => f \in down
    <3>1. CASE AttachAnswered
      <4>1. \A f \in down' : \/ f \in down \/ f.k = "attachRefused" \/ f.k = "attached"
        BY <3>1 DEF AttachAnswered
      <4> QED
        BY <4>1
    <3>2. CASE ~AttachAnswered
      BY <1>8, <3>2 DEF Upgrade, Evict, Broadcast, ForwardAnswered, ForwardRetries, ForwardGivesUp
    <3> QED
      BY <3>1, <3>2
  <2>3. PollNext(told) /\ SocketNext(told)
    BY <1>kp, <1>s, <2>1, <2>2 DEF SocketNext
  <2> QED
    BY <1>ka, <2>1, <2>3
<1>9. CASE SendInitial \/ SendAsk \/ SendAttach \/ SendEvent \/ SendBye
  <2>1. /\ rounds' = rounds /\ UNCHANGED <<queue, worker, down, ghost>>
        /\ client'.heard = client.heard
    BY <1>0, <1>9 DEF SendInitial, SendAsk, SendAttach, SendEvent, SendBye, Client
  <2>2. \E f : up' = Append(up, f) /\ (f.k = "ask" => f.round \in client.heard)
    <3>1. CASE SendInitial
      <4> WITNESS [k |-> "initial", round |-> client.asked + 1]
      <4> QED
        BY <3>1 DEF SendInitial, Sends
    <3>2. CASE SendAsk
      <4>1. PICK r \in client.heard : Sends([k |-> "ask", round |-> r, ask |-> client.ask + 1])
        BY <3>2 DEF SendAsk
      <4> WITNESS [k |-> "ask", round |-> r, ask |-> client.ask + 1]
      <4> QED
        BY <4>1 DEF Sends
    <3>3. CASE SendAttach
      <4> WITNESS [k |-> "attach"]
      <4> QED
        BY <3>3 DEF SendAttach, Sends
    <3>4. CASE SendEvent
      <4>1. PICK n : Sends([k |-> "event", lane |-> client.lane, n |-> n])
        BY <3>4 DEF SendEvent
      <4> WITNESS [k |-> "event", lane |-> client.lane, n |-> n]
      <4> QED
        BY <4>1 DEF Sends
    <3>5. CASE SendBye
      <4> WITNESS [k |-> "bye"]
      <4> QED
        BY <3>5 DEF SendBye, Sends
    <3> QED
      BY <1>9, <3>1, <3>2, <3>3, <3>4, <3>5
  <2>3. PICK f : up' = Append(up, f) /\ (f.k = "ask" => f.round \in client.heard)
    BY <2>2
  <2>4. \A k \in DOMAIN up' : (k \in DOMAIN up /\ up'[k] = up[k]) \/ up'[k] = f
    BY <1>0, <2>3
  <2>5. PollNext(told) /\ SocketNext(told)
    BY <1>kp, <1>s, <2>1, <2>3, <2>4 DEF SocketNext
  <2> QED
    BY <1>ka, <2>1, <2>5
<1>10. CASE AttachTimesOut \/ Tick
  <2>1. client'.heard = client.heard
    BY <1>0, <1>10 DEF AttachTimesOut, Tick, Client
  <2> QED
    BY <1>10, <1>kp, <1>ks, <1>ka, <2>1 DEF AttachTimesOut, Tick
<1>11. ASSUME NEW f \in down, Hears(f) PROVE Recalled'
  <2>1. client'.heard = client.heard
           \/ (f.k = "response" /\ client'.heard = client.heard \cup {f.round})
    BY <1>0, <1>11 DEF Hears, Client
  <2>2. SocketNext(told)
    BY <1>11, <1>s, <2>1 DEF Hears, SocketNext
  <2> QED
    BY <1>11, <1>kp, <1>ka, <2>2 DEF Hears
<1>12. CASE HandleInitial
  <2>1. Head(up).round \in Rounds /\ up # <<>>
    BY <1>12, FrameTyped DEF HandleInitial, Frame
  <2>2. SocketNext(told \cup {Head(up).round})
    BY <1>12, <1>s, <1>u, <2>1 DEF HandleInitial, SocketNext
  <2>3. PollNext(told \cup {Head(up).round})
    BY <1>12, <1>kp DEF HandleInitial
  <2> QED
    BY <1>12, <1>w, <1>kc, <2>1, <2>2, <2>3 DEF HandleInitial
<1>13. CASE HandleAsk
  <2> DEFINE i == Woken(inner, att)
             r == Head(up).round
  <2>1. up # <<>> /\ r \in told /\ i \in Session
    BY <1>13, <1>u, <1>w DEF HandleAsk, Frame
  <2>2. /\ rounds' = Advance(Stored(i), r)
        /\ \/ ghost' = [ghost EXCEPT !.minted = @ + 1]
           \/ /\ ghost' = [ghost EXCEPT !.unknown = @ \cup {r}, !.ended = TRUE]
              /\ ~Known(Stored(i), r)
    BY <1>13 DEF HandleAsk
  <2>3. /\ ghost'.remembered = ghost.remembered
        /\ \/ ghost'.unknown = ghost.unknown
           \/ ghost'.unknown = ghost.unknown \cup {r} /\ ~Known(Stored(i), r)
    BY <1>0, <2>2 DEF Happened
  <2>4. /\ up' = Tail(up) \/ up' = <<>>
        /\ \A f \in down' : f.k = "response" => f \in down
    BY <1>13 DEF HandleAsk, SocketEnds
  <2>5. PollNext(told)
    BY <1>13, <1>kp DEF HandleAsk
  <2>6. SocketNext(told)
    BY <1>13, <1>s, <1>u, <2>1, <2>4 DEF HandleAsk, SocketNext
  <2> HIDE DEF i, r
  <2> QED
    BY <1>kb, <2>1, <2>2, <2>3, <2>5, <2>6
<1>14. CASE HandleAttach \/ HandleEvent \/ HandleBye \/ WebsocketClose
  <2>1. /\ rounds' = rounds /\ UNCHANGED <<queue, worker, client>>
        /\ ghost'.remembered = ghost.remembered /\ ghost'.unknown = ghost.unknown
    BY <1>0, <1>14 DEF HandleAttach, HandleEvent, HandleBye, WebsocketClose, Happened
  <2>2. /\ (up # <<>> /\ up' = Tail(up)) \/ up' = <<>>
        /\ \A f \in down' : f.k = "response" => f \in down
    BY <1>14 DEF HandleAttach, HandleEvent, HandleBye, WebsocketClose, SocketEnds, Frame
  <2>3. PollNext(told)
    BY <1>kp, <2>1
  <2>4. SocketNext(told)
    BY <1>s, <1>u, <2>1, <2>2 DEF SocketNext
  <2> QED
    BY <1>ka, <2>1, <2>3, <2>4
<1>15. CASE \/ \E p \in posts : HubEvent(p) \/ HubUnregister(p) \/ PostLost(p)
            \/ Sweep \/ (\E h \in Counters : HttpCall(h))
            \/ \E n \in DOMAIN calls : SessionTake(n) \/ SessionKept(n)
            \/ UNCHANGED vars
  <2>1. rounds' = rounds /\ UNCHANGED <<queue, worker, client, up, down, ghost>>
    BY <1>15 DEF HubEvent, HubUnregister, PostLost, Sweep, HttpCall, SessionTake, SessionKept, vars
  <2> QED
    BY <1>kp, <1>ks, <1>ka, <2>1
<1> QED
  BY <1>1, <1>2, <1>3, <1>4, <1>5, <1>6, <1>7, <1>8, <1>9, <1>10, <1>11, <1>12, <1>13, <1>14,
     <1>15 DEF Next

\* So what the client was told is always remembered.
LEMMA RecalledHolds == Spec => []Recalled
<1>1. Init => Recalled
  <2> SUFFICES ASSUME Init PROVE Recalled
    OBVIOUS
  <2>1. /\ ghost.remembered = <<>> /\ ghost.unknown = {} /\ rounds.list = <<>> /\ queue = <<>>
        /\ worker.read = <<>> /\ worker.get = <<>> /\ worker.post = "idle" /\ client.heard = {}
        /\ up = <<>> /\ down = {}
    BY DEF Init, NoRounds
  <2>2. Range(<<>>) = {} /\ Len(<<>>) = 0 /\ DOMAIN <<>> = {}
    BY DEF Range
  <2>3. ListKept(rounds, ghost.remembered)
    BY <2>1, <2>2, Bounds DEF ListKept
  <2> QED
    BY <2>1, <2>2, <2>3 DEF Recalled, PollTold, SocketTold, GeneralIsKnown
<1>2. TypeOK /\ Recalled /\ [Next]_vars => Recalled'
  BY RecalledStep
<1> QED
  BY <1>1, <1>2, TypeCorrect, PTL DEF Spec

\* The hand-off before the answer, the rounds in the object's storage, and the
\* selection by a General's nonce: a General under any round the client was
\* answered in, by whichever transport, is known to the object, through every
\* eviction; unless RoundCap later rounds were completed.
THEOREM GeneralsAreKnown == Spec => []GeneralIsKnown
<1>1. Recalled => GeneralIsKnown
  BY DEF Recalled
<1> QED
  BY <1>1, RecalledHolds, PTL

-----------------------------------------------------------------------------
(* The lane both ends hold *)

\* Rounds are numbered from one as the client begins them; it attaches only
\* before the first, and asks only under one it was answered in.
Begun ==
    /\ Range(ghost.remembered) \subseteq 1 .. client.asked
    /\ \A k \in DOMAIN up : up[k].k = "initial" => up[k].round \in 1 .. client.asked
    /\ worker.post = "hand off" => worker.round \in 1 .. client.asked
    /\ client.attach = "sent" => client.asked = 0
    /\ client.asked = 0 => client.ask = 0

\* What is under way to the object, when a frame is put there ...
LEMMA UpAppend ==
    ASSUME up \in Seq(UpFrame), NEW f, up' = Append(up, f)
    PROVE  /\ Len(up) + 1 \in DOMAIN up' /\ up'[Len(up) + 1] = f
           /\ \A k \in DOMAIN up' : IF k = Len(up) + 1 THEN up'[k] = f
                                    ELSE k \in DOMAIN up /\ k < Len(up) + 1 /\ up'[k] = up[k]
           /\ \A k \in DOMAIN up : k \in DOMAIN up' /\ up'[k] = up[k] /\ k < Len(up) + 1
<1>1. Len(up) \in Nat /\ DOMAIN up = 1 .. Len(up)
  OBVIOUS
<1>2. /\ DOMAIN Append(up, f) = 1 .. Len(up) + 1 /\ Append(up, f)[Len(up) + 1] = f
      /\ \A k \in 1 .. Len(up) : Append(up, f)[k] = up[k]
  OBVIOUS
<1> QED
  BY <1>1, <1>2

\* ... and when the first one is taken.
LEMMA UpTail ==
    ASSUME up \in Seq(UpFrame), up # <<>>, up' = Tail(up)
    PROVE  /\ 1 \in DOMAIN up /\ Head(up) = up[1]
           /\ \A k \in DOMAIN up' : k \in Nat /\ k + 1 \in DOMAIN up /\ up'[k] = up[k + 1]
           /\ \A k \in DOMAIN up : k \in Nat /\ (k = 1 \/ (k > 1 /\ k - 1 \in DOMAIN up' /\ up'[k - 1] = up[k]))
<1>1. Len(up) \in Nat /\ DOMAIN up = 1 .. Len(up) /\ Len(up) # 0
  OBVIOUS
<1>2. /\ DOMAIN Tail(up) = 1 .. Len(up) - 1 /\ Head(up) = up[1]
      /\ \A k \in 1 .. Len(up) - 1 : Tail(up)[k] = up[k + 1]
  BY <1>1
<1>3. \A k \in DOMAIN up : k \in Nat /\ (k = 1 \/ (k > 1 /\ k - 1 \in 1 .. Len(up) - 1 /\ (k - 1) + 1 = k))
  BY <1>1
<1>4. \A k \in 1 .. Len(up) - 1 : k \in Nat /\ k + 1 \in DOMAIN up
  BY <1>1
<1>5. \A k \in DOMAIN up : k - 1 \in 1 .. Len(up) - 1 /\ (k - 1) + 1 = k => Tail(up)[k - 1] = up[k]
  BY <1>2
<1> QED
  BY <1>1, <1>2, <1>3, <1>4, <1>5

\* Nothing is put there.
UpShrinks == \A k \in DOMAIN up' : \E j \in DOMAIN up : up'[k] = up[j]

\* The frames stay, the first one is taken, or the socket ends.
LEMMA UpFewer ==
    ASSUME up \in Seq(UpFrame), up' = up \/ up' = <<>> \/ (up # <<>> /\ up' = Tail(up))
    PROVE  UpShrinks
<1>1. CASE up' = up
  BY <1>1 DEF UpShrinks
<1>2. CASE up' = <<>>
  <2>1. DOMAIN up' = {}
    BY <1>2
  <2> QED
    BY <2>1 DEF UpShrinks
<1>3. CASE up # <<>> /\ up' = Tail(up)
  BY <1>3, UpTail DEF UpShrinks
<1> QED
  BY <1>1, <1>2, <1>3

\* A step that begins no round and remembers none.
LEMMA BegunSame ==
    ASSUME TypeOK, Begun, ghost'.remembered = ghost.remembered,
           client'.asked = client.asked, client'.ask = client.ask,
           client'.attach \in {client.attach, "over"},
           worker'.post = "hand off" => worker.post = "hand off" /\ worker'.round = worker.round,
           \A k \in DOMAIN up' : up'[k].k = "initial" => \E j \in DOMAIN up : up'[k] = up[j]
    PROVE  Begun'
<1>1. \A k \in DOMAIN up' : up'[k].k = "initial" => up'[k].round \in 1 .. client'.asked
  BY DEF Begun
<1>2. Range(ghost'.remembered) \subseteq 1 .. client'.asked
  BY DEF Begun
<1>3. worker'.post = "hand off" => worker'.round \in 1 .. client'.asked
  BY DEF Begun
<1> QED
  BY <1>1, <1>2, <1>3 DEF Begun

\* The parts of the client, the worker and what happened that a step keeps.
LEMMA KeptParts ==
    ASSUME TypeOK
    PROVE  /\ ghost.remembered \in Seq(Rounds) /\ ghost.minted \in Nat /\ ghost.minted \in LaneIds
           /\ ghost.ended \in BOOLEAN
           /\ client.asked \in Nat /\ client.ask \in Nat /\ client.heard \subseteq Rounds
           /\ client.askRound \in Rounds /\ client.lane \in LaneIds /\ worker.round \in Rounds
           /\ up \in Seq(UpFrame) /\ down \subseteq DownFrame /\ inner \in Session /\ att \in Session
           /\ rounds \in RoundsKept
<1>1. ghost \in Happened /\ client \in Client /\ worker \in Worker
  BY DEF TypeOK
<1>2. ghost.remembered \in Seq(Rounds) /\ ghost.minted \in LaneIds /\ ghost.ended \in BOOLEAN
  BY <1>1 DEF Happened
<1>3. /\ client.asked \in Rounds /\ client.ask \in Nat /\ client.heard \subseteq Rounds
      /\ client.askRound \in Rounds /\ client.lane \in LaneIds
  BY <1>1 DEF Client
<1>4. worker.round \in Rounds
  BY <1>1 DEF Worker
<1>5. LaneIds \subseteq Nat /\ Rounds \subseteq Nat
  BY Bounds DEF LaneIds, Rounds, None
<1> QED
  BY <1>2, <1>3, <1>4, <1>5 DEF TypeOK

\* Every step keeps it.
LEMMA BegunStep ==
    ASSUME TypeOK, Recalled, Begun, ~att.on /\ ~ghost.ended => client.attach # "sent", [Next]_vars
    PROVE  Begun'
<1> USE DEF session, polling, hubs, clientVars
<1>0. ghost \in Happened /\ worker \in Worker /\ client \in Client /\ up \in Seq(UpFrame)
  BY DEF TypeOK
<1>a. client.asked \in Nat
  BY KeptParts
<1>h. client.heard \subseteq 1 .. client.asked
  BY DEF Recalled, SocketTold, Begun
<1>g. ASSUME NEW r \in 1 .. client.asked, ghost' = [ghost EXCEPT !.remembered = Append(@, r)]
      PROVE  Range(ghost'.remembered) \subseteq 1 .. client.asked
  <2>1. ghost'.remembered = Append(ghost.remembered, r) /\ ghost.remembered \in Seq(Nat)
    BY <1>0, <1>g, Bounds DEF Happened, Rounds, None
  <2>2. Range(ghost'.remembered) = Range(ghost.remembered) \cup {r}
    BY <2>1, AppendRange
  <2> QED
    BY <2>2 DEF Begun
<1>1. CASE PollInitial
  <2>1. /\ client'.asked = client.asked + 1 /\ client'.ask = client.ask
        /\ client'.attach = client.attach /\ ghost' = ghost /\ up' = up
        /\ worker'.round = client.asked + 1
    BY <1>0, <1>1 DEF PollInitial, Client, Worker
  <2>2. client.attach # "sent"
    BY <1>1 DEF PollInitial
  <2>3. 1 .. client.asked \subseteq 1 .. client.asked + 1 /\ client.asked + 1 \in 1 .. client.asked + 1
        /\ client.asked + 1 # 0
    BY <1>a
  <2> QED
    BY <2>1, <2>2, <2>3 DEF Begun
<1>2. CASE SendInitial
  <2>1. /\ client'.asked = client.asked + 1 /\ client'.ask = client.ask
        /\ client'.attach = client.attach /\ client.attach # "sent" /\ ghost' = ghost
        /\ worker' = worker
    BY <1>0, <1>2 DEF SendInitial, Client
  <2>2. PICK f : up' = Append(up, f) /\ f.round = client.asked + 1
    BY <1>2 DEF SendInitial, Sends
  <2>3. 1 .. client.asked \subseteq 1 .. client.asked + 1 /\ client.asked + 1 \in 1 .. client.asked + 1
        /\ client.asked + 1 # 0
    BY <1>a
  <2>4. \A k \in DOMAIN up' : (k \in DOMAIN up /\ up'[k] = up[k]) \/ up'[k] = f
    BY <1>0, <2>2, UpAppend
  <2>5. \A k \in DOMAIN up' : up'[k].k = "initial" => up'[k].round \in 1 .. client.asked + 1
    BY <2>2, <2>3, <2>4 DEF Begun
  <2> QED
    BY <2>1, <2>3, <2>5 DEF Begun
<1>3. CASE HandOff
  <2>1. client' = client /\ up' = up
    BY <1>3 DEF HandOff
  <2>2. CASE ghost' = ghost /\ worker' = MarkedClosed
    BY <1>0, <2>1, <2>2, UpFewer, BegunSame DEF UpShrinks, Worker, MarkedClosed
  <2>3. CASE /\ ghost' = [ghost EXCEPT !.remembered = Append(@, worker.round)]
             /\ worker' \in {[worker EXCEPT !.post = "append"], MarkedClosed}
    <3>1. worker.round \in 1 .. client.asked /\ worker'.post \in {"append", "idle"}
      BY <1>0, <1>3, <2>3 DEF HandOff, Begun, Worker, MarkedClosed
    <3>2. Range(ghost'.remembered) \subseteq 1 .. client.asked
      BY <1>g, <2>3, <3>1
    <3> QED
      BY <2>1, <3>1, <3>2 DEF Begun
  <2> QED
    BY <1>3, <2>2, <2>3 DEF HandOff
<1>4. CASE HandleInitial
  <2>1. /\ up # <<>> /\ Head(up).k = "initial" /\ client' = client /\ up' = Tail(up)
        /\ worker' = worker /\ ghost' = [ghost EXCEPT !.remembered = Append(@, Head(up).round)]
    BY <1>4 DEF HandleInitial, Frame
  <2>2. Head(up).round \in 1 .. client.asked
    BY <1>0, <2>1, UpTail DEF Begun
  <2>3. Range(ghost'.remembered) \subseteq 1 .. client.asked
    <3>1. PICK r \in 1 .. client.asked : r = Head(up).round
      BY <2>2
    <3>2. ghost' = [ghost EXCEPT !.remembered = Append(@, r)]
      BY <2>1, <3>1
    <3> QED
      BY <1>g, <3>2
  <2>4. \A k \in DOMAIN up' : up'[k].k = "initial" => up'[k].round \in 1 .. client.asked
    BY <1>0, <2>1, UpTail DEF Begun
  <2> QED
    BY <2>1, <2>3, <2>4 DEF Begun
<1>5. CASE SendAsk
  <2>1. PICK r \in client.heard :
          /\ client' = [client EXCEPT !.ask = @ + 1, !.askRound = r]
          /\ up' = Append(up, [k |-> "ask", round |-> r, ask |-> client.ask + 1])
          /\ ghost' = ghost /\ worker' = worker
    BY <1>5 DEF SendAsk, Sends
  <2>2. client'.asked = client.asked /\ client'.attach = client.attach /\ client.asked # 0
    BY <1>0, <1>a, <1>h, <2>1 DEF Client
  <2>3. \A k \in DOMAIN up' : up'[k].k = "initial" => up'[k].round \in 1 .. client.asked
    <3>1. PICK f : up' = Append(up, f) /\ f.k = "ask"
      BY <2>1
    <3>2. \A k \in DOMAIN up' : (k \in DOMAIN up /\ up'[k] = up[k]) \/ up'[k] = f
      BY <1>0, <3>1, UpAppend
    <3> QED
      BY <3>1, <3>2 DEF Begun
  <2> QED
    BY <2>1, <2>2, <2>3 DEF Begun
<1>6. CASE SendAttach
  <2>1. /\ client'.asked = client.asked /\ client'.ask = client.ask /\ client.asked = 0
        /\ ghost' = ghost /\ worker' = worker
    BY <1>0, <1>6 DEF SendAttach, Client
  <2>2. PICK f : up' = Append(up, f) /\ f.k = "attach"
    BY <1>6 DEF SendAttach, Sends
  <2>3. \A k \in DOMAIN up' : up'[k].k = "initial" => up'[k].round \in 1 .. client.asked
    <3>1. \A k \in DOMAIN up' : (k \in DOMAIN up /\ up'[k] = up[k]) \/ up'[k] = f
      BY <1>0, <2>2, UpAppend
    <3> QED
      BY <2>2, <3>1 DEF Begun
  <2> QED
    BY <2>1, <2>3 DEF Begun
<1>7. CASE AppendReads \/ AppendWrites \/ DrainReads
  BY <1>0, <1>7, UpFewer, BegunSame DEF UpShrinks, AppendReads, AppendWrites, DrainReads, Worker
<1>8. CASE DrainWrites
  BY <1>0, <1>8, UpFewer, BegunSame DEF UpShrinks, DrainWrites, Worker, Client
<1>9. CASE PollGeneral
  <2>1. ghost'.remembered = ghost.remembered
    BY <1>0, <1>9 DEF PollGeneral, Happened
  <2>2. worker'.post = "hand off" => worker.post = "hand off" /\ worker'.round = worker.round
    BY <1>0, <1>9 DEF PollGeneral, Worker, MarkedClosed
  <2> QED
    BY <1>9, <2>1, <2>2, UpFewer, BegunSame DEF UpShrinks, PollGeneral
<1>10. CASE Upgrade \/ Evict \/ AttachTimesOut
  BY <1>0, <1>10, UpFewer, BegunSame DEF UpShrinks, Upgrade, Evict, AttachTimesOut, Client
<1>11. CASE SendEvent \/ SendBye
  <2>1. \E f : up' = Append(up, f) /\ f.k # "initial"
    <3>1. CASE SendBye
      BY <3>1 DEF SendBye, Sends
    <3>2. CASE SendEvent
      <4>1. PICK n : up' = Append(up, [k |-> "event", lane |-> client.lane, n |-> n])
        BY <3>2 DEF SendEvent, Sends
      <4> QED
        BY <4>1
    <3> QED
      BY <1>11, <3>1, <3>2
  <2>2. /\ client'.asked = client.asked /\ client'.ask = client.ask
        /\ client'.attach = client.attach
    BY <1>0, <1>11 DEF SendEvent, SendBye, Client
  <2> QED
    <3>1. \A k \in DOMAIN up' : up'[k].k = "initial" => \E j \in DOMAIN up : up'[k] = up[j]
      BY <1>0, <2>1, UpAppend
    <3> QED
      BY <1>11, <2>2, <3>1, BegunSame DEF SendEvent, SendBye
<1>12. CASE \E f \in down : Hears(f)
  <2>1. /\ client'.asked = client.asked /\ client'.ask = client.ask
        /\ client'.attach \in {client.attach, "over"}
    BY <1>0, <1>12 DEF Hears, Client
  <2> QED
    BY <1>12, <2>1, UpFewer, BegunSame DEF UpShrinks, Hears
<1>13. CASE HandleAsk
  <2>1. up # <<>> /\ (up' = <<>> \/ up' = Tail(up)) /\ client' = client /\ worker' = worker
    BY <1>13 DEF HandleAsk, Frame, SocketEnds
  <2>2. ghost'.remembered = ghost.remembered
    BY <1>0, <1>13 DEF HandleAsk, Happened
  <2> QED
    BY <1>0, <2>1, <2>2, UpFewer, BegunSame DEF UpShrinks
<1>14. CASE HandleAttach \/ HandleEvent \/ HandleBye
  <2>1. up # <<>> /\ up' = Tail(up) /\ client' = client /\ worker' = worker
    BY <1>14 DEF HandleAttach, HandleEvent, HandleBye, Frame
  <2>2. ghost'.remembered = ghost.remembered
    BY <1>0, <1>14 DEF HandleAttach, HandleEvent, HandleBye, Happened
  <2> QED
    BY <1>0, <2>1, <2>2, UpFewer, BegunSame DEF UpShrinks
<1>15. CASE AttachAnswered \/ WebsocketClose \/ Broadcast
            \/ \E w \in waits : ForwardAnswered(w)
  <2>1. (up' = up \/ up' = <<>>) /\ client' = client /\ worker' = worker
    BY <1>15 DEF AttachAnswered, WebsocketClose, Broadcast, ForwardAnswered, SocketEnds
  <2>2. ghost'.remembered = ghost.remembered
    BY <1>0, <1>15 DEF AttachAnswered, WebsocketClose, Broadcast, ForwardAnswered, Emit, Happened
  <2> QED
    BY <1>0, <2>1, <2>2, UpFewer, BegunSame DEF UpShrinks
<1>16. CASE \/ \E w \in waits : ForwardRetries(w) \/ ForwardGivesUp(w)
            \/ \E p \in posts : HubEvent(p) \/ HubUnregister(p) \/ PostLost(p)
            \/ Sweep \/ (\E h \in Counters : HttpCall(h)) \/ Tick
            \/ (\E n \in DOMAIN calls : SessionTake(n) \/ SessionKept(n))
            \/ UNCHANGED vars
  <2>1. UNCHANGED <<up, client, worker, ghost>>
    BY <1>16 DEF ForwardRetries, ForwardGivesUp, HubEvent, HubUnregister, PostLost, Sweep,
                 HttpCall, Tick, SessionTake, SessionKept, vars
  <2> QED
    BY <2>1, UpFewer, BegunSame DEF UpShrinks
<1> QED
  BY <1>1, <1>2, <1>3, <1>4, <1>5, <1>6, <1>7, <1>8, <1>9, <1>10, <1>11, <1>12, <1>13, <1>14,
     <1>15, <1>16 DEF Next

NoAsk == \A k \in DOMAIN up : up[k].k # "ask"

\* Asks reach the object in the order they were sent: the last one is under
\* way, or its offer is of the lane minted last.
AsksOrdered ==
    /\ \A k \in DOMAIN up : up[k].k = "ask" =>
          /\ up[k].ask \in 1 .. client.ask
          /\ up[k].ask = client.ask => up[k].round = client.askRound
          /\ \A j \in DOMAIN up : up[j].k = "ask" /\ j < k => up[j].ask < up[k].ask
          /\ \A f \in down : f.k = "offer" => f.ask < up[k].ask
    /\ NoAsk \/ \E k \in DOMAIN up : up[k].k = "ask" /\ up[k].ask = client.ask
    /\ \A f \in down : f.k = "offer" =>
          f.ask \in 1 .. client.ask /\ (f.ask = client.ask => f.lane = ghost.minted)

\* The nonces of the lane minted last, once every ask was handled.
OwnRound == IF client.ask = 0 THEN Attached ELSE client.askRound

\* Memory and attachment each hold the lane minted last, or none.
Owned(x) ==
    /\ ghost.minted # 0 => x.auth # None
    /\ x.lane.id # 0 => x.lane.id = ghost.minted /\ (NoAsk => x.lane.round = OwnRound)

\* Before its one socket the session has no lane; on it the client has the lane
\* minted last, or the offer of it is under way.
LaneOwned ==
    /\ att.on => ~ghost.ended
    /\ ~att.on => up = <<>> /\ down = {}
    /\ ~att.on /\ ~ghost.ended =>
          /\ ghost.minted = 0 /\ client.ask = 0 /\ client.lane = 0 /\ client.attach # "sent"
          /\ inner.lane.id = 0 /\ AttachWait \notin waits
    /\ AttachWait \in waits => inner.on
    /\ att.on => Owned(att) /\ (inner.on => Owned(inner))
    /\ att.on /\ NoAsk /\ client.ask # 0 => ghost.minted # 0
    /\ client.ask = 0 => \A f \in down : f.k = "attached" => f.lane = ghost.minted
    /\ att.on /\ NoAsk /\ client.lane # 0 =>
          \/ client.lane = ghost.minted /\ client.laneRound = OwnRound
          \/ \E f \in down : f.k = "offer" /\ f.ask = client.ask

Owning == Begun /\ AsksOrdered /\ LaneOwned

\* What the session becomes holds the lane it held, or none, and stays verified.
Follows(x, y) ==
    /\ x.lane.id \in {0, y.lane.id}
    /\ x.lane.id # 0 => x.lane.round = y.lane.round
    /\ y.auth # None => x.auth # None

\* The asks under way stay as they are: the frames stay, one that is no ask is
\* taken, or one is added.
AsksStay ==
    \/ up' = up
    \/ up # <<>> /\ up' = Tail(up) /\ Head(up).k # "ask"
    \/ \E f : up' = Append(up, f) /\ f.k # "ask"

\* Then they come in the same order.
LEMMA AsksSame ==
    ASSUME TypeOK, AsksStay
    PROVE  \E g \in [DOMAIN up' -> Int] :
              /\ \A k \in DOMAIN up' : up'[k].k = "ask" => g[k] \in DOMAIN up /\ up'[k] = up[g[k]]
              /\ \A k \in DOMAIN up : up[k].k = "ask" => \E j \in DOMAIN up' : g[j] = k /\ up'[j] = up[k]
              /\ \A j, k \in DOMAIN up' : j < k => g[j] < g[k]
<1>0. up \in Seq(UpFrame)
  BY DEF TypeOK
<1>1. CASE up' = up
  <2> DEFINE g == [k \in DOMAIN up' |-> k]
  <2>1. DOMAIN up \subseteq Int
    BY <1>0
  <2>2. g \in [DOMAIN up' -> Int]
    BY <1>1, <2>1
  <2> QED
    BY <1>1, <2>2
<1>2. CASE up # <<>> /\ up' = Tail(up) /\ Head(up).k # "ask"
  <2> DEFINE g == [k \in DOMAIN up' |-> k + 1]
  <2>1. /\ 1 \in DOMAIN up /\ Head(up) = up[1]
        /\ \A k \in DOMAIN up' : k \in Nat /\ k + 1 \in DOMAIN up /\ up'[k] = up[k + 1]
        /\ \A k \in DOMAIN up : k \in Nat /\ (k = 1 \/ (k > 1 /\ k - 1 \in DOMAIN up' /\ up'[k - 1] = up[k]))
    BY <1>0, <1>2, UpTail
  <2>2. g \in [DOMAIN up' -> Int]
    BY <2>1
  <2>3. \A k \in DOMAIN up' : g[k] = k + 1
    OBVIOUS
  <2> HIDE DEF g
  <2>4. \A k \in DOMAIN up : up[k].k = "ask" => \E j \in DOMAIN up' : g[j] = k /\ up'[j] = up[k]
    <3> SUFFICES ASSUME NEW k \in DOMAIN up, up[k].k = "ask"
                 PROVE  g[k - 1] = k /\ k - 1 \in DOMAIN up' /\ up'[k - 1] = up[k]
      OBVIOUS
    <3>1. k \in Nat /\ k - 1 \in DOMAIN up' /\ up'[k - 1] = up[k]
      BY <1>2, <2>1
    <3> QED
      BY <2>3, <3>1
  <2>5. \A j, k \in DOMAIN up' : j < k => g[j] < g[k]
    BY <2>1, <2>3
  <2> QED
    BY <2>1, <2>2, <2>3, <2>4, <2>5
<1>3. CASE \E f : up' = Append(up, f) /\ f.k # "ask"
  <2> DEFINE g == [k \in DOMAIN up' |-> k]
  <2>1. PICK f : up' = Append(up, f) /\ f.k # "ask"
    BY <1>3
  <2>2. /\ \A k \in DOMAIN up' : IF k = Len(up) + 1 THEN up'[k] = f
                                 ELSE k \in DOMAIN up /\ k < Len(up) + 1 /\ up'[k] = up[k]
        /\ \A k \in DOMAIN up : k \in DOMAIN up' /\ up'[k] = up[k] /\ k < Len(up) + 1
    BY <1>0, <2>1, UpAppend
  <2>3. Len(up) \in Nat /\ DOMAIN up = 1 .. Len(up)
    BY <1>0
  <2>4. g \in [DOMAIN up' -> Int]
    BY <2>2, <2>3
  <2>5. \A k \in DOMAIN up' : up'[k].k = "ask" => g[k] \in DOMAIN up /\ up'[k] = up[g[k]]
    BY <2>1, <2>2
  <2>6. \A k \in DOMAIN up : up[k].k = "ask" => \E j \in DOMAIN up' : g[j] = k /\ up'[j] = up[k]
    BY <2>2
  <2> QED
    BY <2>4, <2>5, <2>6
<1> QED
  BY <1>1, <1>2, <1>3 DEF AsksStay

\* A step that asks, offers, attaches and mints nothing.
LEMMA OwningKept ==
    ASSUME TypeOK, Owning,
           ghost'.minted = ghost.minted, ghost'.ended = ghost.ended,
           client'.ask = client.ask, client'.askRound = client.askRound,
           client'.lane = client.lane, client'.laneRound = client.laneRound,
           client'.attach = "sent" => client.attach = "sent" \/ att.on,
           att'.on = att.on, AsksStay, ~att.on => up' = up /\ down' = down,
           \A f : f.k = "offer" => (f \in down' <=> f \in down),
           \A f \in down' : f.k = "attached" => f \in down,
           att.on => /\ Follows(att', att) \/ (inner.on /\ Follows(att', inner))
                     /\ inner'.on => Follows(inner', att) \/ (inner.on /\ Follows(inner', inner)),
           ~att.on /\ ~ghost.ended => inner'.lane.id = 0,
           AttachWait \in waits' => inner'.on /\ (AttachWait \in waits \/ att.on)
    PROVE  AsksOrdered' /\ LaneOwned'
<1>1. PICK g \in [DOMAIN up' -> Int] :
              /\ \A k \in DOMAIN up' : up'[k].k = "ask" => g[k] \in DOMAIN up /\ up'[k] = up[g[k]]
              /\ \A k \in DOMAIN up : up[k].k = "ask" => \E j \in DOMAIN up' : g[j] = k /\ up'[j] = up[k]
              /\ \A j, k \in DOMAIN up' : j < k => g[j] < g[k]
  BY AsksSame
<1>2. NoAsk' <=> NoAsk
  BY <1>1 DEF NoAsk
<1>3. AsksOrdered'
  <2>1. ASSUME NEW k \in DOMAIN up', up'[k].k = "ask"
        PROVE  /\ up'[k].ask \in 1 .. client'.ask
               /\ up'[k].ask = client'.ask => up'[k].round = client'.askRound
               /\ \A j \in DOMAIN up' : up'[j].k = "ask" /\ j < k => up'[j].ask < up'[k].ask
               /\ \A f \in down' : f.k = "offer" => f.ask < up'[k].ask
    <3>1. g[k] \in DOMAIN up /\ up'[k] = up[g[k]] /\ up[g[k]].k = "ask"
      BY <1>1, <2>1
    <3>2. /\ up'[k].ask \in 1 .. client'.ask
          /\ up'[k].ask = client'.ask => up'[k].round = client'.askRound
          /\ \A f \in down' : f.k = "offer" => f.ask < up'[k].ask
      BY <3>1 DEF Owning, AsksOrdered
    <3>3. ASSUME NEW j \in DOMAIN up', up'[j].k = "ask", j < k PROVE up'[j].ask < up'[k].ask
      <4>1. g[j] \in DOMAIN up /\ up'[j] = up[g[j]] /\ g[j] < g[k]
        BY <1>1, <3>3
      <4> QED
        BY <3>1, <3>3, <4>1 DEF Owning, AsksOrdered
    <3> QED
      BY <3>2, <3>3
  <2>2. NoAsk' \/ \E k \in DOMAIN up' : up'[k].k = "ask" /\ up'[k].ask = client'.ask
    <3>1. CASE NoAsk
      BY <1>2, <3>1
    <3>2. CASE ~NoAsk
      <4>1. PICK k \in DOMAIN up : up[k].k = "ask" /\ up[k].ask = client.ask
        BY <3>2 DEF Owning, AsksOrdered
      <4> QED
        BY <1>1, <4>1
    <3> QED
      BY <3>1, <3>2
  <2>3. \A f \in down' : f.k = "offer" =>
            f.ask \in 1 .. client'.ask /\ (f.ask = client'.ask => f.lane = ghost'.minted)
    BY DEF Owning, AsksOrdered
  <2> QED
    BY <2>1, <2>2, <2>3 DEF AsksOrdered
<1>4. OwnRound' = OwnRound
  BY DEF OwnRound
<1>5. att'.on => Owned(att)' /\ (inner'.on => Owned(inner)')
  BY <1>2, <1>4 DEF Owning, LaneOwned, Owned, Follows
<1>6. att'.on /\ NoAsk' /\ client'.lane # 0 =>
          \/ client'.lane = ghost'.minted /\ client'.laneRound = OwnRound'
          \/ \E f \in down' : f.k = "offer" /\ f.ask = client'.ask
  BY <1>2, <1>4 DEF Owning, LaneOwned
<1>7. client'.ask = 0 => \A f \in down' : f.k = "attached" => f.lane = ghost'.minted
  BY DEF Owning, LaneOwned
<1>8. ~att'.on => up' = <<>> /\ down' = {}
  BY DEF Owning, LaneOwned
<1>9. ~att'.on /\ ~ghost'.ended =>
          /\ ghost'.minted = 0 /\ client'.ask = 0 /\ client'.lane = 0 /\ client'.attach # "sent"
          /\ inner'.lane.id = 0 /\ AttachWait \notin waits'
  BY DEF Owning, LaneOwned
<1>10. /\ att'.on => ~ghost'.ended
       /\ AttachWait \in waits' => inner'.on
       /\ att'.on /\ NoAsk' /\ client'.ask # 0 => ghost'.minted # 0
  BY <1>2 DEF Owning, LaneOwned
<1> QED
  BY <1>3, <1>5, <1>6, <1>7, <1>8, <1>9, <1>10 DEF LaneOwned, AttachWait

\* What a session's own changes leave of its lane and its verification.
LEMMA FollowsSame ==
    ASSUME TypeOK, NEW x \in Session
    PROVE  /\ Follows(x, x) /\ \A l \in Lane : l.id = x.lane.id /\ l.round = x.lane.round
                                   => Follows([x EXCEPT !.lane = l], x)
           /\ Follows([x EXCEPT !.lane = NoLane], x) /\ Follows([x EXCEPT !.tried = TRUE], x)
           /\ \A r \in RoundsKept : r.current # None => Follows(Authenticated(x, r), x)
<1>1. x.lane \in Lane /\ NoLane \in Lane /\ NoLane.id = 0
  BY LaneTyped DEF Session, NoLane
<1>2. ASSUME NEW l \in Lane PROVE [x EXCEPT !.lane = l].lane = l /\ [x EXCEPT !.lane = l].auth = x.auth
  BY DEF Session
<1>3. [x EXCEPT !.tried = TRUE].lane = x.lane /\ [x EXCEPT !.tried = TRUE].auth = x.auth
  BY DEF Session
<1>4. ASSUME NEW r \in RoundsKept
      PROVE  Authenticated(x, r).lane = x.lane /\ Authenticated(x, r).auth = r.current
  BY DEF Authenticated, Session
<1> QED
  BY <1>1, <1>2, <1>3, <1>4 DEF Follows

\* A round remembered leaves one selected; a General selects a round it knows.
LEMMA Selects ==
    ASSUME TypeOK, NEW i \in Session, NEW r \in Rounds, r # None
    PROVE  /\ Remember(Stored(i), r) \in RoundsKept /\ Remember(Stored(i), r).current # None
           /\ Advance(Stored(i), r) \in RoundsKept
           /\ Known(Stored(i), r) => Advance(Stored(i), r).current = r
<1>1. Stored(i) \in RoundsKept /\ r \in AuthStates
  BY SessionsTyped, Bounds DEF TypeOK
<1>2. Remember(Stored(i), r) \in RoundsKept /\ Advance(Stored(i), r) \in RoundsKept
  BY <1>1, RoundsTyped
<1>3. Remember(Stored(i), r).current # None
  BY <1>1 DEF Remember
<1>4. Known(Stored(i), r) => Advance(Stored(i), r).current = r
  BY <1>1 DEF Advance, RoundsKept
<1> QED
  BY <1>2, <1>3, <1>4

\* Where a handler leaves memory and attachment with the lane it woke up to.
LEMMA StaysOwned ==
    ASSUME TypeOK, Owning, NEW x \in Session, x.on,
           att.on => Follows(x, att) \/ (inner.on /\ Follows(x, inner)),
           ~att.on /\ ~ghost.ended => x.lane.id = 0,
           inner' = x, att' = att \/ att' = (IF att.on THEN x ELSE att)
    PROVE  /\ att'.on = att.on
           /\ att.on => /\ Follows(att', att) \/ (inner.on /\ Follows(att', inner))
                        /\ inner'.on => Follows(inner', att) \/ (inner.on /\ Follows(inner', inner))
           /\ ~att.on /\ ~ghost.ended => inner'.lane.id = 0
<1>1. Follows(att, att) /\ att.on \in BOOLEAN /\ x.on \in BOOLEAN
  BY KeptParts, FollowsSame DEF Session
<1> QED
  BY <1>1

\* Steps of the clock, the hubs, the polling Worker and the client's waits leave
\* the socket alone.
LEMMA OwningStands ==
    ASSUME TypeOK, Owning,
           \/ AppendReads \/ AppendWrites \/ DrainReads \/ DrainWrites \/ PollInitial
           \/ SendInitial \/ SendAttach \/ AttachTimesOut \/ SendEvent \/ SendBye \/ Evict
           \/ \E w \in waits : ForwardRetries(w) \/ ForwardGivesUp(w)
           \/ \E p \in posts : HubEvent(p) \/ HubUnregister(p) \/ PostLost(p)
           \/ Sweep \/ (\E h \in Counters : HttpCall(h)) \/ Tick
           \/ (\E n \in DOMAIN calls : SessionTake(n) \/ SessionKept(n))
           \/ UNCHANGED vars
    PROVE  AsksOrdered' /\ LaneOwned'
<1> USE DEF session, polling, hubs, clientVars
<1>0. client \in Client /\ inner \in Session /\ att \in Session
  BY DEF TypeOK
<1>1. Follows(att, att) /\ Follows(inner, inner)
  BY <1>0, FollowsSame
<1>2. UNCHANGED <<att, ghost, down>>
  BY DEF AppendReads, AppendWrites, DrainReads, DrainWrites, PollInitial, SendInitial, SendAttach,
         AttachTimesOut, SendEvent, SendBye, Evict, ForwardRetries, ForwardGivesUp, HubEvent,
         HubUnregister, PostLost, Sweep, HttpCall, Tick, SessionTake, SessionKept, vars
<1>3. AsksStay /\ (~att.on => up' = up)
  <2>1. CASE up' = up
    BY <2>1 DEF AsksStay
  <2>2. CASE SendInitial \/ SendAttach \/ SendBye
    BY <2>2 DEF SendInitial, SendAttach, SendBye, Sends, AsksStay
  <2>3. CASE SendEvent
    <3>1. PICK n : up' = Append(up, [k |-> "event", lane |-> client.lane, n |-> n])
      BY <2>3 DEF SendEvent, Sends
    <3> QED
      BY <2>3, <3>1 DEF SendEvent, AsksStay
  <2> QED
    BY <2>1, <2>2, <2>3
       DEF AppendReads, AppendWrites, DrainReads, DrainWrites, PollInitial,
         AttachTimesOut, Evict, ForwardRetries, ForwardGivesUp, HubEvent,
         HubUnregister, PostLost, Sweep, HttpCall, Tick, SessionTake, SessionKept, vars
<1>4. /\ client'.ask = client.ask /\ client'.askRound = client.askRound
      /\ client'.lane = client.lane /\ client'.laneRound = client.laneRound
      /\ client'.attach = "sent" => client.attach = "sent" \/ att.on
  <2>1. CASE client' = client
    BY <2>1
  <2>2. CASE DrainWrites \/ PollInitial \/ SendInitial \/ AttachTimesOut \/ SendEvent
    BY <1>0, <2>2 DEF DrainWrites, PollInitial, SendInitial, AttachTimesOut, SendEvent, Client
  <2>3. CASE SendAttach
    BY <1>0, <2>3 DEF SendAttach, Client
  <2> QED
    BY <2>1, <2>2, <2>3
       DEF AppendReads, AppendWrites, DrainReads, SendBye, Evict, ForwardRetries, ForwardGivesUp,
           HubEvent, HubUnregister, PostLost, Sweep, HttpCall, Tick, SessionTake, SessionKept, vars
<1>5. /\ att.on /\ inner'.on => Follows(inner', inner) /\ inner.on
      /\ ~att.on /\ ~ghost.ended => inner'.lane.id = 0
      /\ AttachWait \in waits' => inner'.on /\ AttachWait \in waits
  <2>1. CASE Evict
    BY <2>1 DEF Evict, Absent, Blank, NoLane
  <2>2. CASE inner' = inner /\ (AttachWait \in waits' => AttachWait \in waits)
    BY <1>1, <2>2 DEF Owning, LaneOwned
  <2>3. CASE \E w \in waits : ForwardRetries(w) \/ ForwardGivesUp(w)
    <3>1. PICK w \in waits : ForwardRetries(w) \/ ForwardGivesUp(w)
      BY <2>3
    <3>2. [w EXCEPT !.tries = @ + 1].k = "forward"
      BY <3>1, WaitTyped DEF ForwardRetries, ForwardGivesUp, TypeOK, ForwardWait, AttachWait
    <3>3. inner' = inner /\ (AttachWait \in waits' => AttachWait \in waits)
      BY <3>1, <3>2 DEF ForwardRetries, ForwardGivesUp, AttachWait
    <3> QED
      BY <2>2, <3>3
  <2>4. CASE \E p \in posts : HubEvent(p)
    <3>1. PICK p \in posts : HubEvent(p)
      BY <2>4
    <3>2. ASSUME NEW w \in waits, w.k = "forward" PROVE [w EXCEPT !.answered = TRUE] # AttachWait
      <4>1. w \in ForwardWait
        BY <3>2 DEF TypeOK, AttachWait
      <4>2. [w EXCEPT !.answered = TRUE].k = "forward"
        BY <4>1 DEF ForwardWait
      <4> QED
        BY <4>2 DEF AttachWait
    <3>3. inner' = inner /\ (AttachWait \in waits' => AttachWait \in waits)
      BY <3>1, <3>2 DEF HubEvent
    <3> QED
      BY <2>2, <3>3
  <2> QED
    BY <2>1, <2>2, <2>3, <2>4
       DEF AppendReads, AppendWrites, DrainReads, DrainWrites, PollInitial, SendInitial, SendAttach,
         AttachTimesOut, SendEvent, SendBye, HubUnregister, PostLost, Sweep, HttpCall, Tick,
         SessionTake, SessionKept, vars
<1> QED
  BY <1>1, <1>2, <1>3, <1>4, <1>5, OwningKept

\* Handlers that leave the lane where it is: a handshake, an attach refused or
\* sent on, an event, a delivery, a DISCONNECT, a General over polling.
LEMMA OwningHandled ==
    ASSUME TypeOK, Owning, Counted,
           \/ HandOff \/ PollGeneral \/ HandleInitial \/ HandleAttach \/ HandleEvent \/ HandleBye
           \/ Broadcast \/ \E w \in waits : ForwardAnswered(w)
    PROVE  AsksOrdered' /\ LaneOwned'
<1> USE DEF session, polling, hubs, clientVars
<1>0. /\ ghost \in Happened /\ inner \in Session /\ att \in Session /\ rounds \in RoundsKept
      /\ up \in Seq(UpFrame)
  BY DEF TypeOK
<1> DEFINE i == Woken(inner, att)
<1>1. i \in Session /\ (att.on => i.on) /\ (inner.on => i = inner) /\ (~inner.on => i = att)
  BY <1>0 DEF Woken
<1>2. /\ (att.on => Follows(i, att) \/ (inner.on /\ Follows(i, inner)))
      /\ Follows(att, att) /\ Follows(inner, inner)
  BY <1>0, <1>1, FollowsSame
<1>3. (AttachWait \in waits => inner.on) /\ (~att.on /\ ~ghost.ended => AttachWait \notin waits)
  BY DEF Owning, LaneOwned
\* x is what the handler leaves, of the session y it read.
<1>a. ASSUME NEW x \in Session, x.on, NEW y \in Session, Follows(x, y),
             att.on => y = i, ~att.on /\ ~ghost.ended => y.lane.id = 0,
             inner' = x, att' = att \/ att' = (IF att.on THEN x ELSE att),
             ghost'.minted = ghost.minted, ghost'.ended = ghost.ended, client' = client,
             AsksStay, ~att.on => up' = up /\ down' = down,
             \A f : f.k \in {"offer", "attached"} => (f \in down' <=> f \in down),
             AttachWait \in waits' => AttachWait \in waits \/ att.on
      PROVE  AsksOrdered' /\ LaneOwned'
  <2>1. att.on => Follows(x, att) \/ (inner.on /\ Follows(x, inner))
    BY <1>1, <1>a
  <2>2. ~att.on /\ ~ghost.ended => x.lane.id = 0
    BY <1>a DEF Follows
  <2>3. /\ att'.on = att.on
        /\ att.on => /\ Follows(att', att) \/ (inner.on /\ Follows(att', inner))
                     /\ inner'.on => Follows(inner', att) \/ (inner.on /\ Follows(inner', inner))
        /\ ~att.on /\ ~ghost.ended => inner'.lane.id = 0
    BY <1>a, <2>1, <2>2, StaysOwned
  <2>4. AttachWait \in waits' => inner'.on /\ (AttachWait \in waits \/ att.on)
    BY <1>a
  <2> QED
    BY <1>a, <2>3, <2>4, OwningKept
<1> HIDE DEF i
<1>s. AsksStay \/ up' # up
  BY DEF AsksStay
<1>4. CASE HandOff
  <2> DEFINE j == Woken(Woken(inner, att), Blank)
             r == Remember(Stored(j), worker.round)
  <2>1. j \in Session /\ j.on /\ (att.on => j = i) /\ (~att.on /\ ~ghost.ended => j.lane.id = 0)
    <3>1. j \in Session /\ Blank.on /\ Blank.lane.id = 0
      BY <1>0, SessionsTyped DEF Blank, NoLane
    <3>2. ~att.on /\ ~ghost.ended => inner.lane.id = 0
      BY DEF Owning, LaneOwned
    <3> QED
      BY <1>1, <3>1, <3>2 DEF Woken, i
  <2>2. worker.round \in Rounds /\ worker.round # None
    <3>1. worker.round \in 1 .. client.asked
      BY <1>4 DEF HandOff, Owning, Begun
    <3> QED
      BY <3>1, KeptParts DEF None
  <2>3. CASE UNCHANGED <<inner, att, ghost>>
    <3>1. UNCHANGED <<up, down, client, waits>> /\ AsksStay
      BY <1>4 DEF HandOff, AsksStay
    <3>2. ~att.on /\ ~ghost.ended => inner.lane.id = 0
      BY DEF Owning, LaneOwned
    <3> QED
      BY <1>2, <1>3, <2>3, <3>1, <3>2, OwningKept
  <2>4. CASE ~UNCHANGED <<inner, att, ghost>>
    <3>1. /\ inner' = Authenticated(j, r) /\ Persist(Authenticated(j, r)) /\ waits' = waits
          /\ ghost' = [ghost EXCEPT !.remembered = Append(@, worker.round)]
          /\ UNCHANGED <<up, down, client>>
      BY <1>4, <2>4 DEF HandOff
    <3>2. r \in RoundsKept /\ r.current # None
      BY <2>1, <2>2, Selects
    <3> HIDE DEF j, r
    <3> DEFINE x == Authenticated(j, r)
    <3>3. x \in Session /\ x.on /\ Follows(x, j)
      <4>1. x \in Session /\ Follows(x, j)
        BY <2>1, <3>2, SessionsTyped, FollowsSame
      <4>2. x.on = j.on
        BY <2>1 DEF Authenticated, Session
      <4> QED
        BY <2>1, <4>1, <4>2
    <3>4. ghost'.minted = ghost.minted /\ ghost'.ended = ghost.ended
      BY <1>0, <3>1 DEF Happened
    <3>5. inner' = x /\ att' = (IF att.on THEN x ELSE att)
      BY <3>1 DEF Persist
    <3> HIDE DEF x
    <3> QED
      BY <1>a, <1>s, <2>1, <3>1, <3>3, <3>4, <3>5
  <2> QED
    BY <2>3, <2>4
<1>5. CASE PollGeneral
  <2> DEFINE j == Woken(inner, Blank)
  <2>2. UNCHANGED <<att, waits, client, up, down>> /\ ~att.on
    BY <1>5 DEF PollGeneral
  <2>a. CASE UNCHANGED <<inner, ghost>>
    <3>1. ~att.on /\ ~ghost.ended => inner.lane.id = 0
      BY DEF Owning, LaneOwned
    <3> QED
      BY <1>2, <1>3, <1>s, <2>2, <2>a, <3>1, OwningKept
  <2>b. SUFFICES ASSUME ~UNCHANGED <<inner, ghost>> PROVE AsksOrdered' /\ LaneOwned'
    BY <2>a
  <2>1. PICK r \in client.heard :
           /\ inner' = Authenticated(j, Advance(Stored(j), r))
           /\ \/ ghost' = ghost
              \/ ghost' = [ghost EXCEPT !.unknown = @ \cup {r}]
    BY <1>5, <2>b DEF PollGeneral
  <2>3. j \in Session /\ Blank.lane.id = 0 /\ j.on
    BY <1>0, SessionsTyped DEF Blank, NoLane, Woken
  <2>4. inner'.lane = j.lane /\ inner'.on
    BY <2>1, <2>3 DEF Authenticated, Session
  <2>5. ~ghost.ended => inner'.lane.id = 0
    BY <2>2, <2>3, <2>4 DEF Woken, Owning, LaneOwned
  <2>6. ghost'.minted = ghost.minted /\ ghost'.ended = ghost.ended
    BY <1>0, <2>1 DEF Happened
  <2> HIDE DEF j
  <2> QED
    BY <1>3, <1>s, <2>2, <2>4, <2>5, <2>6, OwningKept
<1>6. CASE HandleInitial
  <2> DEFINE r == Remember(Stored(i), Head(up).round)
             x == Authenticated(i, r)
  <2>1. /\ up # <<>> /\ att.on /\ Head(up).k = "initial" /\ up' = Tail(up)
        /\ inner' = x /\ Persist(x) /\ UNCHANGED <<waits, client>>
        /\ down' = down \cup {[k |-> "response", round |-> Head(up).round]}
        /\ ghost' = [ghost EXCEPT !.remembered = Append(@, Head(up).round)]
    BY <1>6 DEF HandleInitial, Frame, i
  <2>2. Head(up).round \in Rounds /\ Head(up).round # None
    <3>1. 1 \in DOMAIN up /\ Head(up) = up[1]
      BY <1>0, <2>1, UpTail
    <3>2. Head(up).round \in 1 .. client.asked
      BY <2>1, <3>1 DEF Owning, Begun
    <3> QED
      BY <2>1, <3>2, FrameTyped, KeptParts DEF None
  <2>3. r \in RoundsKept /\ r.current # None
    BY <1>1, <2>2, Selects
  <2>4. x \in Session /\ x.on /\ Follows(x, i)
    <3> HIDE DEF r
    <3>1. x \in Session /\ Follows(x, i)
      BY <1>1, <2>3, SessionsTyped, FollowsSame
    <3>2. x.on = i.on
      BY <1>1 DEF Authenticated, Session
    <3> QED
      BY <1>1, <2>1, <3>1, <3>2
  <2>5. ghost'.minted = ghost.minted /\ ghost'.ended = ghost.ended
    BY <1>0, <2>1 DEF Happened
  <2>6. inner' = x /\ att' = (IF att.on THEN x ELSE att)
    BY <2>1 DEF Persist
  <2>7. AsksStay /\ \A f : f.k \in {"offer", "attached"} => (f \in down' <=> f \in down)
    BY <2>1 DEF AsksStay
  <2> HIDE DEF x, r
  <2> QED
    BY <1>1, <1>a, <2>1, <2>4, <2>5, <2>6, <2>7
<1>7. CASE HandleAttach
  <2>1. /\ up # <<>> /\ att.on /\ Head(up).k = "attach" /\ up' = Tail(up) /\ UNCHANGED <<client, ghost>>
        /\ down' = down \/ down' = down \cup {[k |-> "attachRefused"]}
    BY <1>7 DEF HandleAttach, Frame
  <2>2. AsksStay /\ \A f : f.k \in {"offer", "attached"} => (f \in down' <=> f \in down)
    BY <2>1 DEF AsksStay
  <2>3. CASE inner' = i /\ att' = att
    BY <1>1, <1>2, <1>a, <2>1, <2>2, <2>3, FollowsSame
  <2>4. CASE inner' = [i EXCEPT !.tried = TRUE] /\ Persist([i EXCEPT !.tried = TRUE])
    <3> DEFINE x == [i EXCEPT !.tried = TRUE]
    <3>1. x \in Session /\ x.on /\ Follows(x, i)
      <4>1. x \in Session /\ x.on = i.on
        BY <1>1 DEF Session
      <4> QED
        BY <1>1, <2>1, <4>1, FollowsSame
    <3>2. inner' = x /\ att' = (IF att.on THEN x ELSE att)
      BY <2>4 DEF Persist
    <3> HIDE DEF x
    <3> QED
      BY <1>1, <1>a, <2>1, <2>2, <3>1, <3>2
  <2> QED
    BY <1>7, <2>3, <2>4 DEF HandleAttach, i
<1>8. CASE HandleBye
  <2> DEFINE x == [i EXCEPT !.lane = NoLane]
  <2>1. /\ up # <<>> /\ att.on /\ Head(up).k = "bye" /\ up' = Tail(up) /\ inner' = x
        /\ UNCHANGED <<client, ghost, down, att, waits>>
    BY <1>8 DEF HandleBye, Frame, Unregister, i
  <2>2. x \in Session /\ x.on /\ Follows(x, i)
    <3>1. x \in Session /\ x.on = i.on
      BY <1>1, LaneTyped DEF Session
    <3> QED
      BY <1>1, <2>1, <3>1, FollowsSame
  <2>3. AsksStay
    BY <2>1 DEF AsksStay
  <2> HIDE DEF x
  <2> QED
    BY <1>1, <1>a, <2>1, <2>2, <2>3
<1>9. CASE HandleEvent
  <2> DEFINE lane == Received(i.lane, Head(up), now)
             x == [i EXCEPT !.lane = lane]
  <2>1. /\ up # <<>> /\ att.on /\ Head(up).k = "event" /\ up' = Tail(up)
        /\ UNCHANGED <<client, down>>
    BY <1>9 DEF HandleEvent, Frame
  <2>2. AsksStay
    BY <2>1 DEF AsksStay
  <2>3. CASE inner' = i /\ UNCHANGED <<att, waits, posts, ghost>>
    BY <1>1, <1>a, <2>1, <2>2, <2>3, FollowsSame
  <2>4. CASE /\ inner' = x /\ Persist(x) /\ waits' = waits \cup {Forward(lane, Head(up).n)}
             /\ ghost' = [ghost EXCEPT !.routed = Append(@, <<lane.id, Head(up).n>>)]
    <3>1. i.lane \in Lane /\ Head(up).n \in Nat /\ now \in Nat
      BY <1>1, <2>1, FrameTyped DEF Session, TypeOK
    <3>2. lane \in Lane /\ lane.id = i.lane.id /\ lane.round = i.lane.round
      <4>1. lane \in Lane
        BY <3>1, LaneTyped
      <4> QED
        BY <3>1, <4>1 DEF Received, Lane
    <3>3. ghost'.minted = ghost.minted /\ ghost'.ended = ghost.ended
      BY <1>0, <2>4 DEF Happened
    <3>4. AttachWait \in waits' => AttachWait \in waits
      BY <2>4 DEF Forward, AttachWait
    <3> HIDE DEF lane
    <3>5. x \in Session /\ x.on /\ Follows(x, i)
      <4>1. x \in Session /\ x.on = i.on
        BY <1>1, <3>2 DEF Session
      <4> QED
        BY <1>1, <2>1, <3>2, <4>1, FollowsSame
    <3>6. inner' = x /\ att' = (IF att.on THEN x ELSE att)
      BY <2>4 DEF Persist
    <3> HIDE DEF x
    <3> QED
      BY <1>1, <1>a, <2>1, <2>2, <3>3, <3>4, <3>5, <3>6
  <2> QED
    BY <1>9, <2>3, <2>4 DEF HandleEvent, i
\* emit_on_session_lane moves the relay's counter only.
<1>e. ASSUME NEW y \in {i, inner}, Emit(y), y.on, att.on => y = i,
             ~att.on /\ ~ghost.ended => y.lane.id = 0, UNCHANGED <<client, up, down>>,
             AttachWait \in waits' => AttachWait \in waits
      PROVE  AsksOrdered' /\ LaneOwned'
  <2>1. y \in Session /\ y.lane \in Lane /\ now \in Nat
    BY <1>0, <1>1 DEF Session, TypeOK
  <2>2. CASE OnLane(y.lane)
    <3> DEFINE lane == Sealed(y.lane, now)
               x == [y EXCEPT !.lane = lane]
    <3>1. /\ inner' = x /\ Persist(x)
          /\ ghost' = [ghost EXCEPT !.stamped = Append(@, <<y.lane.id, y.lane.nextOut>>)]
      BY <1>e, <2>1, <2>2 DEF Emit, Session
    <3>2. lane \in Lane /\ lane.id = y.lane.id /\ lane.round = y.lane.round
      <4>1. lane \in Lane
        BY <2>1, LaneTyped
      <4> QED
        BY <2>1, <4>1 DEF Sealed, Lane
    <3>3. ghost'.minted = ghost.minted /\ ghost'.ended = ghost.ended
      BY <1>0, <3>1 DEF Happened
    <3> HIDE DEF lane
    <3>5. x \in Session /\ x.on /\ Follows(x, y)
      <4>1. x \in Session /\ x.on = y.on
        BY <2>1, <3>2 DEF Session
      <4> QED
        BY <1>e, <2>1, <3>2, <4>1, FollowsSame
    <3>6. inner' = x /\ att' = (IF att.on THEN x ELSE att)
      BY <3>1 DEF Persist
    <3> HIDE DEF x
    <3> QED
      BY <1>a, <1>e, <1>s, <2>1, <3>3, <3>5, <3>6
  <2>3. CASE ~OnLane(y.lane)
    <3>1. inner' = y /\ att' = att /\ ghost' = ghost
      BY <1>e, <2>3 DEF Emit
    <3> QED
      BY <1>a, <1>e, <1>s, <2>1, <3>1, FollowsSame
  <2> QED
    BY <2>2, <2>3
<1>10. CASE Broadcast
  <2>1. att.on /\ UNCHANGED <<client, up, down, waits>>
    BY <1>10 DEF Broadcast
  <2>2. CASE inner' = i /\ UNCHANGED <<att, ghost>>
    BY <1>1, <1>a, <1>s, <2>1, <2>2, FollowsSame
  <2>3. CASE Emit(i)
    BY <1>1, <1>e, <2>1, <2>3
  <2> QED
    BY <1>10, <2>2, <2>3 DEF Broadcast, i
<1>11. CASE \E w \in waits : ForwardAnswered(w)
  <2>1. PICK w \in waits : ForwardAnswered(w)
    BY <1>11
  <2>2. Emit(inner) /\ UNCHANGED <<client, up, down>> /\ (AttachWait \in waits' => AttachWait \in waits)
    BY <2>1 DEF ForwardAnswered
  <2>3. inner.on /\ (~att.on /\ ~ghost.ended => inner.lane.id = 0)
    BY <2>1 DEF Counted, Owning, LaneOwned
  <2> QED
    BY <1>1, <1>e, <2>2, <2>3
<1> QED
  BY <1>4, <1>5, <1>6, <1>7, <1>8, <1>9, <1>10, <1>11

\* The socket's end takes what is under way with it.
LEMMA OwningEnds ==
    ASSUME TypeOK, Owning, SocketEnds, ghost'.ended, AttachWait \in waits' => AttachWait \in waits,
           inner'.on = Woken(inner, att).on
    PROVE  AsksOrdered' /\ LaneOwned'
<1>1. up' = <<>> /\ down' = {} /\ ~att'.on
  BY DEF SocketEnds, Absent, Blank
<1>2. DOMAIN up' = {}
  BY <1>1
<1>3. AttachWait \in waits' => inner'.on
  BY DEF Owning, LaneOwned, Woken
<1> QED
  BY <1>1, <1>2, <1>3 DEF AsksOrdered, LaneOwned, NoAsk

\* The socket opens on a session without a lane.
LEMMA OwningOpens ==
    ASSUME TypeOK, Owning, Upgrade
    PROVE  AsksOrdered' /\ LaneOwned'
<1> USE DEF session, polling, hubs, clientVars
<1> DEFINE j == Woken(inner, Blank)
<1>1. /\ ~att.on /\ ~ghost.ended /\ att' = inner' /\ UNCHANGED <<waits, client, up, down, ghost>>
      /\ inner' = j \/ inner' = Authenticated(j, rounds)
  BY DEF Upgrade
<1>2. j \in Session /\ j.on /\ j.lane.id = 0
  <2>1. Blank \in Session /\ Blank.on /\ Blank.lane.id = 0 /\ inner \in Session
    BY SessionsTyped DEF Blank, NoLane, TypeOK
  <2> QED
    BY <1>1, <2>1 DEF Woken, Owning, LaneOwned
<1>3. inner'.lane = j.lane /\ inner'.on
  BY <1>1, <1>2 DEF Authenticated, Session
<1> HIDE DEF j
<1>4. /\ ghost.minted = 0 /\ client.ask = 0 /\ client.lane = 0 /\ AttachWait \notin waits
      /\ up = <<>> /\ down = {}
  BY <1>1 DEF Owning, LaneOwned
<1>5. NoAsk' /\ DOMAIN up' = {}
  BY <1>1, <1>4 DEF NoAsk
<1> QED
  BY <1>1, <1>2, <1>3, <1>4, <1>5 DEF AsksOrdered, LaneOwned, Owned

\* A new ask is the last one.
LEMMA OwningAsks ==
    ASSUME TypeOK, Owning, Recalled, SendAsk
    PROVE  AsksOrdered' /\ LaneOwned'
<1> USE DEF session, polling, hubs, clientVars
<1>0. client \in Client /\ client.ask \in Nat /\ up \in Seq(UpFrame)
  BY KeptParts DEF TypeOK
<1>1. PICK r \in client.heard :
        /\ client' = [client EXCEPT !.ask = @ + 1, !.askRound = r]
        /\ up' = Append(up, [k |-> "ask", round |-> r, ask |-> client.ask + 1])
  BY DEF SendAsk, Sends
<1>2. att.on /\ UNCHANGED <<inner, att, waits, down, ghost>>
  BY DEF SendAsk
<1>3. client'.ask = client.ask + 1 /\ client'.askRound = r /\ client'.attach = client.attach
  BY <1>0, <1>1 DEF Client
<1> DEFINE f == [k |-> "ask", round |-> r, ask |-> client.ask + 1]
<1>4. f.k = "ask" /\ f.round = r /\ f.ask = client.ask + 1 /\ up' = Append(up, f)
  BY <1>1
<1> HIDE DEF f
<1>5. /\ Len(up) + 1 \in DOMAIN up' /\ up'[Len(up) + 1] = f
      /\ \A k \in DOMAIN up' : IF k = Len(up) + 1 THEN up'[k] = f
                               ELSE k \in DOMAIN up /\ k < Len(up) + 1 /\ up'[k] = up[k]
  BY <1>0, <1>4, UpAppend
<1>6. ~NoAsk'
  BY <1>4, <1>5 DEF NoAsk
<1>7. \A k \in DOMAIN up : up[k].k = "ask" => up[k].ask \in 1 .. client.ask
  BY DEF Owning, AsksOrdered
<1>8. \A g \in down : g.k = "offer" => g.ask \in 1 .. client.ask
  BY DEF Owning, AsksOrdered
<1>9. ASSUME NEW k \in DOMAIN up', up'[k].k = "ask"
      PROVE  /\ up'[k].ask \in 1 .. client'.ask
             /\ up'[k].ask = client'.ask => up'[k].round = client'.askRound
             /\ \A j \in DOMAIN up' : up'[j].k = "ask" /\ j < k => up'[j].ask < up'[k].ask
             /\ \A g \in down' : g.k = "offer" => g.ask < up'[k].ask
  <2>1. CASE k = Len(up) + 1
    <3>1. up'[k].ask = client.ask + 1 /\ up'[k].round = r
      BY <1>4, <1>5, <2>1
    <3>2. ASSUME NEW j \in DOMAIN up', up'[j].k = "ask", j < k PROVE up'[j].ask < client.ask + 1
      <4>1. j # Len(up) + 1
        <5>1. Len(up) \in Nat
          BY <1>0
        <5> QED
          BY <2>1, <3>2, <5>1
      <4>2. up'[j].ask \in 1 .. client.ask
        BY <1>5, <1>7, <3>2, <4>1
      <4> QED
        BY <1>0, <4>2
    <3>3. \A g \in down' : g.k = "offer" => g.ask < client.ask + 1
      BY <1>0, <1>2, <1>8
    <3>4. client.ask + 1 \in 1 .. client.ask + 1
      BY <1>0
    <3> QED
      BY <1>3, <3>1, <3>2, <3>3, <3>4
  <2>2. CASE k # Len(up) + 1
    <3>1. k \in DOMAIN up /\ k < Len(up) + 1 /\ up'[k] = up[k]
      BY <1>5, <1>9, <2>2
    <3>2. up[k].ask \in 1 .. client.ask
      BY <1>7, <1>9, <3>1
    <3>3. up[k].ask \in 1 .. client.ask + 1 /\ up[k].ask # client.ask + 1
      BY <1>0, <3>2
    <3>4. ASSUME NEW j \in DOMAIN up', up'[j].k = "ask", j < k PROVE up'[j].ask < up[k].ask
      <4>1. Len(up) \in Nat /\ k \in Nat
        BY <1>0, <3>1
      <4>2. j # Len(up) + 1
        BY <3>1, <3>4, <4>1
      <4> QED
        BY <1>5, <1>9, <3>1, <3>4, <4>2 DEF Owning, AsksOrdered
    <3>5. \A g \in down' : g.k = "offer" => g.ask < up[k].ask
      BY <1>2, <1>9, <3>1 DEF Owning, AsksOrdered
    <3> QED
      BY <1>3, <3>1, <3>3, <3>4, <3>5
  <2> QED
    BY <2>1, <2>2
<1>10. \A g \in down' : g.k = "offer" =>
            g.ask \in 1 .. client'.ask /\ (g.ask = client'.ask => g.lane = ghost'.minted)
  BY <1>0, <1>2, <1>3, <1>8
<1>11. AsksOrdered'
  BY <1>3, <1>4, <1>5, <1>9, <1>10 DEF AsksOrdered
<1>12. att'.on => Owned(att)' /\ (inner'.on => Owned(inner)')
  BY <1>2, <1>6 DEF Owning, LaneOwned, Owned
<1>13. client'.ask # 0
  BY <1>0, <1>3
<1> QED
  BY <1>2, <1>6, <1>11, <1>12, <1>13 DEF Owning, LaneOwned

\* The client takes the offer of its last ask, which is of the lane minted last.
LEMMA OwningHears ==
    ASSUME TypeOK, Owning, NEW f \in down, Hears(f)
    PROVE  AsksOrdered' /\ LaneOwned'
<1> USE DEF session, polling, hubs, clientVars
<1>0. client \in Client /\ client.ask \in Nat
  BY KeptParts DEF TypeOK
<1>1. UNCHANGED <<inner, att, waits, up, ghost>> /\ down' = down \ {f}
  BY DEF Hears
<1>2. client'.ask = client.ask /\ client'.askRound = client.askRound
      /\ client'.attach \in {client.attach, "over"}
  BY <1>0 DEF Hears, Client
<1>3. (NoAsk' <=> NoAsk) /\ OwnRound' = OwnRound
  BY <1>1, <1>2 DEF NoAsk, OwnRound
<1>4. AsksOrdered'
  BY <1>1, <1>2, <1>3 DEF Owning, AsksOrdered
<1>5. att.on
  BY DEF Owning, LaneOwned
<1>6. Owned(att)' /\ (inner'.on => Owned(inner)')
  BY <1>1, <1>3, <1>5 DEF Owning, LaneOwned, Owned
<1>7. NoAsk' /\ client'.lane # 0 =>
          \/ client'.lane = ghost'.minted /\ client'.laneRound = OwnRound'
          \/ \E g \in down' : g.k = "offer" /\ g.ask = client'.ask
  <2> SUFFICES ASSUME NoAsk, client'.lane # 0
               PROVE  \/ client'.lane = ghost.minted /\ client'.laneRound = OwnRound
                      \/ \E g \in down' : g.k = "offer" /\ g.ask = client.ask
    BY <1>1, <1>2, <1>3
  <2>1. CASE f.k = "offer" /\ f.ask = client.ask
    <3>1. client'.lane = f.lane /\ client'.laneRound = client.askRound
      BY <1>0, <2>1 DEF Hears, Client
    <3>2. f.lane = ghost.minted /\ client.ask # 0
      BY <2>1, <1>0 DEF Owning, AsksOrdered
    <3> QED
      BY <3>1, <3>2 DEF OwnRound
  <2>2. CASE f.k = "attached" /\ client.attach = "sent"
    <3>1. client'.lane = f.lane /\ client'.laneRound = Attached
      BY <1>0, <2>2 DEF Hears, Client
    <3>2. client.ask = 0
      BY <2>2 DEF Owning, Begun
    <3> QED
      BY <2>2, <3>1, <3>2 DEF Owning, LaneOwned, OwnRound
  <2>3. CASE ~(f.k = "offer" /\ f.ask = client.ask) /\ ~(f.k = "attached" /\ client.attach = "sent")
    <3>1. client'.lane = client.lane /\ client'.laneRound = client.laneRound
      BY <1>0, <2>3 DEF Hears, Client
    <3> QED
      BY <1>1, <1>5, <2>3, <3>1 DEF Owning, LaneOwned
  <2> QED
    BY <2>1, <2>2, <2>3
<1>8. client'.ask = 0 => \A g \in down' : g.k = "attached" => g.lane = ghost'.minted
  BY <1>1, <1>2 DEF Owning, LaneOwned
<1> QED
  BY <1>1, <1>2, <1>3, <1>4, <1>5, <1>6, <1>7, <1>8 DEF Owning, LaneOwned

\* An ask's lane is minted under the nonces it was asked under, and is the
\* socket's from then on.
LEMMA OwningMints ==
    ASSUME TypeOK, Owning, Recalled, HandleAsk
    PROVE  AsksOrdered' /\ LaneOwned'
<1> USE DEF session, polling, hubs, clientVars
<1> DEFINE i == Woken(inner, att)
           round == Head(up).round
           lane == MintLane(round)
           verified == [Authenticated(i, Advance(Stored(i), round)) EXCEPT !.emitted = TRUE, !.lane = lane]
           offer == [k |-> "offer", lane |-> lane.id, ask |-> Head(up).ask]
<1>0. /\ ghost \in Happened /\ inner \in Session /\ att \in Session /\ up \in Seq(UpFrame)
      /\ client.ask \in Nat /\ ghost.minted \in Nat
  BY KeptParts DEF TypeOK
<1>1. /\ up # <<>> /\ att.on /\ Head(up).k = "ask" /\ client' = client /\ waits' = waits
  BY DEF HandleAsk, Frame
<1>2. 1 \in DOMAIN up /\ Head(up) = up[1]
  <2>1. Len(up) \in Nat /\ Len(up) # 0 /\ DOMAIN up = 1 .. Len(up)
    BY <1>0, <1>1
  <2> QED
    BY <1>0, <1>1, <2>1
<1>3. round \in Rounds /\ round # None
  <2>1. round \in 1 .. client.asked
    BY <1>1, <1>2 DEF Recalled, SocketTold, Owning, Begun
  <2> QED
    BY <1>1, <2>1, FrameTyped, KeptParts DEF None
<1>4. i \in Session /\ i.on
  BY <1>0, <1>1 DEF Woken
<1>5. CASE ~Known(Stored(i), round)
  <2>1. SocketEnds /\ ghost' = [ghost EXCEPT !.unknown = @ \cup {round}, !.ended = TRUE]
    BY <1>5 DEF HandleAsk
  <2>2. ghost'.ended
    BY <1>0, <2>1 DEF Happened
  <2>3. inner'.on = Woken(inner, att).on
    BY <1>4, <2>1 DEF SocketEnds, Unregister, Session
  <2> QED
    BY <1>1, <2>1, <2>2, <2>3, OwningEnds
<1>6. CASE Known(Stored(i), round)
  <2>1. /\ inner' = verified /\ Persist(verified) /\ up' = Tail(up) /\ down' = down \cup {offer}
        /\ ghost' = [ghost EXCEPT !.minted = @ + 1]
    BY <1>6 DEF HandleAsk
  <2>2. ghost'.minted = ghost.minted + 1 /\ ghost'.ended = ghost.ended
    BY <1>0, <2>1 DEF Happened
  <2>3. lane.id = ghost.minted + 1 /\ lane.round = round
    BY DEF MintLane, Mint, NoLane
  <2>4. offer.k = "offer" /\ offer.lane = ghost.minted + 1 /\ offer.ask = Head(up).ask
    BY <2>3
  <2>5. /\ verified.on /\ verified.lane = lane /\ verified.auth = round
    <3>1. Advance(Stored(i), round) \in RoundsKept /\ Advance(Stored(i), round).current = round
      BY <1>3, <1>4, <1>6, Selects
    <3> HIDE DEF i, round, lane
    <3> QED
      BY <1>4, <3>1 DEF Authenticated, Session
  <2>6. inner' = verified /\ att' = verified
    BY <1>1, <2>1 DEF Persist
  <2> HIDE DEF verified, offer, lane
  <2>7. /\ \A k \in DOMAIN up' : k \in Nat /\ k + 1 \in DOMAIN up /\ up'[k] = up[k + 1]
        /\ \A k \in DOMAIN up : k \in Nat /\ (k = 1 \/ (k > 1 /\ k - 1 \in DOMAIN up' /\ up'[k - 1] = up[k]))
    BY <1>0, <1>1, <2>1, UpTail
  <2> DEFINE ask == Head(up).ask
  <2>8. /\ ask \in 1 .. client.ask /\ (ask = client.ask => round = client.askRound)
        /\ \A g \in down : g.k = "offer" => g.ask < ask
    BY <1>1, <1>2 DEF Owning, AsksOrdered
  <2>9. ASSUME NEW k \in DOMAIN up', up'[k].k = "ask"
        PROVE  /\ up'[k].ask \in 1 .. client'.ask /\ ask < up'[k].ask
               /\ up'[k].ask = client'.ask => up'[k].round = client'.askRound
               /\ \A j \in DOMAIN up' : up'[j].k = "ask" /\ j < k => up'[j].ask < up'[k].ask
               /\ \A g \in down' : g.k = "offer" => g.ask < up'[k].ask
    <3>1. k \in Nat /\ k + 1 \in DOMAIN up /\ up'[k] = up[k + 1] /\ k + 1 # 1
      <4>1. k \in Nat /\ k + 1 \in DOMAIN up /\ up'[k] = up[k + 1]
        BY <2>7, <2>9
      <4>2. k # 0
        <5>1. DOMAIN up' = 1 .. Len(up')
          <6>1. up' \in Seq(UpFrame)
            BY <1>1, <2>1, FrameTyped
          <6> QED
            BY <6>1
        <5> QED
          BY <2>9, <5>1
      <4> QED
        BY <4>1, <4>2
    <3>2. /\ up[k + 1].ask \in 1 .. client.ask
          /\ up[k + 1].ask = client.ask => up[k + 1].round = client.askRound
          /\ \A g \in down : g.k = "offer" => g.ask < up[k + 1].ask
      BY <2>9, <3>1 DEF Owning, AsksOrdered
    <3>3. \A j \in DOMAIN up : up[j].k = "ask" /\ j < k + 1 => up[j].ask < up[k + 1].ask
      BY <2>9, <3>1 DEF Owning, AsksOrdered
    <3>4. 1 < k + 1
      BY <3>1
    <3>5. ask < up[k + 1].ask
      BY <1>1, <1>2, <3>3, <3>4
    <3>6. ASSUME NEW j \in DOMAIN up', up'[j].k = "ask", j < k PROVE up'[j].ask < up[k + 1].ask
      <4>1. j \in Nat /\ j + 1 \in DOMAIN up /\ up'[j] = up[j + 1]
        BY <2>7, <3>6
      <4>2. j + 1 < k + 1
        BY <3>1, <3>6, <4>1
      <4> QED
        BY <3>3, <3>6, <4>1, <4>2
    <3>7. \A g \in down' : g.k = "offer" => g.ask < up[k + 1].ask
      BY <2>1, <2>4, <3>2, <3>5
    <3> QED
      BY <1>1, <3>1, <3>2, <3>5, <3>6, <3>7
  <2>10. \A g \in down' : g.k = "offer" =>
            g.ask \in 1 .. client'.ask /\ (g.ask = client'.ask => g.lane = ghost'.minted)
    <3> SUFFICES ASSUME NEW g \in down', g.k = "offer"
                 PROVE  g.ask \in 1 .. client.ask /\ (g.ask = client.ask => g.lane = ghost'.minted)
      BY <1>1
    <3>1. CASE g = offer
      BY <2>2, <2>4, <2>8, <3>1
    <3>2. CASE g \in down
      <4>1. g.ask \in 1 .. client.ask /\ g.ask < ask
        BY <2>8, <3>2 DEF Owning, AsksOrdered
      <4> QED
        BY <1>0, <2>8, <4>1
    <3> QED
      BY <2>1, <3>1, <3>2
  <2>11. \/ NoAsk' /\ ask = client.ask
         \/ ~NoAsk' /\ \E k \in DOMAIN up' : up'[k].k = "ask" /\ up'[k].ask = client'.ask
    <3>1. PICK k \in DOMAIN up : up[k].k = "ask" /\ up[k].ask = client.ask
      BY <1>1, <1>2 DEF Owning, AsksOrdered, NoAsk
    <3>2. CASE k = 1
      <4>1. ask = client.ask
        BY <1>2, <3>1, <3>2
      <4>2. ASSUME NEW j \in DOMAIN up', up'[j].k = "ask" PROVE FALSE
        <5>1. up'[j].ask \in 1 .. client.ask /\ ask < up'[j].ask
          BY <1>1, <2>9, <4>2
        <5> QED
          BY <1>0, <4>1, <5>1
      <4> QED
        BY <4>1, <4>2 DEF NoAsk
    <3>3. CASE k # 1
      BY <1>1, <2>7, <3>1, <3>3 DEF NoAsk
    <3> QED
      BY <3>2, <3>3
  <2>12. AsksOrdered'
    BY <2>9, <2>10, <2>11 DEF AsksOrdered
  <2>13. ghost'.minted # 0 /\ client'.ask # 0
    BY <1>0, <1>1, <2>2, <2>8
  <2>14. NoAsk' => round = OwnRound'
    BY <1>1, <2>8, <2>11, <2>13 DEF OwnRound
  <2>15. Owned(att)' /\ Owned(inner)'
    BY <1>3, <2>2, <2>3, <2>5, <2>6, <2>14 DEF Owned
  <2>16. NoAsk' => \E g \in down' : g.k = "offer" /\ g.ask = client'.ask
    BY <1>1, <2>1, <2>4, <2>11
  <2>17. att'.on /\ inner'.on /\ ~ghost'.ended
    BY <1>1, <2>2, <2>5, <2>6 DEF Owning, LaneOwned
  <2> QED
    BY <2>12, <2>13, <2>15, <2>16, <2>17 DEF LaneOwned
<1> QED
  BY <1>5, <1>6

\* An attach that wins finds no lane minted; one that loses changes nothing.
LEMMA OwningAttaches ==
    ASSUME TypeOK, Owning, AttachAnswered
    PROVE  AsksOrdered' /\ LaneOwned'
<1> USE DEF session, polling, hubs, clientVars
<1> DEFINE lane == MintLane(Attached)
           done == [inner EXCEPT !.auth = Attached, !.emitted = TRUE, !.lane = lane]
<1>0. /\ ghost \in Happened /\ inner \in Session /\ att \in Session /\ down \subseteq DownFrame
      /\ client.ask \in Nat /\ ghost.minted \in Nat
  BY KeptParts DEF TypeOK
<1>1. /\ AttachWait \in waits /\ waits' = waits \ {AttachWait} /\ UNCHANGED <<client, up>>
  BY DEF AttachAnswered
<1>2. inner.on /\ (~att.on => ghost.ended /\ up = <<>> /\ down = {}) /\ (att.on => ~ghost.ended)
  BY <1>1 DEF Owning, LaneOwned
<1>3. CASE /\ UNCHANGED <<inner, att, ghost>>
           /\ down' = IF att.on THEN down \cup {[k |-> "attachRefused"]} ELSE down
  <2>1. Follows(att, att) /\ Follows(inner, inner)
    BY <1>0, FollowsSame
  <2>2. AsksStay
    BY <1>1 DEF AsksStay
  <2>3. \A f : f.k \in {"offer", "attached"} => (f \in down' <=> f \in down)
    BY <1>3
  <2> QED
    BY <1>1, <1>2, <1>3, <2>1, <2>2, <2>3, OwningKept
<1>4. CASE /\ CommitWon(inner) /\ inner' = done /\ Persist(done)
           /\ ghost' = [ghost EXCEPT !.minted = @ + 1]
           /\ down' = IF att.on THEN down \cup {[k |-> "attached", lane |-> lane.id]} ELSE down
  <2>1. ghost'.minted = ghost.minted + 1 /\ ghost'.ended = ghost.ended
    BY <1>0, <1>4 DEF Happened
  <2>2. lane.id = ghost.minted + 1 /\ lane.round = Attached
    BY DEF MintLane, Mint, NoLane
  <2> HIDE DEF lane
  <2>3. done.on = inner.on /\ done.lane = lane /\ done.auth = Attached
    BY <1>0 DEF Session
  <2>4. inner' = done /\ att' = (IF att.on THEN done ELSE att)
    BY <1>4 DEF Persist
  <2> HIDE DEF done
  <2>5. CASE ~att.on
    <3>1. up' = <<>> /\ down' = {} /\ ~att'.on /\ ghost'.ended /\ inner'.on
      BY <1>1, <1>2, <1>4, <2>1, <2>3, <2>4, <2>5
    <3>2. DOMAIN up' = {}
      BY <3>1
    <3> QED
      BY <3>1, <3>2 DEF AsksOrdered, LaneOwned, NoAsk
  <2>6. CASE att.on
    <3>1. ghost.minted = 0
      BY <1>2, <1>4, <2>6 DEF CommitWon, Owning, LaneOwned, Owned
    <3>2. \A f \in down : f.k \in {"offer", "attached"} => f.lane # 0
      BY <1>0 DEF DownFrame, Lanes
    <3>3. \A f \in down : f.k = "offer" => f.ask # client.ask
      BY <3>1, <3>2 DEF Owning, AsksOrdered
    <3>4. client.ask = 0 => \A f \in down : f.k # "attached"
      BY <3>1, <3>2 DEF Owning, LaneOwned
    <3>5. NoAsk => client.ask = 0 /\ client.lane = 0
      BY <2>6, <3>1, <3>3 DEF Owning, LaneOwned
    <3>6. NoAsk' <=> NoAsk
      BY <1>1 DEF NoAsk
    <3> DEFINE f1 == [k |-> "attached", lane |-> lane.id]
    <3>7. f1.k = "attached" /\ f1.lane = ghost'.minted /\ down' = down \cup {f1}
      BY <1>4, <2>1, <2>2, <2>6
    <3> HIDE DEF f1
    <3>8. \A g : g.k = "offer" => (g \in down' <=> g \in down)
      BY <3>7
    <3>9. AsksOrdered'
      <4>1. ASSUME NEW k \in DOMAIN up', up'[k].k = "ask"
            PROVE  /\ up'[k].ask \in 1 .. client'.ask
                   /\ up'[k].ask = client'.ask => up'[k].round = client'.askRound
                   /\ \A j \in DOMAIN up' : up'[j].k = "ask" /\ j < k => up'[j].ask < up'[k].ask
                   /\ \A g \in down' : g.k = "offer" => g.ask < up'[k].ask
        BY <1>1, <3>8, <4>1 DEF Owning, AsksOrdered
      <4>2. NoAsk' \/ \E k \in DOMAIN up' : up'[k].k = "ask" /\ up'[k].ask = client'.ask
        BY <1>1, <3>6 DEF Owning, AsksOrdered
      <4>3. \A g \in down' : g.k = "offer" =>
              g.ask \in 1 .. client'.ask /\ (g.ask = client'.ask => g.lane = ghost'.minted)
        BY <1>1, <3>3, <3>8 DEF Owning, AsksOrdered
      <4> QED
        BY <4>1, <4>2, <4>3 DEF AsksOrdered
    <3>10. NoAsk' => OwnRound' = Attached
      BY <1>1, <3>5, <3>6 DEF OwnRound
    <3>11. Attached # None
      BY DEF Attached, None
    <3>12. Owned(att)' /\ Owned(inner)'
      BY <2>1, <2>2, <2>3, <2>4, <2>6, <3>10, <3>11 DEF Owned
    <3>13. att'.on /\ inner'.on /\ ~ghost'.ended /\ ghost'.minted # 0
      <4>1. ghost'.minted # 0
        BY <1>0, <2>1
      <4>2. inner'.on /\ att' = inner' /\ ~ghost'.ended
        BY <1>2, <2>1, <2>3, <2>4, <2>6
      <4> QED
        BY <4>1, <4>2
    <3>14. client'.ask = 0 => \A g \in down' : g.k = "attached" => g.lane = ghost'.minted
      BY <1>1, <3>4, <3>7
    <3>15. NoAsk' => client'.lane = 0
      BY <1>1, <3>5, <3>6
    <3> QED
      BY <3>9, <3>12, <3>13, <3>14, <3>15 DEF LaneOwned
  <2> QED
    BY <2>5, <2>6
<1> QED
  BY <1>3, <1>4 DEF AttachAnswered

\* Every step keeps it.
LEMMA OwningStep ==
    ASSUME TypeOK, Counted, Recalled, Owning, [Next]_vars PROVE Owning'
<1> USE DEF session, polling, hubs, clientVars
<1>0. Begun'
  BY BegunStep DEF Owning, LaneOwned
<1>1. CASE WebsocketClose
  <2>1. SocketEnds /\ waits' = waits /\ ghost' = [ghost EXCEPT !.ended = TRUE]
    BY <1>1 DEF WebsocketClose
  <2>2. ghost'.ended
    BY <2>1 DEF TypeOK, Happened
  <2>3. inner'.on = Woken(inner, att).on
    <3>1. Woken(inner, att) \in Session
      BY SessionsTyped DEF TypeOK
    <3> QED
      BY <2>1, <3>1 DEF SocketEnds, Unregister, Session
  <2> QED
    BY <1>0, <2>1, <2>2, <2>3, OwningEnds DEF Owning
<1>2. CASE Upgrade \/ SendAsk \/ (\E f \in down : Hears(f)) \/ HandleAsk \/ AttachAnswered
  BY <1>0, <1>2, OwningOpens, OwningAsks, OwningHears, OwningMints, OwningAttaches DEF Owning
<1>3. CASE \/ HandOff \/ PollGeneral \/ HandleInitial \/ HandleAttach \/ HandleEvent \/ HandleBye
           \/ Broadcast \/ \E w \in waits : ForwardAnswered(w)
  BY <1>0, <1>3, OwningHandled DEF Owning
<1>4. CASE \/ AppendReads \/ AppendWrites \/ DrainReads \/ DrainWrites \/ PollInitial
           \/ SendInitial \/ SendAttach \/ AttachTimesOut \/ SendEvent \/ SendBye \/ Evict
           \/ \E w \in waits : ForwardRetries(w) \/ ForwardGivesUp(w)
           \/ \E p \in posts : HubEvent(p) \/ HubUnregister(p) \/ PostLost(p)
           \/ Sweep \/ (\E h \in Counters : HttpCall(h)) \/ Tick
           \/ (\E n \in DOMAIN calls : SessionTake(n) \/ SessionKept(n))
           \/ UNCHANGED vars
  BY <1>0, <1>4, OwningStands DEF Owning
<1> QED
  BY <1>1, <1>2, <1>3, <1>4 DEF Next

\* The compare-and-set of the attach, asks handled in order, the lane kept in
\* memory and on the socket's attachment: whatever handshakes, attaches and asks
\* race on whichever transport, and wherever the object is evicted, a lane the
\* client took is the socket's lane, under the same nonces.
THEOREM LanesAgree == Spec => []LaneAgreed
<1>1. Init => Owning
  <2> SUFFICES ASSUME Init PROVE Owning
    OBVIOUS
  <2>1. /\ ghost.remembered = <<>> /\ ghost.minted = 0 /\ ghost.ended = FALSE
        /\ worker.post = "idle" /\ client.attach = "no" /\ client.ask = 0 /\ client.lane = 0
        /\ up = <<>> /\ down = {} /\ waits = {} /\ ~att.on /\ inner.lane.id = 0
    BY DEF Init, Absent, Blank, NoLane
  <2>2. Range(<<>>) = {} /\ DOMAIN <<>> = {}
    BY DEF Range
  <2> QED
    BY <2>1, <2>2 DEF Owning, Begun, AsksOrdered, LaneOwned, NoAsk
<1>2. TypeOK /\ Counted /\ Recalled /\ Owning /\ [Next]_vars => Owning'
  BY OwningStep
<1>3. Owning => LaneAgreed
  <2> SUFFICES ASSUME Owning, att.on, client.lane # 0, Woken(inner, att).lane.id # 0,
                      \A n \in DOMAIN up : up[n].k \notin {"ask", "attach", "bye"},
                      \A f \in down : f.k # "offer"
               PROVE  /\ Woken(inner, att).lane.id = client.lane
                      /\ Woken(inner, att).lane.round = client.laneRound
    BY DEF LaneAgreed
  <2>1. NoAsk
    BY DEF NoAsk
  <2>2. Owned(Woken(inner, att))
    BY DEF Owning, LaneOwned, Woken
  <2>3. client.lane = ghost.minted /\ client.laneRound = OwnRound
    BY <2>1 DEF Owning, LaneOwned
  <2> QED
    BY <2>1, <2>2, <2>3 DEF Owned
<1> QED
  BY <1>1, <1>2, <1>3, CountedHolds, RecalledHolds, TypeCorrect, PTL DEF Spec
=============================================================================
