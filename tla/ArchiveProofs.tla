---------------------------- MODULE ArchiveProofs ----------------------------
(***************************************************************************)
(* Proofs about the relay's mailboxes and their archive, with the          *)
(* transcripts over them (Transcript), for any hubs, sends, consumers and  *)
(* workloads.                                                              *)
(***************************************************************************)
EXTENDS Transcript, MailboxRowsProofs

-----------------------------------------------------------------------------
(* What a handler makes of the rows of a hub *)

\* The rows held before are held after, from the same origin, as archived as
\* they were, with the same body or none, and in the same state, unless
\* acknowledged.
Keeps(m, n, acked) ==
    \A id \in HeldIds(m) :
        /\ id \in HeldIds(n) /\ n.rows[id].origin = m.rows[id].origin
        /\ n.rows[id].body \in {m.rows[id].body, NoBody}
        /\ n.rows[id].archived = m.rows[id].archived
        /\ n.rows[id].state = m.rows[id].state \/ id \in acked

\* What is so of every row held.
LEMMA HeldRow ==
    ASSUME NEW m, Sound(m), NEW id \in HeldIds(m)
    PROVE  /\ id \in Ids /\ m.rows[id] \in Row /\ RowKeepsBody(m.rows[id])
           /\ m.rows[id].archived \in 0 .. 2
<1>1. id \in Ids
  BY DEF HeldIds
<1>2. RowSound(m.rows[id])
  BY <1>1, HeldIsSound
<1> QED
  BY <1>1, <1>2 DEF RowSound, Row

\* The replay keeps every row.
LEMMA TakeKeeps ==
    ASSUME NEW m, Sound(m), NEW T \in Takeable(m)
    PROVE  Keeps(m, TakeOwedDue(m, T), {}) /\ HeldIds(TakeOwedDue(m, T)) = HeldIds(m)
<1> DEFINE n == TakeOwedDue(m, T)
<1>1. T \in SUBSET Ids /\ T \subseteq HeldIds(m)
  BY DEF Takeable, DueIds, HeldIds
<1>2. HeldIds(n) = HeldIds(m) /\ \A id \in HeldIds(m) : n.rows[id].origin = m.rows[id].origin
  BY <1>1, TakeSound
<1>3. ASSUME NEW id \in HeldIds(m) 
      PROVE  /\ n.rows[id].body = m.rows[id].body /\ n.rows[id].state = m.rows[id].state
             /\ n.rows[id].archived = m.rows[id].archived
  <2>1. id \in Ids /\ m \in MailboxState /\ m.rows[id] \in Row
    BY HeldIsSound DEF HeldIds, Sound, RowSound
  <2>2. n.rows = [i \in Ids |-> IF i \in T THEN [m.rows[i] EXCEPT !.due = FALSE] ELSE m.rows[i]]
    BY <2>1 DEF TakeOwedDue, MailboxState
  <2> QED
    BY <2>1, <2>2 DEF Row
<1> QED
  BY <1>2, <1>3 DEF Keeps

\* An insert keeps every row and adds at most its own.
LEMMA InsertKeeps ==
    ASSUME NEW m, Sound(m), NEW i \in Ids, NEW origin \in Origins, NEW body \in Bodies,
           NEW retry \in BOOLEAN
    PROVE  LET n == Insert(m, i, origin, body, retry) IN
           /\ Keeps(m, n, {})
           /\ \A id \in HeldIds(n) \ HeldIds(m) :
                 /\ id = i /\ n.rows[id].origin = origin /\ n.rows[id].body = body
                 /\ n.rows[id].state = "live" /\ n.rows[id].archived = 0
           /\ InsertVerdict(m, i, origin, body, retry) \in {"stored", "retried"} => i \in HeldIds(n)
<1> DEFINE n == Insert(m, i, origin, body, retry)
           stored == InsertVerdict(m, i, origin, body, retry) = "stored"
           new == NewRow(origin, body)
<1>1. Keeps(m, m, {})
  BY DEF Keeps
<1>2. CASE ~stored
  BY <1>1, <1>2 DEF Insert, InsertVerdict
<1>3. CASE stored
  <2>1. m \in MailboxState /\ i \notin HeldIds(m)
    BY <1>3 DEF Sound, InsertVerdict
  <2>2. \A id \in Ids : n.rows[id] = IF id = i THEN new ELSE m.rows[id]
    BY <1>3, <2>1 DEF Insert, MailboxState
  <2>3. new.state = "live" /\ new.origin = origin /\ new.body = body /\ new.archived = 0
    BY DEF NewRow
  <2> HIDE DEF n, new
  <2>4. HeldIds(n) = HeldIds(m) \cup {i}
    BY <2>2, <2>3 DEF HeldIds
  <2> QED
    BY <2>1, <2>2, <2>3, <2>4 DEF Keeps, HeldIds, n
<1> QED
  BY <1>2, <1>3

\* An acknowledgment keeps every row.
LEMMA AckKeeps ==
    ASSUME NEW m, Sound(m), NEW ids \in SUBSET Ids
    PROVE  Keeps(m, Acknowledge(m, ids), ids) /\ HeldIds(Acknowledge(m, ids)) = HeldIds(m)
<1> DEFINE n == Acknowledge(m, ids)
           live == ids \cap LiveIds(m)
<1>1. \A id \in Ids : n.rows[id] = IF id \in live THEN AckRow(m.rows[id]) ELSE m.rows[id]
  BY DEF Acknowledge
<1>2. ASSUME NEW id \in live
      PROVE  /\ id \in HeldIds(m) /\ AckRow(m.rows[id]).state = "acknowledged"
             /\ AckRow(m.rows[id]).origin = m.rows[id].origin
             /\ AckRow(m.rows[id]).body \in {m.rows[id].body, NoBody}
             /\ AckRow(m.rows[id]).archived = m.rows[id].archived
  <2>1. id \in Ids /\ id \in HeldIds(m) /\ m.rows[id] \in Row
    BY HeldIsSound DEF LiveIds, RowSound
  <2> QED
    BY <2>1 DEF AckRow, Row
<1> HIDE DEF n, live
<1>3. HeldIds(n) = HeldIds(m)
  BY <1>1, <1>2 DEF HeldIds
<1> QED
  BY <1>1, <1>2, <1>3 DEF Keeps, HeldIds, n, live

\* So does time passing.
LEMMA AgeKeeps ==
    ASSUME NEW m, Sound(m), NEW i \in HeldIds(m)
    PROVE  Keeps(m, AgeRow(m, i), {}) /\ HeldIds(AgeRow(m, i)) = HeldIds(m)
<1> DEFINE n == AgeRow(m, i)
           new == [m.rows[i] EXCEPT !.due = TRUE]
<1>1. m \in MailboxState /\ i \in Ids /\ m.rows[i] \in Row
  BY HeldIsSound DEF Sound, HeldIds, RowSound
<1>2. \A id \in Ids : n.rows[id] = IF id = i THEN new ELSE m.rows[id]
  BY <1>1 DEF AgeRow, MailboxState
<1>3. /\ new.state = m.rows[i].state /\ new.origin = m.rows[i].origin /\ new.body = m.rows[i].body
      /\ new.archived = m.rows[i].archived
  BY <1>1 DEF Row
<1> HIDE DEF n, new
<1>4. HeldIds(n) = HeldIds(m)
  BY <1>2, <1>3 DEF HeldIds
<1> QED
  BY <1>2, <1>3, <1>4 DEF Keeps, HeldIds, n

\* A confirmation adds no row, and takes one away only where it names its
\* second version, or the collision of its id.
LEMMA DoneKeeps ==
    ASSUME NEW m, Sound(m), NEW D \in SUBSET Done
    PROVE  LET n == ArchiveDone(m, D) IN
           /\ HeldIds(n) \subseteq HeldIds(m)
           /\ \A id \in HeldIds(n) : /\ n.rows[id].origin = m.rows[id].origin
                                     /\ n.rows[id].body \in {m.rows[id].body, NoBody}
                                     /\ n.rows[id].state = m.rows[id].state
                                     /\ \/ n.rows[id].archived = m.rows[id].archived
                                        \/ \E d \in D : d.id = id /\ ~d.collision
           /\ \A id \in HeldIds(m) \ HeldIds(n) :
                 /\ m.rows[id].state = "acknowledged"
                 /\ \E d \in D : d.id = id /\ (d.collision \/ d.version = 2)
<1> DEFINE mine(id) == {d \in D : d.id = id}
           n == ArchiveDone(m, D)
<1>1. m \in MailboxState
  BY DEF Sound
<1>2. n.rows = [id \in Ids |-> IF m.rows[id].state = "none" \/ mine(id) = {}
                               THEN m.rows[id] ELSE Confirmed(m.rows[id], mine(id))]
  BY <1>1 DEF ArchiveDone, MailboxState
<1>3. ASSUME NEW id \in Ids
      PROVE  \/ n.rows[id] = m.rows[id]
             \/ /\ id \in HeldIds(m) /\ n.rows[id].state = "none"
                /\ m.rows[id].state = "acknowledged"
                /\ \E d \in D : d.id = id /\ (d.collision \/ d.version = 2)
             \/ /\ id \in HeldIds(m) /\ n.rows[id].origin = m.rows[id].origin
                /\ n.rows[id].body \in {m.rows[id].body, NoBody}
                /\ n.rows[id].state = m.rows[id].state
                /\ \/ n.rows[id].archived = m.rows[id].archived
                   \/ \E d \in D : d.id = id /\ ~d.collision
  <2>1. CASE m.rows[id].state = "none" \/ mine(id) = {}
    BY <1>2, <2>1
  <2>2. CASE ~(m.rows[id].state = "none" \/ mine(id) = {})
    <3> DEFINE row == m.rows[id]
    <3>1. id \in HeldIds(m) /\ row \in Row /\ RowVersionIsChange(row)
      BY <2>2, HeldIsSound DEF HeldIds, RowSound
    <3>2. n.rows[id] = Confirmed(row, mine(id))
      BY <1>2, <2>2
    <3>3. CASE /\ row.state = "acknowledged"
               /\ \E d \in mine(id) : d.collision \/ d.version >= row.version
      <4>1. n.rows[id] = NoRow
        BY <3>2, <3>3 DEF Confirmed
      <4>2. row.version = 2
        BY <3>1, <3>3 DEF RowVersionIsChange
      <4>3. \A d \in D : d.version \in 1 .. 2
        BY DEF Done, Versions
      <4>4. PICK d \in mine(id) : d.collision \/ d.version >= 2
        BY <3>3, <4>2
      <4>5. d \in D /\ d.id = id /\ (d.collision \/ d.version = 2)
        BY <4>3, <4>4
      <4>6. row = m.rows[id]
        OBVIOUS
      <4> HIDE DEF n, mine, row
      <4> QED
        BY <3>1, <3>3, <4>1, <4>5, <4>6 DEF NoRow
    <3>4. CASE ~(/\ row.state = "acknowledged"
                 /\ \E d \in mine(id) : d.collision \/ d.version >= row.version)
      <4> DEFINE plain == {d \in mine(id) : ~d.collision}
                 new == n.rows[id]
      <4>1. /\ new.origin = row.origin /\ new.body \in {row.body, NoBody} /\ new.state = row.state
            /\ row.state = "live" /\ plain = {} => new.archived = row.archived
        BY <3>1, <3>2, <3>4 DEF Confirmed, Row
      <4>2. row.state = "acknowledged" => \E d \in mine(id) : ~d.collision
        BY <2>2, <3>4
      <4>3. row.state \in {"live", "acknowledged"}
        BY <3>1 DEF Row
      <4>4. new.archived = row.archived \/ \E d \in D : d.id = id /\ ~d.collision
        <5> HIDE DEF new, row
        <5>1. CASE plain = {} /\ row.state = "live"
          BY <4>1, <5>1
        <5>2. CASE plain # {}
          BY <5>2
        <5>3. CASE row.state = "acknowledged"
          BY <4>2, <5>3
        <5> QED
          BY <4>3, <5>1, <5>2, <5>3
      <4> HIDE DEF plain, mine
      <4> QED
        BY <3>1, <4>1, <4>4
    <3> QED
      BY <3>3, <3>4
  <2> QED
    BY <2>1, <2>2
<1> HIDE DEF n
<1> QED
  BY <1>3 DEF HeldIds, n

-----------------------------------------------------------------------------
(* Where everything comes from *)

\* A send of this workload put this id into this hub, from this origin; what
\* is left of its body is the body or nothing.
SentAs(id, r, origin, body) ==
    \E s \in Sends \cap work.calls :
        s.id = id /\ s.hub = r /\ s.origin = origin /\ body \in {s.body, NoBody}

RowsSent(r, m) ==
    \A id \in HeldIds(m) : /\ SentAs(id, r, m.rows[id].origin, m.rows[id].body)
                           /\ m.rows[id].state = "acknowledged" => AckMade(id, r)

\* Of a message the origin and the body, read from the hub later, may be of two
\* sends; so may those of a row of D1.
MsgSent(m) ==
    /\ SentAs(m.id, m.hub, m.origin, NoBody)
    /\ \E origin \in Origins : SentAs(m.id, m.hub, origin, m.body)
    /\ m.change = IF m.version = 1 THEN "insert" ELSE "acknowledge"
    /\ m.change = "acknowledge" => AckAsked(m.id, m.hub)

\* A row of D1 alone, version 0, is of a paid send.
PaidFor(id, r) == \E s \in Sends \cap work.calls : s.id = id /\ s.hub = r /\ s.paid

CopySent(id, copy) ==
    copy.state # "none" =>
        /\ SentAs(id, copy.recipient, copy.origin, NoBody)
        /\ \E origin \in Origins : SentAs(id, copy.recipient, origin, copy.body)
        /\ copy.version = 2 => copy.state = "acknowledged"
        /\ copy.version = 0 => PaidFor(id, copy.recipient)

HubsSound == \A r \in Hubs : Sound(mail[r])

AllSent ==
    /\ \A c \in Calls : calls[c] # "new" => c \in work.calls
    /\ \A h \in hops : h.call \in work.calls /\ calls[h.call] # "new"
    /\ \A l \in legacy : calls[l.hop.call] # "new" /\ l.ids \subseteq l.hop.call.ids
    /\ \A r \in Hubs : RowsSent(r, mail[r])
    /\ \A m \in queue : MsgSent(m)
    /\ \A c \in Consumers : \A m \in pass[c].batch : MsgSent(m)
    /\ \A id \in Ids : CopySent(id, d1[id])

\* Only the workload's consumers have passes under way, and they write only
\* with every body read.
Working ==
    \A c \in Consumers :
        /\ pass[c].step # "idle" => c \in work.consumers
        /\ pass[c].step = "write" => \A m \in pass[c].batch : ~NeedsBody(m)

Base == TypeOK /\ HubsSound /\ AllSent /\ Working

\* What the workload asks for is typed.
LEMMA AskedTyped ==
    ASSUME NEW s \in Sends
    PROVE  /\ s \in Calls /\ s.hub \in Hubs /\ s.id \in Ids /\ s.origin \in Origins
           /\ s.body \in Bodies /\ s.paid \in BOOLEAN
BY CallsTyped DEF Send, Calls

\* What was asked is of the workload.
LEMMA MadeIsAsked ==
    ASSUME Base, NEW id, NEW r, AckMade(id, r)
    PROVE  AckAsked(id, r)
BY DEF Base, AllSent, AckMade, AckAsked, Calls

\* archive_message of a row of a hub.
LEMMA MessagesSent ==
    ASSUME Base, NEW r \in Hubs, NEW m, Sound(m), RowsSent(r, m), NEW ids,
           NEW x \in MessagesOf(r, m, ids)
    PROVE  /\ x \in ArchiveMessage /\ MsgSent(x)
           /\ x.hub = r /\ x.id \in HeldIds(m) /\ x.id \in ids
           /\ x.body = NoBody /\ ~x.bodyInHub => m.rows[x.id].archived > 0
<1>1. PICK id \in ids \cap HeldIds(m) : x = MessageOf(r, id, m.rows[id])
  BY DEF MessagesOf
<1> DEFINE row == m.rows[id]
<1>2. id \in Ids /\ row \in Row /\ RowVersionIsChange(row)
  BY HeldIsSound DEF HeldIds, RowSound
<1>3. /\ SentAs(id, r, row.origin, row.body)
      /\ row.state = "acknowledged" => AckAsked(id, r)
  BY MadeIsAsked DEF RowsSent
<1> HIDE DEF row
<1>4. /\ x.hub = r /\ x.id = id /\ x.version = row.version /\ x.origin = row.origin
      /\ x.change = IF row.state = "live" THEN "insert" ELSE "acknowledge"
      /\ x.body = IF row.body \in LongBodies THEN NoBody ELSE row.body
  BY <1>1 DEF MessageOf, row
<1>5. x \in ArchiveMessage
  <2>1. (IF row.body \in LongBodies THEN NoBody ELSE row.body) \in Bodies \cup {NoBody}
    BY <1>2 DEF Row
  <2>2. (IF row.state = "live" THEN "insert" ELSE "acknowledge") \in {"insert", "acknowledge"}
    OBVIOUS
  <2>3. (row.body \in LongBodies) \in BOOLEAN
    OBVIOUS
  <2>4. row.version \in Versions /\ row.origin \in Origins
    BY <1>2 DEF Row
  <2> QED
    BY <1>1, <1>2, <2>1, <2>2, <2>3, <2>4 DEF MessageOf, row, ArchiveMessage
<1>6. /\ x.change = IF x.version = 1 THEN "insert" ELSE "acknowledge"
      /\ x.change = "acknowledge" => AckAsked(x.id, x.hub)
  BY <1>2, <1>3, <1>4 DEF RowVersionIsChange, Row
<1>7. SentAs(x.id, x.hub, x.origin, x.body) /\ SentAs(x.id, x.hub, x.origin, NoBody)
  BY <1>3, <1>4 DEF SentAs
<1>8. x.origin \in Origins
  BY <1>2, <1>4 DEF Row
<1>9. x.body = NoBody /\ ~x.bodyInHub => row.archived > 0
  <2>1. x.bodyInHub = (row.body \in LongBodies)
    BY <1>1 DEF MessageOf, row
  <2>2. RowKeepsBody(row)
    BY HeldRow DEF row
  <2> QED
    BY <1>4, <2>1, <2>2 DEF RowKeepsBody
<1> QED
  BY <1>1, <1>4, <1>5, <1>6, <1>7, <1>8, <1>9 DEF MsgSent, row

\* What a step makes of the hubs' rows and of the queue: the hubs stay sound,
\* a row goes only once acknowledged and by what a post in flight tells of it,
\* is archived by such a post, and a message new in the queue is that of a row
\* still held, without the body only if that is archived or to be read.
ToldGone(r, id) ==
    \E p \in posts : p.hub = r /\ \E d \in p.done : d.id = id /\ (d.collision \/ d.version = 2)

ToldArchived(r, id) == \E p \in posts : p.hub = r /\ \E d \in p.done : d.id = id /\ ~d.collision

Fresh(m) ==
    /\ m \in ArchiveMessage /\ MsgSent(m) /\ m.id \in HeldIds(mail'[m.hub])
    /\ m.body = NoBody /\ ~m.bodyInHub => mail'[m.hub].rows[m.id].archived > 0

MailStep ==
    /\ mail' \in [Hubs -> MailboxState]
    /\ \A q \in Hubs : Sound(mail'[q]) /\ RowsSent(q, mail'[q])
    /\ \A q \in Hubs : \A id \in HeldIds(mail[q]) :
          id \in HeldIds(mail'[q]) \/ (ToldGone(q, id) /\ mail[q].rows[id].state = "acknowledged")
    /\ \A q \in Hubs : \A id \in HeldIds(mail'[q]) :
          \/ mail'[q].rows[id].archived = 0 \/ ToldArchived(q, id)
          \/ id \in HeldIds(mail[q]) /\ mail[q].rows[id].archived > 0
    /\ \A m \in queue' : m \in queue \/ Fresh(m)

\* A step that leaves the hubs alone and puts nothing in the queue.
LEMMA MailStays ==
    ASSUME Base, mail' = mail, queue' \subseteq queue
    PROVE  MailStep
<1>1. mail \in [Hubs -> MailboxState] /\ HubsSound /\ \A q \in Hubs : RowsSent(q, mail[q])
  BY DEF Base, TypeOK, AllSent
<1>2. mail' \in [Hubs -> MailboxState]
  BY <1>1
<1>3. \A q \in Hubs : Sound(mail'[q]) /\ RowsSent(q, mail'[q])
  BY <1>1 DEF HubsSound
<1>4. \A q \in Hubs : \A id \in HeldIds(mail[q]) : id \in HeldIds(mail'[q])
  OBVIOUS
<1>5. \A q \in Hubs : \A id \in HeldIds(mail'[q]) :
        mail'[q].rows[id].archived = 0 \/ (id \in HeldIds(mail[q]) /\ mail[q].rows[id].archived > 0)
  BY <1>1, HeldRow DEF HubsSound
<1> QED
  BY <1>2, <1>3, <1>4, <1>5 DEF MailStep

\* A handler of one hub, and what it enqueues: rows kept and rows new.
LEMMA Handled ==
    ASSUME Base, NEW r \in Hubs, NEW after, mail' = [mail EXCEPT ![r] = after],
           Sound(after), RowsSent(r, after), HeldIds(mail[r]) \subseteq HeldIds(after),
           \A id \in HeldIds(after) :
              IF id \in HeldIds(mail[r]) THEN after.rows[id].archived = mail[r].rows[id].archived
              ELSE after.rows[id].archived = 0,
           NEW msgs, Enqueue(msgs),
           \A m \in msgs : /\ m \in ArchiveMessage /\ MsgSent(m) /\ m.hub = r /\ m.id \in HeldIds(after)
                           /\ m.body = NoBody /\ ~m.bodyInHub => after.rows[m.id].archived > 0
    PROVE  MailStep
<1>1. mail \in [Hubs -> MailboxState] /\ HubsSound /\ \A q \in Hubs : RowsSent(q, mail[q])
  BY DEF Base, TypeOK, AllSent
<1>2. after \in MailboxState
  BY DEF Sound
<1>3. mail'[r] = after /\ \A q \in Hubs : q # r => mail'[q] = mail[q]
  BY <1>1
<1>4. mail' \in [Hubs -> MailboxState]
  BY <1>1, <1>2
<1>5. \A q \in Hubs : Sound(mail'[q]) /\ RowsSent(q, mail'[q])
  BY <1>1, <1>3 DEF HubsSound
<1>6. \A q \in Hubs : HeldIds(mail[q]) \subseteq HeldIds(mail'[q])
  BY <1>3
<1>7. \A q \in Hubs : \A id \in HeldIds(mail'[q]) :
        mail'[q].rows[id].archived = 0 \/ (id \in HeldIds(mail[q]) /\ mail[q].rows[id].archived > 0)
  <2>1. \A q \in Hubs : \A id \in HeldIds(mail[q]) : mail[q].rows[id].archived \in 0 .. 2
    BY <1>1, HeldRow DEF HubsSound
  <2> QED
    BY <1>3, <2>1
<1>8. \A m \in queue' : m \in queue \/ m \in msgs
  BY DEF Enqueue
<1>9. \A m \in msgs : Fresh(m)
  BY <1>3 DEF Fresh
<1> QED
  BY <1>4, <1>5, <1>6, <1>7, <1>8, <1>9 DEF MailStep

\* Rows kept are sent as they were.
LEMMA KeptRowsSent ==
    ASSUME NEW r, NEW m, NEW n, NEW acked, RowsSent(r, m), Keeps(m, n, acked),
           HeldIds(n) \subseteq HeldIds(m), \A id \in acked : AckMade(id, r)
    PROVE  RowsSent(r, n)
<1> SUFFICES ASSUME NEW id \in HeldIds(n)
             PROVE  /\ SentAs(id, r, n.rows[id].origin, n.rows[id].body)
                    /\ n.rows[id].state = "acknowledged" => AckMade(id, r)
  BY DEF RowsSent
<1>1. /\ SentAs(id, r, m.rows[id].origin, m.rows[id].body)
      /\ m.rows[id].state = "acknowledged" => AckMade(id, r)
  BY DEF RowsSent
<1>2. /\ n.rows[id].origin = m.rows[id].origin /\ n.rows[id].body \in {m.rows[id].body, NoBody}
      /\ n.rows[id].state = m.rows[id].state \/ id \in acked
  BY DEF Keeps
<1> QED
  BY <1>1, <1>2 DEF SentAs

\* The hub of a handler after its replay.
LEMMA Replays ==
    ASSUME Base, NEW r \in Hubs, NEW T \in Takeable(mail[r])
    PROVE  LET before == TakeOwedDue(mail[r], T) IN
           /\ Sound(mail[r]) /\ RowsSent(r, mail[r])
           /\ Sound(before) /\ HeldIds(before) = HeldIds(mail[r]) /\ RowsSent(r, before)
           /\ \A id \in HeldIds(before) : before.rows[id].archived = mail[r].rows[id].archived
<1> DEFINE before == TakeOwedDue(mail[r], T)
<1>1. Sound(mail[r]) /\ RowsSent(r, mail[r])
  BY DEF Base, HubsSound, AllSent
<1>2. Sound(before) /\ HeldIds(before) = HeldIds(mail[r]) /\ Keeps(mail[r], before, {})
  BY <1>1, TakeForward, TakeKeeps
<1> HIDE DEF before
<1>3. RowsSent(r, before)
  BY <1>1, <1>2, KeptRowsSent
<1>4. \A id \in HeldIds(before) : before.rows[id].archived = mail[r].rows[id].archived
  BY <1>2 DEF Keeps
<1> QED
  BY <1>1, <1>2, <1>3, <1>4 DEF before

\* An insert's hop leaves the hub's rows sent, and queues only them.
LEMMA InsertMails ==
    ASSUME Base, NEW hop \in hops, HandleInsert(hop)
    PROVE  MailStep
<1> DEFINE s == hop.call
           r == s.hub
<1>1. s \in Sends \cap work.calls /\ hop.retry \in BOOLEAN
  BY DEF HandleInsert, Base, AllSent, TypeOK, Hop
<1>2. r \in Hubs /\ s.id \in Ids /\ s.origin \in Origins /\ s.body \in Bodies
  BY <1>1, AskedTyped
<1>3. PICK T \in Takeable(mail[r]) :
          LET before  == TakeOwedDue(mail[r], T)
              verdict == InsertVerdict(before, s.id, s.origin, s.body, hop.retry)
              after   == Insert(before, s.id, s.origin, s.body, hop.retry)
          IN  /\ mail' = [mail EXCEPT ![r] = after]
              /\ Enqueue(MessagesOf(r, before, T) \cup
                         MessagesOf(r, after, IF verdict = "stored" THEN {s.id} ELSE {}))
  BY DEF HandleInsert
<1> DEFINE before  == TakeOwedDue(mail[r], T)
           after   == Insert(before, s.id, s.origin, s.body, hop.retry)
           ids == IF InsertVerdict(before, s.id, s.origin, s.body, hop.retry) = "stored"
                  THEN {s.id} ELSE {}
           msgs == MessagesOf(r, before, T) \cup MessagesOf(r, after, ids)
<1>4. mail' = [mail EXCEPT ![r] = after] /\ Enqueue(msgs)
  BY <1>3
<1>5. /\ Sound(before) /\ HeldIds(before) = HeldIds(mail[r]) /\ RowsSent(r, before)
      /\ \A id \in HeldIds(before) : before.rows[id].archived = mail[r].rows[id].archived
  BY <1>2, Replays
<1> HIDE DEF before, s, r
<1>6. /\ Sound(after) /\ Keeps(before, after, {})
      /\ \A id \in HeldIds(after) \ HeldIds(before) :
            /\ id = s.id /\ after.rows[id].origin = s.origin /\ after.rows[id].body = s.body
            /\ after.rows[id].state = "live" /\ after.rows[id].archived = 0
  BY <1>1, <1>2, <1>5, InsertSound, InsertKeeps
<1> HIDE DEF after, ids
<1>7. HeldIds(mail[r]) \subseteq HeldIds(after)
  BY <1>5, <1>6 DEF Keeps
<1>8. RowsSent(r, after)
  <2> SUFFICES ASSUME NEW id \in HeldIds(after)
               PROVE  /\ SentAs(id, r, after.rows[id].origin, after.rows[id].body)
                      /\ after.rows[id].state = "acknowledged" => AckMade(id, r)
    BY DEF RowsSent
  <2>1. CASE id \in HeldIds(before)
    <3>1. /\ SentAs(id, r, before.rows[id].origin, before.rows[id].body)
          /\ before.rows[id].state = "acknowledged" => AckMade(id, r)
      BY <1>5, <2>1 DEF RowsSent
    <3>2. /\ after.rows[id].origin = before.rows[id].origin
          /\ after.rows[id].body \in {before.rows[id].body, NoBody}
          /\ after.rows[id].state = before.rows[id].state
      BY <1>6, <2>1 DEF Keeps
    <3> QED
      BY <3>1, <3>2 DEF SentAs
  <2>2. CASE id \notin HeldIds(before)
    <3>1. /\ id = s.id /\ after.rows[id].origin = s.origin /\ after.rows[id].body = s.body
          /\ after.rows[id].state = "live"
      BY <1>6, <2>2
    <3> QED
      BY <1>1, <3>1 DEF SentAs, r
  <2> QED
    BY <2>1, <2>2
<1>9. \A id \in HeldIds(before) : after.rows[id].archived = before.rows[id].archived
  BY <1>6 DEF Keeps
<1>10. \A id \in HeldIds(after) :
        IF id \in HeldIds(mail[r]) THEN after.rows[id].archived = mail[r].rows[id].archived
        ELSE after.rows[id].archived = 0
  BY <1>5, <1>6, <1>9
<1>11. ASSUME NEW m \in msgs
       PROVE  /\ m \in ArchiveMessage /\ MsgSent(m) /\ m.hub = r /\ m.id \in HeldIds(after)
              /\ m.body = NoBody /\ ~m.bodyInHub => after.rows[m.id].archived > 0
  <2>1. CASE m \in MessagesOf(r, before, T)
    BY <1>2, <1>5, <1>7, <1>9, <2>1, MessagesSent
  <2>2. CASE m \in MessagesOf(r, after, ids)
    BY <1>2, <1>6, <1>8, <2>2, MessagesSent
  <2> QED
    BY <2>1, <2>2
<1> HIDE DEF msgs
<1> QED
  BY <1>2, <1>4, <1>6, <1>7, <1>8, <1>10, <1>11, Handled

\* So does an acknowledgment's hop; it queues the rows it acknowledged.
LEMMA AckMails ==
    ASSUME Base, NEW hop \in hops, HandleAck(hop)
    PROVE  MailStep
<1> DEFINE a == hop.call
           r == a.hub
<1>1. a \in Acks /\ calls[a] # "new" /\ r \in Hubs /\ a.ids \in SUBSET Ids
  BY CallsTyped DEF HandleAck, Ack, Base, AllSent
<1>2. PICK T \in Takeable(mail[r]) :
          LET before  == TakeOwedDue(mail[r], T)
              acked   == Acked(before, a.ids, hop.retry)
              after   == Acknowledge(before, a.ids)
          IN  /\ mail' = [mail EXCEPT ![r] = after]
              /\ Enqueue(MessagesOf(r, before, T) \cup MessagesOf(r, after, acked))
  BY DEF HandleAck
<1> DEFINE before  == TakeOwedDue(mail[r], T)
           after   == Acknowledge(before, a.ids)
           acked   == Acked(before, a.ids, hop.retry)
           msgs == MessagesOf(r, before, T) \cup MessagesOf(r, after, acked)
<1>3. mail' = [mail EXCEPT ![r] = after] /\ Enqueue(msgs)
  BY <1>2
<1>4. /\ Sound(before) /\ HeldIds(before) = HeldIds(mail[r]) /\ RowsSent(r, before)
      /\ \A id \in HeldIds(before) : before.rows[id].archived = mail[r].rows[id].archived
  BY <1>1, Replays
<1> HIDE DEF before, a, r
<1>5. Sound(after) /\ Keeps(before, after, a.ids) /\ HeldIds(after) = HeldIds(before)
  BY <1>1, <1>4, AckSound, AckKeeps
<1> HIDE DEF after, acked
<1>6. RowsSent(r, after)
  <2>1. \A id \in a.ids : AckMade(id, r)
    BY <1>1 DEF AckMade, r
  <2> QED
    BY <1>4, <1>5, <2>1, KeptRowsSent
<1>7. \A id \in HeldIds(before) : after.rows[id].archived = before.rows[id].archived
  BY <1>5 DEF Keeps
<1>8. ASSUME NEW m \in msgs
      PROVE  /\ m \in ArchiveMessage /\ MsgSent(m) /\ m.hub = r /\ m.id \in HeldIds(after)
             /\ m.body = NoBody /\ ~m.bodyInHub => after.rows[m.id].archived > 0
  <2>1. CASE m \in MessagesOf(r, before, T)
    BY <1>1, <1>4, <1>5, <1>7, <2>1, MessagesSent
  <2>2. CASE m \in MessagesOf(r, after, acked)
    BY <1>1, <1>5, <1>6, <2>2, MessagesSent
  <2> QED
    BY <2>1, <2>2
<1>9. \A id \in HeldIds(after) :
        IF id \in HeldIds(mail[r]) THEN after.rows[id].archived = mail[r].rows[id].archived
        ELSE after.rows[id].archived = 0
  BY <1>4, <1>5, <1>7
<1>10. HeldIds(mail[r]) \subseteq HeldIds(after) /\ Sound(after)
  BY <1>4, <1>5
<1> HIDE DEF msgs
<1> QED
  BY <1>1, <1>3, <1>6, <1>8, <1>9, <1>10, Handled

\* So does the hub's part of a listing, which replays what is due.
LEMMA ListMails ==
    ASSUME Base, NEW l \in Lists, ListHub(l)
    PROVE  MailStep
<1> DEFINE r == l.hub
<1>1. r \in Hubs
  BY CallsTyped DEF List
<1>2. PICK T \in Takeable(mail[r]) : /\ mail' = [mail EXCEPT ![r] = TakeOwedDue(@, T)]
                                     /\ Enqueue(MessagesOf(r, mail[r], T))
  BY DEF ListHub
<1> DEFINE after == TakeOwedDue(mail[r], T)
           msgs == MessagesOf(r, mail[r], T)
<1>3. mail' = [mail EXCEPT ![r] = after] /\ Enqueue(msgs)
  BY <1>1, <1>2 DEF Base, TypeOK
<1>4. /\ Sound(mail[r]) /\ RowsSent(r, mail[r])
      /\ Sound(after) /\ HeldIds(after) = HeldIds(mail[r]) /\ RowsSent(r, after)
      /\ \A id \in HeldIds(after) : after.rows[id].archived = mail[r].rows[id].archived
  BY <1>1, Replays
<1> HIDE DEF after, r
<1>5. \A m \in msgs : /\ m \in ArchiveMessage /\ MsgSent(m) /\ m.hub = r /\ m.id \in HeldIds(after)
                      /\ m.body = NoBody /\ ~m.bodyInHub => after.rows[m.id].archived > 0
  BY <1>1, <1>4, MessagesSent
<1>6. /\ HeldIds(mail[r]) \subseteq HeldIds(after)
      /\ \A id \in HeldIds(after) :
            IF id \in HeldIds(mail[r]) THEN after.rows[id].archived = mail[r].rows[id].archived
            ELSE after.rows[id].archived = 0
  BY <1>4
<1> HIDE DEF msgs
<1> QED
  BY <1>1, <1>3, <1>4, <1>5, <1>6, Handled

\* A row whose REPLAY_AFTER_MS passes is otherwise as it was.
LEMMA AgeMails ==
    ASSUME Base, NEW r \in Hubs, NEW id \in Ids, Age(r, id)
    PROVE  MailStep
<1> DEFINE after == AgeRow(mail[r], id)
<1>1. /\ mail' = [mail EXCEPT ![r] = after] /\ queue' = queue \cup {}
      /\ Sound(mail[r]) /\ RowsSent(r, mail[r]) /\ id \in HeldIds(mail[r])
  BY DEF Age, Base, TypeOK, HubsSound, AllSent
<1>2. Sound(after) /\ HeldIds(after) = HeldIds(mail[r]) /\ Keeps(mail[r], after, {})
  BY <1>1, AgeSound, AgeKeeps
<1> HIDE DEF after
<1>3. RowsSent(r, after)
  BY <1>1, <1>2, KeptRowsSent
<1> DEFINE msgs == {}
<1>4. /\ Enqueue(msgs)
      /\ \A m \in msgs : /\ m \in ArchiveMessage /\ MsgSent(m) /\ m.hub = r /\ m.id \in HeldIds(after)
                         /\ m.body = NoBody /\ ~m.bodyInHub => after.rows[m.id].archived > 0
  BY <1>1 DEF Enqueue
<1> HIDE DEF msgs
<1>5. \A i \in HeldIds(after) :
        IF i \in HeldIds(mail[r]) THEN after.rows[i].archived = mail[r].rows[i].archived
        ELSE after.rows[i].archived = 0
  BY <1>2 DEF Keeps
<1>6. /\ mail' = [mail EXCEPT ![r] = after] /\ Sound(after)
      /\ HeldIds(mail[r]) \subseteq HeldIds(after)
  BY <1>1, <1>2
<1> QED
  BY <1>3, <1>4, <1>5, <1>6, Handled

\* A confirmation takes only rows its done names.
LEMMA TellMails ==
    ASSUME Base, NEW p \in posts, Tell(p)
    PROVE  MailStep
<1> DEFINE r == p.hub
           after == ArchiveDone(mail[r], p.done)
<1>1. r \in Hubs /\ p.done \in SUBSET Done /\ mail \in [Hubs -> MailboxState]
  BY DEF Base, TypeOK
<1>2. mail' = [mail EXCEPT ![r] = after] /\ queue' = queue
  BY <1>1 DEF Tell
<1>3. \A q \in Hubs : Sound(mail[q]) /\ RowsSent(q, mail[q])
  BY DEF Base, HubsSound, AllSent
<1>4. /\ Sound(after) /\ HeldIds(after) \subseteq HeldIds(mail[r])
      /\ \A id \in HeldIds(after) : /\ after.rows[id].origin = mail[r].rows[id].origin
                                    /\ after.rows[id].body \in {mail[r].rows[id].body, NoBody}
                                    /\ after.rows[id].state = mail[r].rows[id].state
                                    /\ \/ after.rows[id].archived = mail[r].rows[id].archived
                                       \/ \E d \in p.done : d.id = id /\ ~d.collision
      /\ \A id \in HeldIds(mail[r]) \ HeldIds(after) :
            /\ mail[r].rows[id].state = "acknowledged"
            /\ \E d \in p.done : d.id = id /\ (d.collision \/ d.version = 2)
  BY <1>1, <1>3, DoneSound, DoneKeeps
<1>5. /\ \A id \in HeldIds(mail[r]) \ HeldIds(after) :
            ToldGone(r, id) /\ mail[r].rows[id].state = "acknowledged"
      /\ \A id \in HeldIds(after) :
            after.rows[id].archived = mail[r].rows[id].archived \/ ToldArchived(r, id)
  BY <1>4 DEF ToldGone, ToldArchived
<1> HIDE DEF after
<1>6. RowsSent(r, after)
  <2> SUFFICES ASSUME NEW id \in HeldIds(after)
               PROVE  /\ SentAs(id, r, after.rows[id].origin, after.rows[id].body)
                      /\ after.rows[id].state = "acknowledged" => AckMade(id, r)
    BY DEF RowsSent
  <2>1. /\ SentAs(id, r, mail[r].rows[id].origin, mail[r].rows[id].body)
        /\ mail[r].rows[id].state = "acknowledged" => AckMade(id, r)
    BY <1>1, <1>3, <1>4 DEF RowsSent
  <2> QED
    BY <1>4, <2>1 DEF SentAs
<1> HIDE DEF r
<1>7. mail'[r] = after /\ \A q \in Hubs : q # r => mail'[q] = mail[q]
  BY <1>1, <1>2
<1>8. mail' \in [Hubs -> MailboxState]
  BY <1>1, <1>2, <1>4 DEF Sound
<1>9. \A q \in Hubs : Sound(mail'[q]) /\ RowsSent(q, mail'[q])
  BY <1>3, <1>4, <1>6, <1>7
<1>10. \A q \in Hubs : \A id \in HeldIds(mail'[q]) :
          \/ mail'[q].rows[id].archived = 0 \/ ToldArchived(q, id)
          \/ id \in HeldIds(mail[q]) /\ mail[q].rows[id].archived > 0
  <2>1. \A q \in Hubs : \A id \in HeldIds(mail[q]) : mail[q].rows[id].archived \in 0 .. 2
    BY <1>3, HeldRow
  <2> QED
    BY <1>1, <1>4, <1>5, <1>7, <2>1
<1> QED
  BY <1>2, <1>5, <1>7, <1>8, <1>9, <1>10 DEF MailStep

-----------------------------------------------------------------------------
(* What a step makes of D1 *)

Acknowledges(id) == d1[id].state # "none" /\ d1'[id] = [d1[id] EXCEPT !.state = "acknowledged"]

\* Gone with its transcript, or by an acknowledgment its recipient made.
Deletes(id) ==
    /\ Deletable(id) /\ d1'[id] = NoCopy
    /\ work.ends # {} \/ AckMade(id, d1[id].recipient)

Stores(id) ==
    /\ d1[id].state = "none"
    /\ \E s \in Sends \cap work.calls :
          /\ s.id = id /\ s.paid
          /\ d1'[id] = [state |-> "live", recipient |-> s.hub, origin |-> s.origin,
                        body |-> s.body, version |-> 0]

Upserts(id) ==
    \E c \in Consumers : \E m \in pass[c].batch :
        /\ pass[c].step = "write" /\ pass'[c].step = "idle"
        /\ m.id = id /\ d1'[id] = Upsert(d1[id], m)

\* A row of D1 is left alone, acknowledged, deleted, stored by a paid send, or
\* upserted by a pass of the consumer.
D1Step ==
    /\ DOMAIN d1' = Ids /\ d1' = [id \in Ids |-> d1'[id]]
    /\ \A id \in Ids :
          d1'[id] = d1[id] \/ Acknowledges(id) \/ Deletes(id) \/ Stores(id) \/ Upserts(id)

\* D1 as it was.
LEMMA D1Stays ==
    ASSUME Base, d1' = d1
    PROVE  D1Step
BY DEF D1Step, Base, TypeOK

\* The batch() of a pass writes nothing but upserts of its own messages.
LEMMA WriteSteps ==
    ASSUME Base, NEW c \in Consumers, pass[c].step = "write", pass'[c].step = "idle",
           NEW best \in Bests(pass[c].batch), d1' = Written(best, pass[c].held)
    PROVE  D1Step
<1>1. DOMAIN d1' = Ids /\ d1' = [id \in Ids |-> d1'[id]]
  BY DEF Written
<1>2. ASSUME NEW id \in Ids PROVE d1'[id] = d1[id] \/ Upserts(id)
  <2>1. CASE id \in DOMAIN best /\ Verdict(best[id], best, pass[c].held) = "apply"
    <3>1. d1'[id] = Upsert(d1[id], best[id])
      BY <2>1 DEF Written
    <3>2. best[id] \in pass[c].batch /\ best[id].id = id
      BY <2>1 DEF Bests
    <3> QED
      BY <3>1, <3>2 DEF Upserts
  <2>2. CASE ~(id \in DOMAIN best /\ Verdict(best[id], best, pass[c].held) = "apply")
    BY <2>2 DEF Written
  <2> QED
    BY <2>1, <2>2
<1> QED
  BY <1>1, <1>2 DEF D1Step

\* legacy_acknowledge deletes only where the box is not retained.
LEMMA LegacySteps ==
    ASSUME Base, NEW l \in legacy, LegacyWrite(l)
    PROVE  D1Step
<1> DEFINE r == l.hop.call.hub
<1>1. d1' = [id \in Ids |-> IF id \in l.ids THEN AcknowledgedInD1(d1[id], r) ELSE d1[id]]
  BY DEF LegacyWrite
<1>0. \A id \in l.ids : AckMade(id, r)
  BY DEF Base, TypeOK, AllSent, LegacyAck, AckMade
<1> HIDE DEF r
<1>2. DOMAIN d1' = Ids /\ d1' = [id \in Ids |-> d1'[id]]
  BY <1>1
<1>3. ASSUME NEW id \in Ids
      PROVE  d1'[id] = d1[id] \/ Acknowledges(id) \/ Deletes(id)
  <2>1. CASE id \notin l.ids \/ d1[id].state = "none" \/ d1[id].recipient # r
    BY <1>1, <2>1 DEF AcknowledgedInD1
  <2>2. CASE ~(id \notin l.ids \/ d1[id].state = "none" \/ d1[id].recipient # r)
    <3>1. CASE BoxOf[d1[id].origin] \in RetainedBoxes
      BY <1>1, <2>2, <3>1 DEF AcknowledgedInD1, Acknowledges
    <3>2. CASE BoxOf[d1[id].origin] \notin RetainedBoxes
      <4>1. d1'[id] = NoCopy
        BY <1>1, <2>2, <3>2 DEF AcknowledgedInD1
      <4>2. SentAs(id, d1[id].recipient, d1[id].origin, NoBody)
        BY <2>2 DEF Base, AllSent, CopySent
      <4> QED
        BY <1>0, <2>2, <3>2, <4>1, <4>2 DEF SentAs, Deletes, Deletable
    <3> QED
      BY <3>1, <3>2
  <2> QED
    BY <2>1, <2>2
<1> QED
  BY <1>2, <1>3 DEF D1Step

\* The insert of a paid message writes version 0 where D1 has no row.
LEMMA StoreSteps ==
    ASSUME Base, NEW s \in Sends, StorePaid(s)
    PROVE  D1Step
<1>1. CASE d1[s.id].state # "none"
  BY <1>1, D1Stays DEF StorePaid
<1>2. CASE d1[s.id].state = "none"
  <2> DEFINE new == [state |-> "live", recipient |-> s.hub, origin |-> s.origin,
                     body |-> s.body, version |-> 0]
  <2>1. d1' = [d1 EXCEPT ![s.id] = new] /\ s \in work.calls /\ s.paid
    BY <1>2 DEF StorePaid
  <2>2. DOMAIN d1 = Ids /\ s.id \in Ids
    BY AskedTyped DEF Base, TypeOK
  <2>3. DOMAIN d1' = Ids /\ d1' = [id \in Ids |-> d1'[id]]
    BY <2>1, <2>2
  <2>4. d1'[s.id] = new /\ \A id \in Ids : id # s.id => d1'[id] = d1[id]
    BY <2>1, <2>2
  <2>5. Stores(s.id)
    BY <1>2, <2>1, <2>4 DEF Stores
  <2> QED
    BY <2>3, <2>4, <2>5 DEF D1Step
<1> QED
  BY <1>1, <1>2

\* A purge or the sweep deletes rows where the workload ends transcripts.
LEMMA EndSteps ==
    ASSUME Base, NEW gone, d1' = Without(gone), work.ends # {}
    PROVE  D1Step
<1>1. DOMAIN d1' = Ids /\ d1' = [id \in Ids |-> d1'[id]]
  BY DEF Without
<1>2. \A id \in Ids : d1'[id] = d1[id] \/ Deletes(id)
  BY DEF Without, Deletes, Deletable
<1> QED
  BY <1>1, <1>2 DEF D1Step

-----------------------------------------------------------------------------
(* What a step makes of the consumers' passes and of what they tell *)

SameRow(m, n) ==
    /\ m.id = n.id /\ m.hub = n.hub /\ m.version = n.version /\ m.bodyInHub = n.bodyInHub
    /\ n.body = NoBody => m.body = NoBody

\* A message of a pass is one of the queue or of the same pass; what a pass
\* read of D1 is what D1 held at that step, when it had every body.
PassStep ==
    /\ pass' \in [Consumers -> Pass]
    /\ \A c \in Consumers : pass'[c].step # "idle" => c \in work.consumers
    /\ \A c \in Consumers : \A m \in pass'[c].batch :
          MsgSent(m) /\ \E n \in queue \cup pass[c].batch : SameRow(n, m)
    /\ \A c \in Consumers :
          pass'[c].step = "write" =>
              \/ pass'[c] = pass[c]
              \/ /\ d1' = d1
                 /\ pass'[c].held = [id \in IdsOf(pass'[c].batch) |-> Held(d1[id])]
                 /\ \A m \in pass'[c].batch : ~NeedsBody(m)

\* The passes as they were.
LEMMA PassStays ==
    ASSUME Base, pass' = pass
    PROVE  PassStep
<1>1. pass \in [Consumers -> Pass]
  BY DEF Base, TypeOK
<1>2. \A c \in Consumers : \A m \in pass[c].batch : MsgSent(m)
  BY DEF Base, AllSent
<1>3. \A c \in Consumers : pass[c].step # "idle" => c \in work.consumers
  BY DEF Base, Working
<1>4. \A c \in Consumers : \A m \in pass[c].batch : \E n \in pass[c].batch : SameRow(n, m)
  BY DEF SameRow
<1> QED
  BY <1>1, <1>2, <1>3, <1>4 DEF PassStep

\* One consumer's pass changes, short of its write.
LEMMA PassChanges ==
    ASSUME Base, NEW c \in Consumers, NEW new \in Pass, pass' = [pass EXCEPT ![c] = new],
           new.step # "idle" => c \in work.consumers,
           \A m \in new.batch : MsgSent(m) /\ \E n \in queue \cup pass[c].batch : SameRow(n, m),
           new.step = "write" =>
              /\ d1' = d1 /\ new.held = [id \in IdsOf(new.batch) |-> Held(d1[id])]
              /\ \A m \in new.batch : ~NeedsBody(m)
    PROVE  PassStep
<1>1. pass \in [Consumers -> Pass]
  BY DEF Base, TypeOK
<1>2. \A d \in Consumers : \A m \in pass[d].batch : MsgSent(m)
  BY DEF Base, AllSent
<1>3. \A d \in Consumers : pass[d].step # "idle" => d \in work.consumers
  BY DEF Base, Working
<1>4. \A d \in Consumers : \A m \in pass[d].batch : \E n \in pass[d].batch : SameRow(n, m)
  BY DEF SameRow
<1>5. pass'[c] = new /\ \A d \in Consumers : d # c => pass'[d] = pass[d]
  BY <1>1
<1>6. pass' \in [Consumers -> Pass]
  BY <1>1
<1>7. \A d \in Consumers : pass'[d].step # "idle" => d \in work.consumers
  BY <1>3, <1>5
<1>8. \A d \in Consumers : \A m \in pass'[d].batch :
        MsgSent(m) /\ \E n \in queue \cup pass[d].batch : SameRow(n, m)
  BY <1>2, <1>4, <1>5
<1>9. \A d \in Consumers :
        pass'[d].step = "write" =>
              \/ pass'[d] = pass[d]
              \/ /\ d1' = d1
                 /\ pass'[d].held = [id \in IdsOf(pass'[d].batch) |-> Held(d1[id])]
                 /\ \A m \in pass'[d].batch : ~NeedsBody(m)
  BY <1>5
<1> QED
  BY <1>6, <1>7, <1>8, <1>9 DEF PassStep

\* An idle pass holds nothing.
LEMMA IdleTyped == Idle \in Pass /\ Idle.step = "idle" /\ Idle.batch = {}
<1>1. [id \in {} |-> NotHeld] \in [{} -> [recipient : Hubs, version : 0 .. 2] \cup {NotHeld}]
  OBVIOUS
<1>2. [id \in {} |-> NotHeld] \in Helds
  BY <1>1 DEF Helds
<1> QED
  BY <1>2 DEF Idle, Pass

\* A pass that ends: answered, or its invocation gone.
LEMMA PassEnds ==
    ASSUME Base, NEW c \in Consumers, pass' = [pass EXCEPT ![c] = Idle]
    PROVE  PassStep
BY IdleTyped, PassChanges

\* A pass that goes on with another batch.
LEMMA PassGoesOn ==
    ASSUME Base, NEW c \in Consumers, pass[c].step = "bodies", NEW left \in SUBSET ArchiveMessage,
           pass' = [pass EXCEPT ![c] = IF left = {} THEN Idle ELSE [pass[c] EXCEPT !.batch = left]],
           \A m \in left : MsgSent(m) /\ \E n \in pass[c].batch : SameRow(n, m)
    PROVE  PassStep
<1> DEFINE new == [pass[c] EXCEPT !.batch = left]
<1>1. pass[c] \in Pass /\ c \in work.consumers
  BY DEF Base, TypeOK, Working
<1>2. new \in Pass /\ new.step = "bodies" /\ new.batch = left
  BY <1>1 DEF Pass
<1> HIDE DEF new
<1>3. CASE left = {}
  BY <1>3, PassEnds
<1>4. CASE left # {}
  <2>1. pass' = [pass EXCEPT ![c] = new]
    BY <1>4 DEF new
  <2> QED
    BY <1>1, <1>2, <2>1, PassChanges
<1> QED
  BY <1>3, <1>4

\* A pass begins with messages of the queue.
LEMMA TakePasses ==
    ASSUME Base, NEW c \in Consumers, Take(c)
    PROVE  PassStep
<1>1. PICK batch \in (SUBSET queue) \ {{}} :
          pass' = [pass EXCEPT ![c] = [Idle EXCEPT !.step = "bodies", !.batch = batch]]
  BY DEF Take
<1> DEFINE new == [Idle EXCEPT !.step = "bodies", !.batch = batch]
<1>2. batch \in SUBSET ArchiveMessage /\ \A m \in batch : MsgSent(m)
  BY DEF Base, TypeOK, AllSent
<1>3. new \in Pass /\ new.step = "bodies" /\ new.batch = batch
  BY <1>2, IdleTyped DEF Pass
<1> HIDE DEF new
<1>4. \A m \in batch : \E n \in queue : SameRow(n, m)
  BY DEF SameRow
<1>5. pass' = [pass EXCEPT ![c] = new] /\ c \in work.consumers
  BY <1>1 DEF new, Take
<1> QED
  BY <1>2, <1>3, <1>4, <1>5, PassChanges

\* Reading long bodies back from a hub fills messages with their own text.
LEMMA ReadBodiesPasses ==
    ASSUME Base, NEW c \in Consumers, NEW r \in Hubs, ReadBodies(c, r)
    PROVE  PassStep
<1> DEFINE batch  == pass[c].batch
           want   == {m \in batch : NeedsBody(m) /\ m.hub = r}
           has    == {m \in want : m.id \in HeldIds(mail[r]) /\ mail[r].rows[m.id].body # NoBody}
           fill(m) == [m EXCEPT !.body = mail[r].rows[m.id].body]
           filled == {fill(m) : m \in has}
           left   == (batch \ want) \cup filled
<1>1. pass' = [pass EXCEPT ![c] = IF left = {} THEN Idle ELSE [pass[c] EXCEPT !.batch = left]]
  BY DEF ReadBodies
<1>2. batch \subseteq ArchiveMessage /\ \A m \in batch : MsgSent(m)
  BY DEF Base, TypeOK, AllSent, Pass
<1>3. ASSUME NEW m \in has
      PROVE  fill(m) \in ArchiveMessage /\ MsgSent(fill(m)) /\ SameRow(m, fill(m))
  <2> DEFINE row == mail[r].rows[m.id]
  <2>1. m \in ArchiveMessage /\ MsgSent(m) /\ m.hub = r /\ m.id \in HeldIds(mail[r])
    BY <1>2
  <2>2. Sound(mail[r]) /\ RowsSent(r, mail[r]) /\ m.id \in Ids
    BY <2>1 DEF Base, HubsSound, AllSent, HeldIds
  <2>3. row \in Row /\ SentAs(m.id, r, row.origin, row.body)
    BY <2>1, <2>2, HeldIsSound DEF RowSound, RowsSent
  <2>4. row.body \in Bodies \cup {NoBody} /\ row.origin \in Origins
    BY <2>3 DEF Row
  <2> HIDE DEF row
  <2>5. /\ fill(m) \in ArchiveMessage /\ fill(m).id = m.id /\ fill(m).hub = r
        /\ fill(m).origin = m.origin /\ fill(m).version = m.version
        /\ fill(m).change = m.change /\ fill(m).body = row.body
        /\ fill(m).bodyInHub = m.bodyInHub
    BY <2>1, <2>4 DEF ArchiveMessage, row
  <2>6. row.body # NoBody
    BY DEF row
  <2> HIDE DEF fill
  <2> QED
    BY <2>1, <2>3, <2>4, <2>5, <2>6 DEF MsgSent, SameRow
<1> HIDE DEF fill, has
<1>4. left \in SUBSET ArchiveMessage
  BY <1>2, <1>3
<1>5. \A m \in left : MsgSent(m) /\ \E n \in batch : SameRow(n, m)
  <2>1. \A m \in batch : SameRow(m, m)
    BY DEF SameRow
  <2>2. \A m \in has : m \in batch
    BY DEF has
  <2> QED
    BY <1>2, <1>3, <2>1, <2>2
<1> HIDE DEF left, want, filled
<1> QED
  BY <1>1, <1>4, <1>5, PassGoesOn DEF ReadBodies

\* A hub that does not answer leaves its messages to the queue.
LEMMA BodiesFailPasses ==
    ASSUME Base, NEW c \in Consumers, NEW r \in Hubs, BodiesFail(c, r)
    PROVE  PassStep
<1> DEFINE left == pass[c].batch \ {m \in pass[c].batch : NeedsBody(m) /\ m.hub = r}
<1>1. pass' = [pass EXCEPT ![c] = IF left = {} THEN Idle ELSE [pass[c] EXCEPT !.batch = left]]
  BY DEF BodiesFail
<1>2. pass[c].batch \subseteq ArchiveMessage /\ \A m \in pass[c].batch : MsgSent(m)
  BY DEF Base, TypeOK, AllSent, Pass
<1>3. left \in SUBSET ArchiveMessage
  BY <1>2
<1>4. \A m \in left : MsgSent(m) /\ \E n \in pass[c].batch : SameRow(n, m)
  BY <1>2 DEF SameRow
<1> HIDE DEF left
<1> QED
  BY <1>1, <1>3, <1>4, PassGoesOn DEF BodiesFail

\* The read of what D1 holds is so when it is made.
LEMMA ReadHeldPasses ==
    ASSUME Base, NEW c \in Consumers, ReadHeld(c)
    PROVE  PassStep
<1> DEFINE batch == pass[c].batch
           held == [id \in IdsOf(batch) |-> Held(d1[id])]
           new == [pass[c] EXCEPT !.step = "write", !.held = held]
<1>1. pass \in [Consumers -> Pass] /\ pass[c] \in Pass /\ c \in work.consumers
  BY DEF Base, TypeOK, Working, ReadHeld
<1>2. pass' = [pass EXCEPT ![c] = new] /\ d1' = d1
  BY <1>1 DEF ReadHeld
<1>3. held \in Helds
  <2>1. IdsOf(batch) \in SUBSET Ids
    BY <1>1 DEF IdsOf, Pass, ArchiveMessage
  <2>2. \A id \in Ids : Held(d1[id]) \in [recipient : Hubs, version : 0 .. 2] \cup {NotHeld}
    BY DEF Base, TypeOK, Held, Copy, NoCopy
  <2>3. held \in [IdsOf(batch) -> [recipient : Hubs, version : 0 .. 2] \cup {NotHeld}]
    BY <2>1, <2>2
  <2> QED
    BY <2>1, <2>3 DEF Helds
<1>4. new \in Pass /\ new.step = "write" /\ new.batch = batch /\ new.held = held
  <2> HIDE DEF held
  <2> QED
    BY <1>1, <1>3 DEF Pass
<1> HIDE DEF new
<1>5. \A m \in batch : MsgSent(m) /\ ~NeedsBody(m) /\ \E n \in batch : SameRow(n, m)
  BY DEF Base, AllSent, SameRow, ReadHeld
<1> QED
  BY <1>1, <1>2, <1>4, <1>5, PassChanges

\* What a pass tells a hub follows from its batch and what it read of D1.
Told(p) ==
    \E c \in Consumers :
        /\ pass[c].step = "write"
        /\ \E best \in Bests(pass[c].batch) :
              /\ d1' = Written(best, pass[c].held)
              /\ p.done = DonesFor(p.hub, pass[c].batch, best, pass[c].held)

PostStep ==
    /\ posts' \subseteq [hub : Hubs, done : SUBSET Done]
    /\ \A p \in posts' : p \in posts \/ Told(p)

\* Confirmations only go.
LEMMA PostStays ==
    ASSUME Base, posts' \subseteq posts
    PROVE  PostStep
BY DEF PostStep, Base, TypeOK

\* What a pass tells the hubs is made from its plan and its batch().
LEMMA WritePosts ==
    ASSUME Base, NEW c \in Consumers, Write(c)
    PROVE  PostStep
<1> DEFINE batch == pass[c].batch
           held  == pass[c].held
<1>1. PICK best \in Bests(batch) :
          /\ d1' = Written(best, held)
          /\ posts' = posts \cup {[hub |-> r, done |-> DonesFor(r, batch, best, held)] :
                                    r \in {m.hub : m \in batch}}
  BY DEF Write
<1>2. batch \subseteq ArchiveMessage /\ pass[c].step = "write"
  BY DEF Base, TypeOK, Pass, Write
<1> HIDE DEF batch, held
<1>3. \A r : DonesFor(r, batch, best, held) \in SUBSET Done
  <2> TAKE r
  <2> SUFFICES ASSUME NEW m \in batch
               PROVE  [id |-> m.id, version |-> m.version,
                       collision |-> Verdict(m, best, held) = "collision"] \in Done
    BY DEF DonesFor
  <2>1. m.id \in Ids /\ m.version \in Versions
    BY <1>2 DEF ArchiveMessage
  <2>2. (Verdict(m, best, held) = "collision") \in BOOLEAN
    OBVIOUS
  <2> QED
    BY <2>1, <2>2 DEF Done
<1>4. ASSUME NEW p \in posts', p \notin posts
      PROVE  p \in [hub : Hubs, done : SUBSET Done] /\ Told(p)
  <2>1. PICK r \in {m.hub : m \in batch} : p = [hub |-> r, done |-> DonesFor(r, batch, best, held)]
    BY <1>1, <1>4
  <2>2. r \in Hubs /\ p.hub = r /\ p.done = DonesFor(r, batch, best, held)
    BY <1>2, <2>1 DEF ArchiveMessage
  <2>3. p \in [hub : Hubs, done : SUBSET Done]
    BY <1>3, <2>1, <2>2
  <2> QED
    BY <1>1, <1>2, <2>2, <2>3 DEF Told, batch, held
<1> QED
  BY <1>4 DEF PostStep, Base, TypeOK

-----------------------------------------------------------------------------
(* The calls, their hops, and the listings *)

\* A call asked for stays so, and only by the workload.
CallsGo ==
    /\ calls' \in [Calls -> CallSteps]
    /\ \A c \in Calls : calls'[c] # "new" => c \in work.calls
    /\ \A c \in Calls : calls[c] # "new" => calls'[c] # "new"

\* What a send that is told "stored" was stored as.
PaidCopy(s) ==
    [state |-> "live", recipient |-> s.hub, origin |-> s.origin, body |-> s.body, version |-> 0]

StoredNow(s) == s.id \in HeldIds(mail'[s.hub]) \/ d1'[s.id] = PaidCopy(s)

CallStep ==
    /\ CallsGo
    /\ \A s \in Sends : calls'[s] = "stored" => calls[s] = "stored" \/ StoredNow(s)
    /\ hops' \subseteq Hop /\ \A h \in hops' : h.call \in work.calls /\ calls'[h.call] # "new"
    /\ legacy' \subseteq LegacyAck
    /\ \A l \in legacy' : calls'[l.hop.call] # "new" /\ l.ids \subseteq l.hop.call.ids
    /\ lists' \in [Lists -> Listing]

\* What holds of them before a step.
LEMMA CallBase ==
    ASSUME Base
    PROVE  /\ calls \in [Calls -> CallSteps] /\ \A c \in Calls : calls[c] # "new" => c \in work.calls
           /\ hops \subseteq Hop /\ \A h \in hops : h.call \in work.calls /\ calls[h.call] # "new"
           /\ legacy \subseteq LegacyAck
           /\ \A l \in legacy : calls[l.hop.call] # "new" /\ l.ids \subseteq l.hop.call.ids
           /\ lists \in [Lists -> Listing]
BY DEF Base, TypeOK, AllSent

\* A hop or a legacy acknowledgment under way is of a call.
LEMMA HopCalls ==
    ASSUME Base
    PROVE  (\A h \in hops : h.call \in Calls) /\ \A l \in legacy : l.hop.call \in Calls
BY CallBase DEF Hop, LegacyAck, Calls

\* The hops and acknowledgments under way go on as the calls do.
LEMMA HopsStay ==
    ASSUME Base, CallsGo
    PROVE  /\ \A h \in hops : h \in Hop /\ h.call \in work.calls /\ calls'[h.call] # "new"
           /\ \A l \in legacy : /\ l \in LegacyAck /\ calls'[l.hop.call] # "new"
                                /\ l.ids \subseteq l.hop.call.ids
BY CallBase, HopCalls DEF CallsGo

\* The calls as they were.
LEMMA CallStays ==
    ASSUME Base, calls' = calls, hops' \subseteq hops, legacy' \subseteq legacy, lists' = lists
    PROVE  CallStep
<1>1. CallsGo
  BY CallBase DEF CallsGo
<1> QED
  BY <1>1, CallBase, HopsStay DEF CallStep

\* One call moves on.
LEMMA CallMoves ==
    ASSUME Base, NEW c \in Calls, c \in work.calls, NEW word \in CallSteps, word # "new",
           calls' = [calls EXCEPT ![c] = word]
    PROVE  CallsGo /\ \A d \in Calls : calls'[d] = IF d = c THEN word ELSE calls[d]
BY CallBase DEF CallsGo

\* An answer reaches its caller, or nobody that waits for it any more.
LEMMA Answered ==
    ASSUME Base, NEW hop, hop.call \in Calls, NEW word \in CallSteps, word # "new", Answer(hop, word)
    PROVE  CallsGo /\ \A d \in Calls : calls'[d] = calls[d] \/ (d = hop.call /\ calls'[d] = word)
<1> DEFINE c == hop.call
           next == IF calls[c] = Waiting(hop) THEN word ELSE calls[c]
<1>1. CASE calls' = calls
  BY <1>1, CallBase DEF CallsGo
<1>2. CASE calls' = [calls EXCEPT ![c] = next]
  <2>1. /\ next \in CallSteps /\ (next # "new" => c \in work.calls)
        /\ calls[c] # "new" => next # "new"
        /\ next \in {word, calls[c]}
    BY CallBase DEF Waiting
  <2> HIDE DEF next
  <2> QED
    BY <1>2, <2>1, CallBase DEF CallsGo
<1> QED
  BY <1>1, <1>2, CallBase DEF Answer

\* A call's first hop, and the one that repeats it.
LEMMA PostCalls ==
    ASSUME Base, NEW c \in Calls, Post(c) \/ HopFails(c)
    PROVE  CallStep
<1>1. legacy' = legacy /\ lists' = lists /\ c \in work.calls
  BY CallBase DEF Post, HopFails
<1>2. PICK word \in {"first", "retry", "failed"} : calls' = [calls EXCEPT ![c] = word]
  <2>1. CASE Post(c)
    BY <2>1 DEF Post
  <2>2. CASE HopFails(c)
    <3>1. calls' = [calls EXCEPT ![c] = IF calls[c] = "first" THEN "retry" ELSE "failed"]
      BY <2>2 DEF HopFails
    <3> QED
      BY <3>1
  <2> QED
    BY <2>1, <2>2
<1>3. word \in CallSteps /\ word # "new" /\ word # "stored"
  BY DEF CallSteps
<1>4. CallsGo /\ \A d \in Calls : calls'[d] = IF d = c THEN word ELSE calls[d]
  BY <1>1, <1>2, <1>3, CallMoves
<1>5. \A h \in hops' : h \in hops \/ \E retry \in BOOLEAN : h = [call |-> c, retry |-> retry]
  BY DEF Post, HopFails
<1>6. hops' \subseteq Hop /\ \A h \in hops' : h.call \in work.calls /\ calls'[h.call] # "new"
  BY <1>1, <1>3, <1>4, <1>5, HopsStay DEF Hop
<1>7. \A s \in Sends : calls'[s] = "stored" => calls[s] = "stored"
  BY <1>3, <1>4 DEF Calls
<1> QED
  BY <1>1, <1>4, <1>6, <1>7, CallBase, HopsStay DEF CallStep

\* A send told "stored" by its hub is held there.
LEMMA InsertCalls ==
    ASSUME Base, NEW hop \in hops, HandleInsert(hop)
    PROVE  CallStep
<1> DEFINE s == hop.call
           r == s.hub
<1>1. hop.call \in Calls /\ hops' \subseteq hops /\ legacy' = legacy /\ lists' = lists
  BY HopCalls DEF HandleInsert
<1>2. s \in Sends /\ hop.retry \in BOOLEAN
  BY CallBase DEF HandleInsert, Hop
<1>3. r \in Hubs /\ s.id \in Ids /\ s.origin \in Origins /\ s.body \in Bodies
  BY <1>2, AskedTyped
<1>4. PICK T \in Takeable(mail[r]) :
          LET before  == TakeOwedDue(mail[r], T)
              verdict == InsertVerdict(before, s.id, s.origin, s.body, hop.retry)
              after   == Insert(before, s.id, s.origin, s.body, hop.retry)
          IN  /\ mail' = [mail EXCEPT ![r] = after]
              /\ Answer(hop, IF verdict = "retried" THEN "stored" ELSE verdict)
  BY DEF HandleInsert
<1> DEFINE before  == TakeOwedDue(mail[r], T)
           verdict == InsertVerdict(before, s.id, s.origin, s.body, hop.retry)
           after   == Insert(before, s.id, s.origin, s.body, hop.retry)
           word == IF verdict = "retried" THEN "stored" ELSE verdict
<1>5. mail' = [mail EXCEPT ![r] = after] /\ Answer(hop, word)
  BY <1>4
<1>6. mail'[r] = after
  BY <1>3, <1>5 DEF Base, TypeOK
<1>7. verdict \in {"retried", "duplicate", "full", "stored"}
  BY DEF InsertVerdict
<1>8. Sound(before)
  BY <1>3, Replays
<1> HIDE DEF before
<1>9. verdict \in {"stored", "retried"} => s.id \in HeldIds(after)
  BY <1>2, <1>3, <1>8, InsertKeeps
<1> HIDE DEF verdict, after
<1>10. word \in CallSteps /\ word # "new" /\ (word = "stored" => verdict \in {"stored", "retried"})
  BY <1>7 DEF CallSteps
<1> HIDE DEF word
<1>11. CallsGo /\ \A d \in Calls : calls'[d] = calls[d] \/ (d = hop.call /\ calls'[d] = word)
  BY <1>1, <1>5, <1>10, Answered
<1>12. \A t \in Sends : calls'[t] = "stored" => calls[t] = "stored" \/ StoredNow(t)
  BY <1>6, <1>9, <1>10, <1>11 DEF StoredNow, Calls
<1> QED
  BY <1>1, <1>11, <1>12, CallBase, HopsStay DEF CallStep

\* An acknowledgment answers, or carries on in D1 with what the hub missed.
LEMMA AckCalls ==
    ASSUME Base, NEW hop \in hops, HandleAck(hop)
    PROVE  CallStep
<1>1. /\ hop \in Hop /\ hop.call \in Acks /\ hop.call \in Calls /\ hop.call.ids \in SUBSET Ids
      /\ calls[hop.call] # "new" /\ hops' \subseteq hops /\ lists' = lists
  BY CallBase, CallsTyped DEF HandleAck, Calls, Ack
<1>2. PICK acked :
          LET missing == hop.call.ids \ acked IN
          \/ Answer(hop, "answered") /\ legacy' = legacy
          \/ /\ legacy' = legacy \cup {[hop |-> hop, step |-> "look", ids |-> missing]}
             /\ calls' = calls
  BY DEF HandleAck
<1>3. "answered" \in CallSteps
  BY DEF CallSteps
<1>4. CASE Answer(hop, "answered") /\ legacy' = legacy
  <2>1. CallsGo /\ \A d \in Calls : calls'[d] = calls[d] \/ (d = hop.call /\ calls'[d] = "answered")
    BY <1>1, <1>3, <1>4, Answered
  <2>2. \A s \in Sends : calls'[s] = "stored" => calls[s] = "stored"
    BY <2>1 DEF Calls
  <2> QED
    BY <1>1, <1>4, <2>1, <2>2, CallBase, HopsStay DEF CallStep
<1>5. CASE /\ legacy' = legacy \cup {[hop |-> hop, step |-> "look", ids |-> hop.call.ids \ acked]}
           /\ calls' = calls
  <2> DEFINE new == [hop |-> hop, step |-> "look", ids |-> hop.call.ids \ acked]
  <2>1. hop \in [call : Acks, retry : BOOLEAN]
    BY <1>1 DEF Hop
  <2>2. new \in LegacyAck /\ new.hop = hop /\ new.ids \subseteq hop.call.ids
    BY <1>1, <2>1 DEF LegacyAck
  <2>3. CallsGo
    BY <1>5, CallBase DEF CallsGo
  <2>4. legacy' = legacy \cup {new}
    BY <1>5
  <2> HIDE DEF new
  <2> QED
    BY <1>1, <1>5, <2>2, <2>3, <2>4, CallBase, HopsStay DEF CallStep
<1> QED
  BY <1>2, <1>4, <1>5

\* The acknowledgment in D1: its look, its write, its failure.
LEMMA LegacyCalls ==
    ASSUME Base, NEW l \in legacy, LegacyLook(l) \/ LegacyWrite(l) \/ LegacyFails(l)
    PROVE  CallStep
<1>1. l \in LegacyAck /\ l.hop.call \in Calls
  BY CallBase, HopCalls
<1>2. hops' = hops /\ lists' = lists
  BY DEF LegacyLook, LegacyWrite, LegacyFails
<1>3. "answered" \in CallSteps
  BY DEF CallSteps
<1>4. calls' = calls \/ Answer(l.hop, "answered")
  BY DEF LegacyLook, LegacyWrite, LegacyFails
<1>5. CallsGo /\ \A s \in Sends : calls'[s] = "stored" => calls[s] = "stored"
  <2>1. CASE calls' = calls
    BY <2>1, CallBase DEF CallsGo
  <2>2. CASE Answer(l.hop, "answered")
    <3>1. /\ CallsGo
          /\ \A d \in Calls : calls'[d] = calls[d] \/ (d = l.hop.call /\ calls'[d] = "answered")
      BY <1>1, <1>3, <2>2, Answered
    <3> QED
      BY <3>1 DEF Calls
  <2> QED
    BY <1>4, <2>1, <2>2
<1>6. legacy' \subseteq LegacyAck /\ \A k \in legacy' : calls'[k.hop.call] # "new" /\ k.ids \subseteq k.hop.call.ids
  <2>1. CASE LegacyLook(l)
    <3> DEFINE found == l.ids \cap LiveInD1(l.hop.call.hub)
               new == [l EXCEPT !.step = "write", !.ids = found]
    <3>1. new \in LegacyAck /\ new.hop = l.hop /\ new.ids \subseteq l.ids
      BY <1>1 DEF LegacyAck
    <3>2. legacy' \subseteq legacy \cup {new}
      BY <2>1 DEF LegacyLook
    <3> HIDE DEF new
    <3>3. calls'[new.hop.call] # "new" /\ new.ids \subseteq new.hop.call.ids
      BY <1>5, <3>1, HopsStay
    <3> QED
      BY <1>5, <3>1, <3>2, <3>3, HopsStay
  <2>2. CASE LegacyWrite(l) \/ LegacyFails(l)
    BY <1>5, <2>2, HopsStay DEF LegacyWrite, LegacyFails
  <2> QED
    BY <2>1, <2>2
<1> QED
  BY <1>2, <1>5, <1>6, CallBase, HopsStay DEF CallStep

\* A paid send told "stored" is the row of D1.
LEMMA PaidCalls ==
    ASSUME Base, NEW s \in Sends, StorePaid(s)
    PROVE  CallStep
<1>1. "stored" \in CallSteps /\ "duplicate" \in CallSteps /\ s \in Calls
  BY DEF CallSteps, Calls
<1>2. s \in work.calls /\ hops' = hops /\ legacy' = legacy /\ lists' = lists
  BY DEF StorePaid
<1>3. PICK word \in {"stored", "duplicate"} :
        /\ calls' = [calls EXCEPT ![s] = word]
        /\ word = "stored" => d1' = [d1 EXCEPT ![s.id] = PaidCopy(s)]
  <2>1. CASE d1[s.id].state = "none"
    BY <2>1 DEF StorePaid, PaidCopy
  <2>2. CASE d1[s.id].state # "none"
    BY <2>2 DEF StorePaid
  <2> QED
    BY <2>1, <2>2
<1>4. CallsGo /\ \A d \in Calls : calls'[d] = IF d = s THEN word ELSE calls[d]
  <2>1. word \in CallSteps /\ word # "new" /\ calls' = [calls EXCEPT ![s] = word]
    BY <1>1, <1>3
  <2> QED
    BY <1>1, <1>2, <2>1, CallMoves
<1>5. word = "stored" => StoredNow(s)
  BY <1>3, AskedTyped DEF StoredNow, Base, TypeOK
<1>6. \A t \in Sends : calls'[t] = "stored" => calls[t] = "stored" \/ StoredNow(t)
  BY <1>4, <1>5 DEF Calls
<1> QED
  BY <1>2, <1>4, <1>6, CallBase, HopsStay DEF CallStep

\* The three reads of a listing.
LEMMA ListCalls ==
    ASSUME Base, NEW l \in Lists, ListHub(l) \/ ListD1(l) \/ ListMerge(l)
    PROVE  CallStep
<1>1. calls' = calls /\ hops' = hops /\ legacy' = legacy
  BY DEF ListHub, ListD1, ListMerge
<1>2. lists \in [Lists -> Listing] /\ lists[l] \in Listing
  BY CallBase
<1>3. PICK new \in Listing : lists' = [lists EXCEPT ![l] = new]
  <2>1. CASE ListHub(l)
    <3> DEFINE m == mail[l.hub]
               rows == {[id |-> id, body |-> m.rows[id].body] :
                          id \in {x \in LiveIds(m) : BoxOf[m.rows[x].origin] = l.box}}
    <3>1. Sound(m)
      BY CallsTyped DEF List, Base, HubsSound
    <3>2. \A id \in LiveIds(m) : id \in Ids /\ m.rows[id].body \in Bodies \cup {NoBody}
      BY <3>1, HeldIsSound DEF LiveIds, RowSound, Row
    <3>3. lists' = [lists EXCEPT ![l] = [step |-> "d1", d1 |-> {}, rows |-> rows]]
      BY <2>1 DEF ListHub
    <3> HIDE DEF m
    <3>4. rows \subseteq Entry
      BY <3>2 DEF Entry
    <3> HIDE DEF rows
    <3>5. [step |-> "d1", d1 |-> {}, rows |-> rows] \in Listing
      BY <3>4 DEF Listing
    <3> QED
      BY <3>3, <3>5
  <2>2. CASE ListD1(l)
    <3> DEFINE found == {[id |-> id, body |-> d1[id].body] :
                           id \in {x \in LiveInD1(l.hub) : BoxOf[d1[x].origin] = l.box}}
    <3>1. \A id \in LiveInD1(l.hub) : id \in Ids /\ d1[id].body \in Bodies \cup {NoBody}
      BY DEF LiveInD1, Base, TypeOK, Copy, NoCopy
    <3>2. found \subseteq Entry
      BY <3>1 DEF Entry
    <3>3. lists' = [lists EXCEPT ![l].step = "merge", ![l].d1 = found]
      BY <2>2 DEF ListD1
    <3> HIDE DEF found
    <3> DEFINE new == [lists[l] EXCEPT !.step = "merge", !.d1 = found]
    <3>4. new \in Listing
      BY <1>2, <3>2 DEF Listing
    <3>5. lists' = [lists EXCEPT ![l] = new]
      BY <1>2, <3>3
    <3> QED
      BY <3>4, <3>5
  <2>3. CASE ListMerge(l)
    <3> DEFINE merged == Merge(lists[l].d1, lists[l].rows, HeldIds(mail[l.hub]))
    <3>1. merged \subseteq Entry
      BY <1>2 DEF Merge, Listing
    <3>2. lists' = [lists EXCEPT ![l].step = "answered", ![l].d1 = {}, ![l].rows = merged]
      BY <2>3 DEF ListMerge
    <3> HIDE DEF merged
    <3> DEFINE new == [lists[l] EXCEPT !.step = "answered", !.d1 = {}, !.rows = merged]
    <3>3. new \in Listing
      BY <1>2, <3>1 DEF Listing
    <3>4. lists' = [lists EXCEPT ![l] = new]
      BY <1>2, <3>2
    <3> QED
      BY <3>3, <3>4
  <2> QED
    BY <2>1, <2>2, <2>3
<1>4. lists' \in [Lists -> Listing]
  BY <1>2, <1>3
<1>5. CallsGo
  BY <1>1, CallBase DEF CallsGo
<1> QED
  BY <1>1, <1>4, <1>5, CallBase, HopsStay DEF CallStep

-----------------------------------------------------------------------------
(* Every step *)

Step == work' = work /\ MailStep /\ D1Step /\ PassStep /\ PostStep /\ CallStep

\* Every step of the relay is a Step.
LEMMA RelaySteps ==
    ASSUME Base, Next
    PROVE  Step
<1>1. ASSUME NEW c \in Calls, Post(c) \/ HopFails(c) PROVE Step
  <2>1. /\ work' = work /\ mail' = mail /\ d1' = d1 /\ queue' = queue /\ pass' = pass
        /\ posts' = posts
    BY <1>1 DEF Post, HopFails
  <2> QED
    BY <1>1, <2>1, MailStays, D1Stays, PassStays, PostStays, PostCalls DEF Step
<1>2. ASSUME NEW hop \in hops, HandleInsert(hop) PROVE Step
  <2>1. work' = work /\ d1' = d1 /\ pass' = pass /\ posts' = posts
    BY <1>2 DEF HandleInsert
  <2> QED
    BY <1>2, <2>1, InsertMails, D1Stays, PassStays, PostStays, InsertCalls DEF Step
<1>3. ASSUME NEW hop \in hops, HandleAck(hop) PROVE Step
  <2>1. work' = work /\ d1' = d1 /\ pass' = pass /\ posts' = posts
    BY <1>3 DEF HandleAck
  <2> QED
    BY <1>3, <2>1, AckMails, D1Stays, PassStays, PostStays, AckCalls DEF Step
<1>4. ASSUME NEW l \in legacy, LegacyLook(l) \/ LegacyFails(l) PROVE Step
  <2>1. /\ work' = work /\ mail' = mail /\ d1' = d1 /\ queue' = queue /\ pass' = pass
        /\ posts' = posts
    BY <1>4 DEF LegacyLook, LegacyFails
  <2> QED
    BY <1>4, <2>1, MailStays, D1Stays, PassStays, PostStays, LegacyCalls DEF Step
<1>5. ASSUME NEW l \in legacy, LegacyWrite(l) PROVE Step
  <2>1. work' = work /\ mail' = mail /\ queue' = queue /\ pass' = pass /\ posts' = posts
    BY <1>5 DEF LegacyWrite
  <2> QED
    BY <1>5, <2>1, MailStays, LegacySteps, PassStays, PostStays, LegacyCalls DEF Step
<1>6. ASSUME NEW s \in Sends, StorePaid(s) PROVE Step
  <2>1. work' = work /\ mail' = mail /\ queue' = queue /\ pass' = pass /\ posts' = posts
    BY <1>6 DEF StorePaid
  <2> QED
    BY <1>6, <2>1, MailStays, StoreSteps, PassStays, PostStays, PaidCalls DEF Step
<1>7. ASSUME NEW l \in Lists, ListHub(l) PROVE Step
  <2>1. work' = work /\ d1' = d1 /\ pass' = pass /\ posts' = posts
    BY <1>7 DEF ListHub
  <2> QED
    BY <1>7, <2>1, ListMails, D1Stays, PassStays, PostStays, ListCalls DEF Step
<1>8. ASSUME NEW l \in Lists, ListD1(l) \/ ListMerge(l) PROVE Step
  <2>1. /\ work' = work /\ mail' = mail /\ d1' = d1 /\ queue' = queue /\ pass' = pass
        /\ posts' = posts
    BY <1>8 DEF ListD1, ListMerge
  <2> QED
    BY <1>8, <2>1, MailStays, D1Stays, PassStays, PostStays, ListCalls DEF Step
<1>9. ASSUME NEW c \in Consumers, Take(c) \/ ReadHeld(c) PROVE Step
  <2>1. /\ work' = work /\ mail' = mail /\ d1' = d1 /\ queue' = queue /\ posts' = posts
        /\ calls' = calls /\ hops' = hops /\ legacy' = legacy /\ lists' = lists
    BY <1>9 DEF Take, ReadHeld
  <2>2. PassStep
    BY <1>9, TakePasses, ReadHeldPasses
  <2> QED
    BY <2>1, <2>2, MailStays, D1Stays, PostStays, CallStays DEF Step
<1>10. ASSUME NEW c \in Consumers, NEW r \in Hubs, ReadBodies(c, r) \/ BodiesFail(c, r) PROVE Step
  <2>1. /\ work' = work /\ mail' = mail /\ d1' = d1 /\ queue' \subseteq queue /\ posts' = posts
        /\ calls' = calls /\ hops' = hops /\ legacy' = legacy /\ lists' = lists
    BY <1>10 DEF ReadBodies, BodiesFail, Retry
  <2>2. PassStep
    BY <1>10, ReadBodiesPasses, BodiesFailPasses
  <2> QED
    BY <2>1, <2>2, MailStays, D1Stays, PostStays, CallStays DEF Step
<1>11. ASSUME NEW c \in Consumers, Write(c) PROVE Step
  <2>1. /\ work' = work /\ mail' = mail /\ queue' \subseteq queue
        /\ calls' = calls /\ hops' = hops /\ legacy' = legacy /\ lists' = lists
        /\ pass' = [pass EXCEPT ![c] = Idle] /\ pass[c].step = "write"
    BY <1>11 DEF Write
  <2>2. PICK best \in Bests(pass[c].batch) : d1' = Written(best, pass[c].held)
    BY <1>11 DEF Write
  <2>3. pass'[c].step = "idle"
    BY <2>1, IdleTyped DEF Base, TypeOK
  <2> QED
    BY <1>11, <2>1, <2>2, <2>3, MailStays, WriteSteps, PassEnds, WritePosts, CallStays DEF Step
<1>12. ASSUME NEW c \in Consumers, PassFails(c) PROVE Step
  <2>1. /\ work' = work /\ mail' = mail /\ queue' \subseteq queue /\ posts' = posts
        /\ calls' = calls /\ hops' = hops /\ legacy' = legacy /\ lists' = lists
        /\ pass' = [pass EXCEPT ![c] = Idle]
    BY <1>12 DEF PassFails, Retry
  <2>2. D1Step
    <3>1. \/ d1' = d1
          \/ pass[c].step = "write" /\ \E best \in Bests(pass[c].batch) :
                                         d1' = Written(best, pass[c].held)
      BY <1>12 DEF PassFails
    <3>2. pass'[c].step = "idle"
      BY <2>1, IdleTyped DEF Base, TypeOK
    <3> QED
      BY <3>1, <3>2, D1Stays, WriteSteps
  <2> QED
    BY <2>1, <2>2, MailStays, PassEnds, PostStays, CallStays DEF Step
<1>13. ASSUME NEW p \in posts, Tell(p) PROVE Step
  <2>1. /\ work' = work /\ d1' = d1 /\ pass' = pass /\ posts' \subseteq posts
        /\ calls' = calls /\ hops' = hops /\ legacy' = legacy /\ lists' = lists
    BY <1>13 DEF Tell
  <2> QED
    BY <1>13, <2>1, TellMails, D1Stays, PassStays, PostStays, CallStays DEF Step
<1>14. ASSUME NEW p \in posts, TellLost(p) PROVE Step
  <2>1. /\ work' = work /\ mail' = mail /\ queue' = queue /\ d1' = d1 /\ pass' = pass
        /\ posts' \subseteq posts
        /\ calls' = calls /\ hops' = hops /\ legacy' = legacy /\ lists' = lists
    BY <1>14 DEF TellLost
  <2> QED
    BY <2>1, MailStays, D1Stays, PassStays, PostStays, CallStays DEF Step
<1>15. ASSUME NEW r \in Hubs, NEW id \in Ids, Age(r, id) PROVE Step
  <2>1. /\ work' = work /\ d1' = d1 /\ pass' = pass /\ posts' = posts
        /\ calls' = calls /\ hops' = hops /\ legacy' = legacy /\ lists' = lists
    BY <1>15 DEF Age
  <2> QED
    BY <1>15, <2>1, AgeMails, D1Stays, PassStays, PostStays, CallStays DEF Step
<1> QED
  BY <1>1, <1>2, <1>3, <1>4, <1>5, <1>6, <1>7, <1>8, <1>9, <1>10, <1>11, <1>12, <1>13, <1>14,
     <1>15 DEF Next

\* A step that leaves the relay alone but for rows it deletes from D1.
LEMMA QuietSteps ==
    ASSUME Base, UNCHANGED relay,
           d1' = d1 \/ (work.ends # {} /\ \E gone \in SUBSET Ids : d1' = Without(gone))
    PROVE  Step
<1>1. /\ work' = work /\ mail' = mail /\ queue' = queue /\ pass' = pass /\ posts' = posts
      /\ calls' = calls /\ hops' = hops /\ legacy' = legacy /\ lists' = lists
  BY DEF relay
<1>2. D1Step
  BY D1Stays, EndSteps
<1> QED
  BY <1>1, <1>2, MailStays, PassStays, PostStays, CallStays DEF Step

\* Transcripts are ended only where the workload asks for it.
EndsAsked ==
    /\ \A p \in Purges : purges[p].step # "new" => work.ends # {}
    /\ sweep.step # 0 => work.ends # {}

\* A statement of the sweep deletes rows of D1 or leaves it.
LEMMA StatementSteps ==
    ASSUME NEW what \in {"markers", "rows", "boxes", "stale"}, Statement(what)
    PROVE  d1' = d1 \/ \E gone \in SUBSET Ids : d1' = Without(gone)
<1>1. Expired \in SUBSET Ids
  BY DEF Expired, Stored
<1> QED
  BY <1>1 DEF Statement

\* The sweep is four statements.
LEMMA SweepOrderTyped ==
    Len(SweepOrder) = 4 /\ \A n \in 1 .. 4 : SweepOrder[n] \in {"markers", "rows", "boxes", "stale"}
BY DEF SweepOrder

\* Every step of the relay and its transcripts is a Step.
LEMMA Steps ==
    ASSUME Base, TranscriptTypeOK, EndsAsked, TNext
    PROVE  Step
<1>1. CASE Relay
  BY <1>1, RelaySteps DEF Relay
<1>2. ASSUME NEW p \in Purges, PurgeGate(p) \/ PurgeMark(p) PROVE Step
  BY <1>2, QuietSteps DEF PurgeGate, PurgeMark
<1>3. ASSUME NEW p \in Purges, PurgeDelete(p) \/ PurgeFails(p) PROVE Step
  <2>1. Received(p.who, p.box) \in SUBSET Ids
    BY DEF Received, InBox, Stored
  <2>2. work.ends # {} /\ UNCHANGED relay
    BY <1>3 DEF EndsAsked, PurgeDelete, PurgeFails
  <2>3. d1' = d1 \/ d1' = Without(Received(p.who, p.box))
    BY <1>3 DEF PurgeDelete, PurgeFails
  <2> QED
    BY <2>1, <2>2, <2>3, QuietSteps
<1>4. CASE SweepBegins
  BY <1>4, QuietSteps DEF SweepBegins
<1>5. CASE SweepStep \/ SweepFails
  <2>1. UNCHANGED relay /\ work.ends # {} /\ sweep.step \in 1 .. 4
    BY <1>5, SweepOrderTyped DEF SweepStep, SweepFails, EndsAsked, TranscriptTypeOK
  <2>2. d1' = d1 \/ Statement(SweepOrder[sweep.step])
    BY <1>5 DEF SweepStep, SweepFails
  <2> QED
    BY <2>1, <2>2, SweepOrderTyped, StatementSteps, QuietSteps
<1>6. ASSUME NEW r \in Reads, ReadRows(r) \/ ReadMarker(r) PROVE Step
  BY <1>6, QuietSteps DEF ReadRows, ReadMarker
<1>7. ASSUME NEW id \in Ids, RowAges(id) PROVE Step
  BY <1>7, QuietSteps DEF RowAges
<1>8. CASE WindowPasses
  BY <1>8, QuietSteps DEF WindowPasses
<1> QED
  BY <1>1, <1>2, <1>3, <1>4, <1>5, <1>6, <1>7, <1>8 DEF TNext

-----------------------------------------------------------------------------
(* Types and origins are kept *)

\* ARCHIVE_UPSERT_SQL leaves a row of D1 that was sent, as the message was.
LEMMA UpsertSent ==
    ASSUME NEW id \in Ids, NEW was \in Copy \cup {NoCopy}, CopySent(id, was),
           NEW m \in ArchiveMessage, MsgSent(m), m.id = id
    PROVE  Upsert(was, m) \in Copy /\ CopySent(id, Upsert(was, m))
<1> DEFINE new == Upsert(was, m)
           state == IF m.change = "acknowledge" THEN "acknowledged" ELSE "live"
<1>1. /\ m.hub \in Hubs /\ m.version \in 1 .. 2 /\ m.origin \in Origins
      /\ m.body \in Bodies \cup {NoBody} /\ m.change \in {"insert", "acknowledge"}
      /\ m.version = 2 => m.change = "acknowledge"
  BY DEF ArchiveMessage, Versions, MsgSent
<1>2. CASE was.state = "none"
  <2>1. new = [state |-> state, recipient |-> m.hub, origin |-> m.origin, body |-> m.body,
               version |-> m.version]
    BY <1>2 DEF Upsert
  <2>2. state \in {"live", "acknowledged"} /\ (m.version = 2 => state = "acknowledged")
    BY <1>1
  <2> HIDE DEF new, state
  <2>3. new \in Copy
    BY <1>1, <2>1, <2>2 DEF Copy
  <2>4. CopySent(id, new)
    BY <1>1, <2>1, <2>2 DEF CopySent, MsgSent
  <2> QED
    BY <2>3, <2>4 DEF new
<1>3. CASE was.state # "none"
  <2>1. was \in Copy
    BY <1>3 DEF NoCopy
  <2>2. CASE ~(m.version > was.version /\ was.recipient = m.hub)
    BY <1>3, <2>1, <2>2 DEF Upsert
  <2>3. CASE m.version > was.version /\ was.recipient = m.hub
    <3> DEFINE body == IF m.body # NoBody THEN m.body ELSE was.body
               mark == IF m.change = "acknowledge" THEN "acknowledged" ELSE was.state
    <3>1. new = [was EXCEPT !.body = body, !.state = mark, !.version = m.version]
      BY <1>3, <2>3 DEF Upsert
    <3>2. body \in Bodies \cup {NoBody} /\ mark \in {"live", "acknowledged"}
      BY <1>1, <2>1 DEF Copy
    <3>3. m.version = 2 => mark = "acknowledged"
      BY <1>1
    <3>4. \E origin \in Origins : SentAs(id, was.recipient, origin, body)
      BY <1>3, <2>3 DEF CopySent, MsgSent
    <3> HIDE DEF new, body, mark
    <3>5. /\ new \in Copy /\ new.recipient = was.recipient /\ new.origin = was.origin
          /\ new.body = body /\ new.state = mark /\ new.version = m.version
      <4>1. m.version \in 0 .. 2
        BY <1>1
      <4>2. new \in Copy
        BY <2>1, <3>1, <3>2, <4>1 DEF Copy
      <4>3. /\ new.recipient = was.recipient /\ new.origin = was.origin
            /\ new.body = body /\ new.state = mark /\ new.version = m.version
        BY <2>1, <3>1 DEF Copy
      <4> QED
        BY <4>2, <4>3
    <3>6. CopySent(id, new)
      BY <1>1, <1>3, <3>3, <3>4, <3>5 DEF CopySent
    <3> QED
      BY <3>5, <3>6 DEF new
  <2> QED
    BY <2>2, <2>3
<1> QED
  BY <1>2, <1>3

\* The message of an upsert of a pass.
LEMMA PassMessage ==
    ASSUME Base, NEW c \in Consumers, NEW m \in pass[c].batch
    PROVE  m \in ArchiveMessage /\ MsgSent(m)
BY DEF Base, TypeOK, AllSent, Pass

\* Whatever D1 holds was sent, after a step as before.
LEMMA CopiesKept ==
    ASSUME Base, D1Step
    PROVE  /\ d1' \in [Ids -> Copy \cup {NoCopy}]
           /\ \A id \in Ids : CopySent(id, d1'[id])
<1>1. ASSUME NEW id \in Ids
      PROVE  d1'[id] \in Copy \cup {NoCopy} /\ CopySent(id, d1'[id])
  <2>1. d1[id] \in Copy \cup {NoCopy} /\ CopySent(id, d1[id])
    BY DEF Base, TypeOK, AllSent
  <2>2. CASE Acknowledges(id)
    <3>1. d1[id] \in Copy
      BY <2>1, <2>2 DEF Acknowledges, NoCopy
    <3>2. /\ d1'[id] \in Copy /\ d1'[id].recipient = d1[id].recipient
          /\ d1'[id].origin = d1[id].origin /\ d1'[id].body = d1[id].body
          /\ d1'[id].state = "acknowledged"
      BY <2>2, <3>1 DEF Acknowledges, Copy
    <3> QED
      BY <2>1, <2>2, <3>2 DEF CopySent, Acknowledges
  <2>3. CASE Deletes(id)
    BY <2>3 DEF Deletes, CopySent, NoCopy
  <2>4. CASE Stores(id)
    <3>1. PICK s \in Sends \cap work.calls :
            s.id = id /\ s.paid /\ d1'[id] = [state |-> "live", recipient |-> s.hub, origin |-> s.origin,
                                   body |-> s.body, version |-> 0]
      BY <2>4 DEF Stores
    <3>2. s.hub \in Hubs /\ s.origin \in Origins /\ s.body \in Bodies
      BY AskedTyped
    <3>3. d1'[id] \in Copy
      BY <3>1, <3>2 DEF Copy
    <3>4. SentAs(id, s.hub, s.origin, NoBody) /\ SentAs(id, s.hub, s.origin, s.body)
      BY <3>1 DEF SentAs
    <3> QED
      BY <3>1, <3>2, <3>3, <3>4 DEF CopySent, PaidFor
  <2>5. CASE Upserts(id)
    <3>1. PICK c \in Consumers : \E m \in pass[c].batch : m.id = id /\ d1'[id] = Upsert(d1[id], m)
      BY <2>5 DEF Upserts
    <3>2. PICK m \in pass[c].batch : m.id = id /\ d1'[id] = Upsert(d1[id], m)
      BY <3>1
    <3> QED
      BY <2>1, <3>2, PassMessage, UpsertSent
  <2> QED
    BY <2>1, <2>2, <2>3, <2>4, <2>5 DEF D1Step
<1> QED
  BY <1>1 DEF D1Step

\* The workload is chosen once, so what was sent stays so.
LEMMA SentStays ==
    ASSUME work' = work
    PROVE  /\ \A id, r, origin, body : SentAs(id, r, origin, body)' <=> SentAs(id, r, origin, body)
           /\ \A id \in Ids : Deletable(id)' <=> Deletable(id)
           /\ \A id, r : AckAsked(id, r)' <=> AckAsked(id, r)
           /\ \A id, r : PaidFor(id, r)' <=> PaidFor(id, r)
           /\ \A id \in Ids : Contested(id)' <=> Contested(id)
BY DEF SentAs, Deletable, Contested, AckAsked, PaidFor

\* A step keeps Base.
LEMMA BaseKept ==
    ASSUME Base, Step
    PROVE  Base'
<1>1. work' = work /\ MailStep /\ D1Step /\ PassStep /\ PostStep /\ CallStep
  BY DEF Step
<1>2. /\ \A m : MsgSent(m)' <=> MsgSent(m)
      /\ \A id, copy : CopySent(id, copy)' <=> CopySent(id, copy)
  BY <1>1, SentStays DEF MsgSent, CopySent
<1>0. \A id, r : AckMade(id, r) => AckMade(id, r)'
  BY <1>1 DEF AckMade, CallStep, CallsGo, Calls
<1>3. TypeOK'
  <2>1. work' \in Workloads
    BY <1>1 DEF Base, TypeOK
  <2>2. queue' \subseteq ArchiveMessage
    BY <1>1 DEF MailStep, Fresh, Base, TypeOK
  <2>3. ASSUME NEW c \in Consumers, pass'[c].step = "write"
        PROVE  DOMAIN pass'[c].held = IdsOf(pass'[c].batch)
    <3>1. CASE pass'[c] = pass[c]
      BY <2>3, <3>1 DEF Base, TypeOK
    <3>2. CASE pass'[c].held = [id \in IdsOf(pass'[c].batch) |-> Held(d1[id])]
      BY <3>2
    <3> QED
      BY <1>1, <2>3, <3>1, <3>2 DEF PassStep
  <2>4. /\ mail' \in [Hubs -> MailboxState] /\ pass' \in [Consumers -> Pass]
        /\ posts' \subseteq [hub : Hubs, done : SUBSET Done]
        /\ calls' \in [Calls -> CallSteps] /\ hops' \subseteq Hop
        /\ legacy' \subseteq LegacyAck /\ lists' \in [Lists -> Listing]
    BY <1>1 DEF MailStep, PassStep, PostStep, CallStep, CallsGo
  <2>5. d1' \in [Ids -> Copy \cup {NoCopy}]
    BY <1>1, CopiesKept
  <2> QED
    BY <2>1, <2>2, <2>3, <2>4, <2>5 DEF TypeOK, IdsOf
<1>4. HubsSound'
  <2>1. \A q \in Hubs : Sound(mail'[q])
    BY <1>1 DEF MailStep
  <2> QED
    BY <2>1 DEF HubsSound, Sound, RowsSound, RowsExact, BytesExact, Bounded, HeldIds, LiveIds, ByteUnits
<1>5. AllSent'
  <2>1. \A c \in Calls : calls'[c] # "new" => c \in work'.calls
    BY <1>1 DEF CallStep, CallsGo
  <2>2. /\ \A h \in hops' : h.call \in work'.calls /\ calls'[h.call] # "new"
        /\ \A l \in legacy' : calls'[l.hop.call] # "new" /\ l.ids \subseteq l.hop.call.ids
    BY <1>1 DEF CallStep
  <2>3. \A r \in Hubs : RowsSent(r, mail'[r])
    BY <1>1 DEF MailStep
  <2>4. \A m \in queue' : MsgSent(m)
    BY <1>1 DEF MailStep, Fresh, Base, AllSent
  <2>5. \A c \in Consumers : \A m \in pass'[c].batch : MsgSent(m)
    BY <1>1 DEF PassStep
  <2>6. \A id \in Ids : CopySent(id, d1'[id])
    BY <1>1, CopiesKept
  <2>7. \A r \in Hubs : RowsSent(r, mail[r])'
    BY <1>0, <1>1, <2>3, SentStays DEF RowsSent, HeldIds
  <2>8. \A id \in Ids : CopySent(id, d1[id])'
    BY <1>1, <2>6, SentStays DEF CopySent
  <2> QED
    BY <1>2, <2>1, <2>2, <2>4, <2>5, <2>7, <2>8 DEF AllSent
<1>6. Working'
  <2>1. \A c \in Consumers : pass'[c].step # "idle" => c \in work'.consumers
    BY <1>1 DEF PassStep
  <2>2. \A c \in Consumers : pass'[c].step = "write" => \A m \in pass'[c].batch : ~NeedsBody(m)
    BY <1>1 DEF PassStep, Base, Working
  <2> QED
    BY <2>1, <2>2 DEF Working, NeedsBody
<1> QED
  BY <1>3, <1>4, <1>5, <1>6 DEF Base

\* Nothing is anywhere at first.
LEMMA BaseInit ==
    ASSUME Init
    PROVE  Base
<1>1. mail = [r \in Hubs |-> EmptyMailbox] /\ Sound(EmptyMailbox)
  BY EmptySound DEF Init
<1>2. HubsSound
  BY <1>1 DEF HubsSound
<1>3. mail \in [Hubs -> MailboxState]
  BY <1>1 DEF Sound
<1>4. \A c \in Consumers : pass[c] = Idle
  BY DEF Init
<1>5. \A id \in Ids : d1[id] = NoCopy
  BY DEF Init
<1>6. TypeOK
  <2>1. pass \in [Consumers -> Pass] /\ \A c \in Consumers : pass[c].step # "write"
    BY <1>4, IdleTyped DEF Init
  <2>2. lists \in [Lists -> Listing]
    BY DEF Init, Listing
  <2>3. calls \in [Calls -> CallSteps]
    BY DEF Init, CallSteps
  <2> QED
    BY <1>3, <2>1, <2>2, <2>3 DEF Init, TypeOK
<1>7. AllSent
  <2>1. \A r \in Hubs : HeldIds(mail[r]) = {}
    BY <1>1 DEF HeldIds, EmptyMailbox, NoRow
  <2>2. \A id \in Ids : CopySent(id, d1[id])
    BY <1>5 DEF CopySent, NoCopy
  <2> QED
    BY <1>4, <2>1, <2>2, IdleTyped DEF AllSent, Init, RowsSent
<1>8. Working
  BY <1>4, IdleTyped DEF Working
<1> QED
  BY <1>2, <1>6, <1>7, <1>8 DEF Base

-----------------------------------------------------------------------------
(* The transcripts *)

Ends == TranscriptTypeOK /\ EndsAsked

\* A row of D1 is of some box.
LEMMA StoredTyped ==
    ASSUME Base, NEW id \in Stored
    PROVE  id \in Ids /\ d1[id] \in Copy /\ BoxOf[d1[id].origin] \in Boxes
BY BoxesOfOrigins DEF Base, TypeOK, Stored, NoCopy, Copy

\* A row deleted under a marker is a cut.
LEMMA CutTyped ==
    ASSUME Base, NEW id \in Stored, NEW by \in Parties
    PROVE  CutRow(id, by) \in Cut
BY StoredTyped DEF CutRow, Cut, Copy

\* Marking boxes gives markers.
LEMMA MarkedTyped ==
    ASSUME TranscriptTypeOK, NEW boxes \in SUBSET Boxes, NEW who \in Parties
    PROVE  Marked(boxes, who) \subseteq Marker
<1>1. \A b \in boxes : [box |-> b, who |-> who, stale |-> FALSE] \in Marker
  BY DEF Marker
<1> QED
  BY <1>1 DEF Marked, TranscriptTypeOK

\* A purge is by a party, of a box.
LEMMA EndsTyped ==
    ASSUME NEW p \in Purges
    PROVE  p.who \in Parties /\ p.box \in Boxes
BY TranscriptCallsTyped DEF TranscriptCall, Parties

\* A statement of the sweep keeps the types of what it writes.
LEMMA StatementTyped ==
    ASSUME Base, TranscriptTypeOK, NEW what \in {"markers", "rows", "boxes", "stale"}, Statement(what)
    PROVE  markers' \subseteq Marker /\ owned' \subseteq Hubs \X Boxes /\ cut' \subseteq Cut
<1>1. /\ markers \subseteq Marker /\ owned \subseteq Hubs \X Boxes /\ cut \subseteq Cut
      /\ Everyone \in Parties
  BY DEF TranscriptTypeOK, Parties
<1>2. CASE what = "markers"
  <2>1. {BoxOf[d1[id].origin] : id \in Expired} \in SUBSET Boxes
    BY StoredTyped DEF Expired
  <2> QED
    BY <1>1, <1>2, <2>1, MarkedTyped DEF Statement
<1>3. CASE what = "rows"
  <2>1. \A id \in Expired : CutRow(id, Everyone) \in Cut
    BY <1>1, CutTyped DEF Expired
  <2> QED
    BY <1>1, <1>3, <2>1 DEF Statement
<1>4. CASE what = "boxes"
  BY <1>1, <1>4 DEF Statement
<1>5. CASE what = "stale"
  BY <1>1, <1>5 DEF Statement
<1> QED
  BY <1>2, <1>3, <1>4, <1>5

\* Every step keeps the types of the transcripts' state, and that only a
\* workload with purges or the sweep has any.
LEMMA EndsKept ==
    ASSUME Base, Base', Ends, TNext
    PROVE  Ends'
<1> DEFINE PurgeState == [step : {"new", "delete", "mark", "answered", "refused", "failed"},
                          gone : SUBSET Cut]
           ReadState  == [step : {"new", "marker", "answered", "refused", "failed"},
                          rows : SUBSET Ids, cut : BOOLEAN, said : BOOLEAN]
           SweepState == [step : 0 .. 4, seen : SUBSET Ids]
           Typed == /\ old' \subseteq Ids /\ owned' \subseteq Hubs \X Boxes
                    /\ markers' \subseteq Marker /\ cut' \subseteq Cut
                    /\ sweep' \in SweepState /\ purges' \in [Purges -> PurgeState]
                    /\ reads' \in [Reads -> ReadState]
           Allowed == /\ work' = work
                      /\ \A p \in Purges : purges'[p].step # "new" => work.ends # {}
                      /\ sweep'.step # 0 => work.ends # {}
<1>1. /\ old \subseteq Ids /\ owned \subseteq Hubs \X Boxes
      /\ markers \subseteq Marker /\ cut \subseteq Cut
      /\ sweep \in SweepState /\ purges \in [Purges -> PurgeState]
      /\ reads \in [Reads -> ReadState]
  BY SweepOrderTyped DEF Ends, TranscriptTypeOK
<1>2. /\ \A p \in Purges : purges[p].step # "new" => work.ends # {}
      /\ sweep.step # 0 => work.ends # {}
  BY DEF Ends, EndsAsked
<1>3. SUFFICES Typed /\ Allowed
  BY SweepOrderTyped DEF Ends, TranscriptTypeOK, EndsAsked, SweepOrder
<1>4. CASE Relay
  <2>1. /\ work' = work
        /\ old' = old /\ markers' = markers /\ cut' = cut /\ sweep' = sweep
        /\ purges' = purges /\ reads' = reads
    BY <1>4, RelaySteps DEF Relay, Step
  <2>2. owned' = owned \cup {<<d1'[id].recipient, BoxOf[d1'[id].origin]>> :
                               id \in {x \in Ids : d1'[x].state # "none"}}
    BY <1>4 DEF Relay
  <2>3. \A id \in {x \in Ids : d1'[x].state # "none"} :
          d1'[id].recipient \in Hubs /\ BoxOf[d1'[id].origin] \in Boxes
    BY BoxesOfOrigins DEF Base, TypeOK, NoCopy, Copy
  <2>4. owned' \subseteq Hubs \X Boxes
    BY <1>1, <2>2, <2>3
  <2> QED
    BY <1>1, <1>2, <2>1, <2>4
<1>5. ASSUME NEW p \in Purges, PurgeGate(p) PROVE Typed /\ Allowed
  <2>1. /\ work' = work /\ work.ends # {}
        /\ old' = old /\ owned' = owned /\ markers' = markers /\ cut' = cut /\ sweep' = sweep
        /\ reads' = reads
    BY <1>5 DEF PurgeGate, relay
  <2>2. PICK step \in {"delete", "refused"} : purges' = [purges EXCEPT ![p].step = step]
    BY <1>5 DEF PurgeGate
  <2>3. purges' \in [Purges -> PurgeState]
    BY <1>1, <2>2
  <2> QED
    BY <1>1, <1>2, <2>1, <2>3
<1>6. ASSUME NEW p \in Purges, PurgeDelete(p) PROVE Typed /\ Allowed
  <2> DEFINE gone == Received(p.who, p.box)
             cuts == {CutRow(id, p.who) : id \in gone}
  <2>1. /\ work' = work /\ purges[p].step = "delete"
        /\ old' = old /\ owned' = owned /\ markers' = markers /\ cut' = cut /\ reads' = reads
        /\ purges' = [purges EXCEPT ![p] = [step |-> "mark", gone |-> cuts]]
        /\ sweep' = [sweep EXCEPT !.seen = @ \ gone]
    BY <1>6 DEF PurgeDelete, relay
  <2>2. cuts \in SUBSET Cut
    BY CutTyped, EndsTyped DEF Received, InBox
  <2> HIDE DEF gone, cuts
  <2>3. purges' \in [Purges -> PurgeState] /\ work.ends # {}
    BY <1>1, <1>2, <2>1, <2>2
  <2>4. sweep' \in SweepState /\ sweep'.step = sweep.step
    BY <1>1, <2>1
  <2> QED
    BY <1>1, <1>2, <2>1, <2>3, <2>4
<1>7. ASSUME NEW p \in Purges, PurgeMark(p) PROVE Typed /\ Allowed
  <2>1. /\ work' = work /\ purges[p].step = "mark"
        /\ old' = old /\ owned' = owned /\ reads' = reads /\ sweep' = sweep
        /\ purges' = [purges EXCEPT ![p].step = "answered"]
        /\ markers' = Marked({p.box}, p.who) /\ cut' = cut \cup purges[p].gone
    BY <1>7 DEF PurgeMark, relay
  <2>2. markers' \subseteq Marker
    BY <2>1, EndsTyped, MarkedTyped DEF Ends
  <2>3. purges' \in [Purges -> PurgeState] /\ cut' \subseteq Cut
    BY <1>1, <2>1
  <2> QED
    BY <1>1, <1>2, <2>1, <2>2, <2>3
<1>8. ASSUME NEW p \in Purges, PurgeFails(p) PROVE Typed /\ Allowed
  <2>1. /\ work' = work /\ purges[p].step \in {"delete", "mark"}
        /\ old' = old /\ owned' = owned /\ reads' = reads /\ cut' = cut
        /\ purges' = [purges EXCEPT ![p].step = "failed"]
        /\ sweep' = sweep \/ sweep' = [sweep EXCEPT !.seen = @ \ Received(p.who, p.box)]
        /\ markers' = markers \/ markers' = Marked({p.box}, p.who)
    BY <1>8 DEF PurgeFails, relay
  <2>2. markers' \subseteq Marker
    BY <1>1, <2>1, EndsTyped, MarkedTyped DEF Ends
  <2>3. purges' \in [Purges -> PurgeState] /\ work.ends # {}
    BY <1>1, <1>2, <2>1
  <2>4. sweep' \in SweepState /\ sweep'.step = sweep.step
    BY <1>1, <2>1
  <2> QED
    BY <1>1, <1>2, <2>1, <2>2, <2>3, <2>4
<1>9. CASE SweepBegins
  <2>1. /\ work' = work /\ work.ends # {}
        /\ old' = old /\ owned' = owned /\ markers' = markers /\ cut' = cut
        /\ purges' = purges /\ reads' = reads /\ sweep' = [step |-> 1, seen |-> Expired]
    BY <1>9 DEF SweepBegins, relay
  <2>2. Expired \in SUBSET Ids
    BY DEF Expired, Stored
  <2> QED
    BY <1>1, <1>2, <2>1, <2>2
<1>10. CASE SweepStep \/ SweepFails
  <2>1. /\ work' = work /\ sweep.step \in 1 .. 4 /\ work.ends # {}
        /\ old' = old /\ purges' = purges /\ reads' = reads
    BY <1>1, <1>2, <1>10 DEF SweepStep, SweepFails, relay
  <2>2. UNCHANGED <<owned, markers, cut>> \/ Statement(SweepOrder[sweep.step])
    BY <1>10 DEF SweepStep, SweepFails
  <2>3. markers' \subseteq Marker /\ owned' \subseteq Hubs \X Boxes /\ cut' \subseteq Cut
    BY <1>1, <2>1, <2>2, SweepOrderTyped, StatementTyped DEF Ends
  <2>4. sweep' \in SweepState
    <3>1. \/ sweep' = [step |-> 0, seen |-> {}]
          \/ sweep.step # 4 /\ sweep' = [sweep EXCEPT !.step = @ + 1]
      BY <1>10, SweepOrderTyped DEF SweepStep, SweepFails
    <3> QED
      BY <1>1, <2>1, <3>1
  <2> QED
    BY <1>1, <1>2, <2>1, <2>3, <2>4
<1>11. ASSUME NEW r \in Reads, ReadRows(r) PROVE Typed /\ Allowed
  <2>1. /\ work' = work
        /\ old' = old /\ owned' = owned /\ markers' = markers /\ cut' = cut
        /\ purges' = purges /\ sweep' = sweep
    BY <1>11 DEF ReadRows, relay
  <2>2. reads' \in [Reads -> ReadState]
    <3> DEFINE rows == Transcript(r.who, r.box)
               seen == IsCut(r)
               new == [reads[r] EXCEPT !.step = "marker", !.rows = rows, !.cut = seen]
    <3>1. rows \in SUBSET Ids /\ seen \in BOOLEAN
      BY DEF Transcript, InBox, Stored, IsCut
    <3>2. \/ reads' = [reads EXCEPT ![r] = new]
          \/ reads' = [reads EXCEPT ![r] = [reads[r] EXCEPT !.step = "refused"]]
      BY <1>11 DEF ReadRows
    <3> HIDE DEF rows, seen
    <3>a. reads[r] \in ReadState
      BY <1>1
    <3>3. new \in ReadState
      BY <3>1, <3>a
    <3>4. [reads[r] EXCEPT !.step = "refused"] \in ReadState
      BY <3>a
    <3> HIDE DEF new, ReadState
    <3> QED
      BY <1>1, <3>2, <3>3, <3>4
  <2> QED
    BY <1>1, <1>2, <2>1, <2>2
<1>12. ASSUME NEW r \in Reads, ReadMarker(r) PROVE Typed /\ Allowed
  <2>1. /\ work' = work
        /\ old' = old /\ owned' = owned /\ markers' = markers /\ cut' = cut
        /\ purges' = purges /\ sweep' = sweep
    BY <1>12 DEF ReadMarker, relay
  <2>2. reads' \in [Reads -> ReadState]
    <3> DEFINE said == IsMarked(r.who, r.box)
    <3>1. said \in BOOLEAN
      BY DEF IsMarked
    <3>2. PICK step \in {"answered", "failed"} :
            reads' = [reads EXCEPT ![r].step = step, ![r].said = said]
      BY <1>12 DEF ReadMarker
    <3> HIDE DEF said
    <3> DEFINE new == [reads[r] EXCEPT !.step = step, !.said = said]
    <3>3. new \in ReadState
      BY <1>1, <3>1
    <3>4. reads' = [reads EXCEPT ![r] = new]
      BY <1>1, <3>2
    <3> HIDE DEF new, ReadState
    <3> QED
      BY <1>1, <3>3, <3>4
  <2> QED
    BY <1>1, <1>2, <2>1, <2>2
<1>13. ASSUME NEW id \in Ids, RowAges(id) PROVE Typed /\ Allowed
  BY <1>1, <1>2, <1>13 DEF RowAges, relay
<1>14. CASE WindowPasses
  <2>1. /\ work' = work /\ owned' = owned /\ purges' = purges /\ sweep' = sweep /\ reads' = reads
        /\ old' = old \cup Stored /\ cut' = {}
        /\ markers' = {[m EXCEPT !.stale = TRUE] : m \in markers}
    BY <1>14 DEF WindowPasses, relay
  <2>2. \A m \in Marker : [m EXCEPT !.stale = TRUE] \in Marker
    BY DEF Marker
  <2>3. markers' \subseteq Marker
    BY <1>1, <2>1, <2>2
  <2>4. old' \subseteq Ids
    BY <1>1, <2>1 DEF Stored
  <2> QED
    BY <1>1, <1>2, <2>1, <2>3, <2>4
<1> QED
  BY <1>4, <1>5, <1>6, <1>7, <1>8, <1>9, <1>10, <1>11, <1>12, <1>13, <1>14 DEF TNext

\* They hold at the start.
LEMMA EndsInit ==
    ASSUME TInit
    PROVE  Ends
<1>1. TranscriptTypeOK
  BY SweepOrderTyped DEF TInit, TranscriptTypeOK
<1>2. EndsAsked
  BY DEF TInit, EndsAsked
<1> QED
  BY <1>1, <1>2 DEF Ends

\* A step or none: what each step keeps is kept.
LEMMA StepOrNone ==
    ASSUME Base, Ends, [TNext]_tvars
    PROVE  Step
<1>1. CASE TNext
  BY <1>1, Steps DEF Ends
<1>2. CASE UNCHANGED tvars
  <2>1. UNCHANGED relay /\ d1' = d1
    BY <1>2 DEF tvars, vars, relay
  <2> QED
    BY <2>1, QuietSteps
<1> QED
  BY <1>1, <1>2

\* The types, the hubs' soundness and where everything came from, of the relay
\* and the transcripts together.
THEOREM Grounded == TSpec => [](Base /\ Ends)
<1>1. TInit => Base /\ Ends
  BY BaseInit, EndsInit DEF TInit
<1>2. Base /\ Ends /\ [TNext]_tvars => Base' /\ Ends'
  <2> SUFFICES ASSUME Base, Ends, [TNext]_tvars PROVE Base' /\ Ends'
    OBVIOUS
  <2>1. Base'
    BY StepOrNone, BaseKept
  <2>2. CASE TNext
    BY <2>1, <2>2, EndsKept
  <2>3. CASE UNCHANGED tvars
    BY <2>1, <2>3 DEF Ends, TranscriptTypeOK, EndsAsked, tvars, vars, ends
  <2> QED
    BY <2>1, <2>2, <2>3
<1> QED
  BY <1>1, <1>2, PTL DEF TSpec

\* Type correctness of the relay: rows, messages, passes, confirmations.
THEOREM TypeCorrect == TSpec => []TypeOK
<1>1. Base => TypeOK
  BY DEF Base
<1> QED
  BY <1>1, Grounded, PTL

-----------------------------------------------------------------------------
(* The hubs implement Mailbox *)

\* The mailbox's operations are those of the instance.
LEMMA HubOperators ==
    ASSUME NEW r
    PROVE  /\ Hub(r)!EmptyMailbox = EmptyMailbox
           /\ Hub(r)!Done = Done
           /\ \A m : Hub(r)!HeldIds(m) = HeldIds(m)
           /\ \A m : Hub(r)!Takeable(m) = Takeable(m)
           /\ \A m, T : Hub(r)!TakeOwedDue(m, T) = TakeOwedDue(m, T)
           /\ \A m, id, origin, body, retry :
                 Hub(r)!Insert(m, id, origin, body, retry) = Insert(m, id, origin, body, retry)
           /\ \A m, ids : Hub(r)!Acknowledge(m, ids) = Acknowledge(m, ids)
           /\ \A m, D : Hub(r)!ArchiveDone(m, D) = ArchiveDone(m, D)
           /\ \A m, id : Hub(r)!AgeRow(m, id) = AgeRow(m, id)
<1>0. \A S : Hub(r)!Cardinality(S) = Cardinality(S)
  BY DEF Hub!Cardinality, Cardinality
<1>1. \A m : Hub(r)!HeldIds(m) = HeldIds(m) /\ Hub(r)!LiveIds(m) = LiveIds(m)
  BY DEF Hub!HeldIds, HeldIds, Hub!LiveIds, LiveIds
<1>2. Hub(r)!NoRow = NoRow /\ Hub(r)!Versions = Versions
  BY DEF Hub!NoRow, NoRow, Hub!Versions, Versions
<1>3. Hub(r)!EmptyMailbox = EmptyMailbox /\ Hub(r)!Done = Done
  BY <1>2 DEF Hub!EmptyMailbox, EmptyMailbox, Hub!Done, Done
<1>4. \A m : Hub(r)!Takeable(m) = Takeable(m)
  BY <1>0, <1>1 DEF Hub!Takeable, Takeable, Hub!DueIds, DueIds
<1>5. \A m, T : Hub(r)!TakeOwedDue(m, T) = TakeOwedDue(m, T)
  BY DEF Hub!TakeOwedDue, TakeOwedDue
<1>6. \A m, id, origin, body, retry :
         Hub(r)!Insert(m, id, origin, body, retry) = Insert(m, id, origin, body, retry)
  <2> TAKE m, id, origin, body, retry
  <2>1. Hub(r)!InsertVerdict(m, id, origin, body, retry) = InsertVerdict(m, id, origin, body, retry)
    BY <1>1 DEF Hub!InsertVerdict, InsertVerdict, Hub!Ours, Ours
  <2>2. Hub(r)!NewRow(origin, body) = NewRow(origin, body)
    BY DEF Hub!NewRow, NewRow
  <2> QED
    BY <2>1, <2>2 DEF Hub!Insert, Insert
<1>7. \A m, ids : Hub(r)!Acknowledge(m, ids) = Acknowledge(m, ids)
  <2> TAKE m, ids
  <2>1. \A row : Hub(r)!AckRow(row) = AckRow(row)
    BY DEF Hub!AckRow, AckRow
  <2>2. \A S : Hub(r)!ByteUnits(m, S) = ByteUnits(m, S)
    BY DEF Hub!ByteUnits, ByteUnits
  <2> QED
    BY <1>1, <1>0, <2>1, <2>2 DEF Hub!Acknowledge, Acknowledge
<1>8. \A m, D : Hub(r)!ArchiveDone(m, D) = ArchiveDone(m, D)
  <2>1. \A row, D : Hub(r)!Confirmed(row, D) = Confirmed(row, D)
    BY <1>2 DEF Hub!Confirmed, Confirmed
  <2> QED
    BY <2>1 DEF Hub!ArchiveDone, ArchiveDone
<1>9. \A m, id : Hub(r)!AgeRow(m, id) = AgeRow(m, id)
  BY DEF Hub!AgeRow, AgeRow
<1> QED
  BY <1>1, <1>3, <1>4, <1>5, <1>6, <1>7, <1>8, <1>9

HubStep(r) == Hub(r)!Next \/ mail'[r] = mail[r]

\* Every step of the relay is, in every hub, a step of Mailbox or none.
LEMMA HubSteps ==
    ASSUME Base, Next, NEW r \in Hubs
    PROVE  HubStep(r)
<1>0. mail \in [Hubs -> MailboxState]
  BY DEF Base, TypeOK
<1>1. ASSUME NEW hop \in hops, HandleInsert(hop) PROVE HubStep(r)
  <2> DEFINE s == hop.call
  <2>1. s \in Sends /\ hop.retry \in BOOLEAN
    BY <1>1 DEF HandleInsert, Base, TypeOK, Hop
  <2>2. s.hub \in Hubs /\ s.id \in Ids /\ s.origin \in Origins /\ s.body \in Bodies
    BY <2>1, AskedTyped
  <2>3. PICK T \in Takeable(mail[s.hub]) :
          mail' = [mail EXCEPT ![s.hub] =
                      Insert(TakeOwedDue(mail[s.hub], T), s.id, s.origin, s.body, hop.retry)]
    BY <1>1 DEF HandleInsert
  <2> HIDE DEF s
  <2>4. CASE r = s.hub
    <3>1. mail'[r] = Insert(TakeOwedDue(mail[r], T), s.id, s.origin, s.body, hop.retry)
      BY <1>0, <2>2, <2>3, <2>4
    <3>2. Hub(r)!HandleInsert(s.id, s.origin, s.body, hop.retry)
      BY <2>4, <3>1, HubOperators DEF Hub!HandleInsert
    <3> QED
      BY <2>1, <2>2, <3>2 DEF HubStep, Hub!Next
  <2>5. CASE r # s.hub
    BY <1>0, <2>3, <2>5 DEF HubStep
  <2> QED
    BY <2>4, <2>5
<1>2. ASSUME NEW hop \in hops, HandleAck(hop) PROVE HubStep(r)
  <2> DEFINE a == hop.call
  <2>1. a.hub \in Hubs /\ a.ids \in SUBSET Ids
    BY <1>2, CallsTyped DEF HandleAck, Ack
  <2>2. PICK T \in Takeable(mail[a.hub]) :
          mail' = [mail EXCEPT ![a.hub] = Acknowledge(TakeOwedDue(mail[a.hub], T), a.ids)]
    BY <1>2 DEF HandleAck
  <2> HIDE DEF a
  <2>3. CASE r = a.hub
    <3>1. mail'[r] = Acknowledge(TakeOwedDue(mail[r], T), a.ids)
      BY <1>0, <2>1, <2>2, <2>3
    <3>2. Hub(r)!HandleAck(a.ids)
      BY <2>3, <3>1, HubOperators DEF Hub!HandleAck
    <3> QED
      BY <2>1, <3>2 DEF HubStep, Hub!Next
  <2>4. CASE r # a.hub
    BY <1>0, <2>2, <2>4 DEF HubStep
  <2> QED
    BY <2>3, <2>4
<1>3. ASSUME NEW l \in Lists, ListHub(l) PROVE HubStep(r)
  <2>1. l.hub \in Hubs
    BY CallsTyped DEF List
  <2>2. PICK T \in Takeable(mail[l.hub]) : mail' = [mail EXCEPT ![l.hub] = TakeOwedDue(@, T)]
    BY <1>3 DEF ListHub
  <2>3. CASE r = l.hub
    <3>1. mail'[r] = TakeOwedDue(mail[r], T)
      BY <1>0, <2>1, <2>2, <2>3
    <3>2. Hub(r)!HandleList
      BY <2>3, <3>1, HubOperators DEF Hub!HandleList
    <3> QED
      BY <3>2 DEF HubStep, Hub!Next
  <2>4. CASE r # l.hub
    BY <1>0, <2>2, <2>4 DEF HubStep
  <2> QED
    BY <2>3, <2>4
<1>4. ASSUME NEW p \in posts, Tell(p) PROVE HubStep(r)
  <2>1. p.hub \in Hubs /\ p.done \in SUBSET Done
    BY DEF Base, TypeOK
  <2>2. mail' = [mail EXCEPT ![p.hub] = ArchiveDone(@, p.done)]
    BY <1>4 DEF Tell
  <2>3. CASE r = p.hub
    <3>1. mail'[r] = ArchiveDone(mail[r], p.done)
      BY <1>0, <2>1, <2>2, <2>3
    <3>2. Hub(r)!HandleArchiveDone(p.done)
      BY <3>1, HubOperators DEF Hub!HandleArchiveDone
    <3> QED
      BY <2>1, <3>2, HubOperators DEF HubStep, Hub!Next
  <2>4. CASE r # p.hub
    BY <1>0, <2>2, <2>4 DEF HubStep
  <2> QED
    BY <2>3, <2>4
<1>5. ASSUME NEW q \in Hubs, NEW id \in Ids, Age(q, id) PROVE HubStep(r)
  <2>1. /\ mail' = [mail EXCEPT ![q] = AgeRow(@, id)]
        /\ id \in HeldIds(mail[q]) /\ mail[q].rows[id].owed
    BY <1>5 DEF Age
  <2>2. CASE r = q
    <3>1. mail'[r] = AgeRow(mail[r], id)
      BY <1>0, <2>1, <2>2
    <3>2. Hub(r)!Age(id)
      BY <2>1, <2>2, <3>1, HubOperators DEF Hub!Age
    <3> QED
      BY <3>2 DEF HubStep, Hub!Next
  <2>3. CASE r # q
    BY <1>0, <2>1, <2>3 DEF HubStep
  <2> QED
    BY <2>2, <2>3
<1>6. CASE mail' = mail
  BY <1>6 DEF HubStep
<1>7. ASSUME NEW c \in Calls, Post(c) \/ HopFails(c) PROVE mail' = mail
  BY <1>7 DEF Post, HopFails
<1>8. ASSUME NEW l \in legacy, LegacyLook(l) \/ LegacyWrite(l) \/ LegacyFails(l) PROVE mail' = mail
  BY <1>8 DEF LegacyLook, LegacyWrite, LegacyFails
<1>9. ASSUME NEW s \in Sends, StorePaid(s) PROVE mail' = mail
  BY <1>9 DEF StorePaid
<1>10. ASSUME NEW l \in Lists, ListD1(l) \/ ListMerge(l) PROVE mail' = mail
  BY <1>10 DEF ListD1, ListMerge
<1>11. ASSUME NEW c \in Consumers, Take(c) \/ ReadHeld(c) \/ Write(c) \/ PassFails(c) PROVE mail' = mail
  BY <1>11 DEF Take, ReadHeld, Write, PassFails
<1>12. ASSUME NEW c \in Consumers, NEW q \in Hubs, ReadBodies(c, q) \/ BodiesFail(c, q)
       PROVE  mail' = mail
  BY <1>12 DEF ReadBodies, BodiesFail
<1>13. ASSUME NEW p \in posts, TellLost(p) PROVE mail' = mail
  BY <1>13 DEF TellLost
<1> QED
  BY <1>1, <1>2, <1>3, <1>4, <1>5, <1>6, <1>7, <1>8, <1>9, <1>10, <1>11, <1>12, <1>13 DEF Next

\* So does every step of the transcripts, which leave the hubs alone.
LEMMA HubStepOrNone ==
    ASSUME Base, [TNext]_tvars, NEW r \in Hubs
    PROVE  HubStep(r)
<1>1. CASE Relay
  BY <1>1, HubSteps DEF Relay
<1>2. CASE mail' = mail
  BY <1>2 DEF HubStep
<1>3. [TNext]_tvars /\ ~Relay => mail' = mail
  BY DEF TNext, PurgeGate, PurgeDelete, PurgeMark, PurgeFails, SweepBegins, SweepStep, SweepFails,
         ReadRows, ReadMarker, RowAges, WindowPasses, relay, tvars, vars
<1> QED
  BY <1>1, <1>2, <1>3

\* Refinement: whatever the network, the queue, the consumers and D1 do, each
\* hub's rows and counters only move as the abstract Mailbox lets them, so all
\* that HubProofs shows of Mailbox holds of every hub of the relay.
THEOREM HubsImplementMailbox == TSpec => HubsAreMailboxes
<1>1. TInit => \A r \in Hubs : Hub(r)!Init
  BY HubOperators DEF TInit, Init, Hub!Init
<1>2. Base /\ [TNext]_tvars => [\A r \in Hubs : Hub(r)!Next \/ mail'[r] = mail[r]]_vars
  BY HubStepOrNone DEF HubStep
<1> QED
  BY <1>1, <1>2, Grounded, PTL DEF TSpec, HubsAreMailboxes

-----------------------------------------------------------------------------
(* D1's rows move forward *)

\* What no step takes from a row of D1.
CopyForward(was, new) ==
    /\ new.recipient = was.recipient
    /\ new.version >= was.version
    /\ was.state = "acknowledged" => new.state = "acknowledged"
    /\ was.body # NoBody => new.body # NoBody

\* The archive's upsert moves a row forward, to the message's version at
\* least where the recipient is the row's.
LEMMA UpsertForward ==
    ASSUME NEW was \in Copy, NEW m \in ArchiveMessage
    PROVE  /\ CopyForward(was, Upsert(was, m)) /\ Upsert(was, m).state # "none"
           /\ was.recipient = m.hub => Upsert(was, m).version >= m.version
<1> DEFINE new == Upsert(was, m)
<1>1. was.version \in 0 .. 2 /\ m.version \in 1 .. 2 /\ was.state \in {"live", "acknowledged"}
  BY DEF Copy, ArchiveMessage, Versions
<1>2. CASE ~(m.version > was.version /\ was.recipient = m.hub)
  <2>1. new = was
    BY <1>1, <1>2 DEF Upsert
  <2> QED
    BY <1>1, <1>2, <2>1 DEF CopyForward
<1>3. CASE m.version > was.version /\ was.recipient = m.hub
  <2> DEFINE body == IF m.body # NoBody THEN m.body ELSE was.body
             mark == IF m.change = "acknowledge" THEN "acknowledged" ELSE was.state
  <2>1. new = [was EXCEPT !.body = body, !.state = mark, !.version = m.version]
    BY <1>1, <1>3 DEF Upsert
  <2>2. /\ was.body # NoBody => body # NoBody
        /\ was.state = "acknowledged" => mark = "acknowledged"
        /\ mark # "none"
    BY <1>1
  <2> HIDE DEF new, body, mark
  <2>3. /\ new.recipient = was.recipient /\ new.body = body /\ new.state = mark
        /\ new.version = m.version
    BY <2>1 DEF Copy
  <2>4. new.version >= was.version /\ new.version >= m.version
    BY <1>1, <1>3, <2>3
  <2> QED
    BY <2>2, <2>3, <2>4 DEF CopyForward, new
<1> QED
  BY <1>2, <1>3

\* Every step keeps a row of D1 that it does not delete, and deletes only what
\* may be deleted.
LEMMA RowForward ==
    ASSUME Base, Step, NEW id \in Ids, d1[id].state # "none"
    PROVE  Deletes(id) \/ (d1'[id].state # "none" /\ CopyForward(d1[id], d1'[id]))
<1>1. d1[id] \in Copy
  BY DEF Base, TypeOK, NoCopy
<1>2. CASE d1'[id] = d1[id]
  BY <1>1, <1>2 DEF CopyForward, Copy
<1>3. CASE Acknowledges(id)
  <2>1. /\ d1'[id].recipient = d1[id].recipient /\ d1'[id].version = d1[id].version
        /\ d1'[id].body = d1[id].body /\ d1'[id].state = "acknowledged"
    BY <1>1, <1>3 DEF Acknowledges, Copy
  <2>2. d1[id].version \in 0 .. 2
    BY <1>1 DEF Copy
  <2> QED
    BY <2>1, <2>2 DEF CopyForward
<1>4. CASE Upserts(id)
  <2>1. PICK c \in Consumers : \E m \in pass[c].batch : d1'[id] = Upsert(d1[id], m)
    BY <1>4 DEF Upserts
  <2>2. PICK m \in pass[c].batch : d1'[id] = Upsert(d1[id], m)
    BY <2>1
  <2> QED
    BY <1>1, <2>2, PassMessage, UpsertForward
<1> QED
  BY <1>2, <1>3, <1>4 DEF Step, D1Step, Stores

\* At-least-once, reordered delivery never moves a D1 row backwards
\* (ARCHIVE_UPSERT_SQL and its version guard), and neither do the legacy
\* acknowledgments, the paid sends, the purges and the sweep beside it.
THEOREM ArchiveForward == TSpec => ArchiveMovesForward
<1>1. ASSUME Base, Ends, [TNext]_tvars, NEW id \in Ids,
             d1[id].state # "none", d1'[id].state # "none"
      PROVE  CopyForward(d1[id], d1'[id])
  <2>1. ~Deletes(id)
    BY <1>1 DEF Deletes, NoCopy
  <2> QED
    BY <1>1, <2>1, StepOrNone, RowForward
<1>2. Base /\ Ends /\ [TNext]_tvars =>
        [\A id \in Ids :
          d1[id].state # "none" /\ d1'[id].state # "none" =>
              /\ d1'[id].recipient = d1[id].recipient
              /\ d1'[id].version >= d1[id].version
              /\ d1[id].state = "acknowledged" => d1'[id].state = "acknowledged"
              /\ d1[id].body # NoBody => d1'[id].body # NoBody]_vars
  BY <1>1 DEF CopyForward
<1> QED
  BY <1>2, Grounded, PTL DEF TSpec, ArchiveMovesForward

-----------------------------------------------------------------------------
(* What the hubs are told is so *)

Exempt(id) == Deletable(id) \/ Contested(id)

Sent(id, r) == \E s \in Sends \cap work.calls : s.id = id /\ s.hub = r

\* Where an id goes to two recipients and is not contested, it is archived from
\* the hubs alone, one pass after another, and acknowledged by one at most.
LEMMA Uncontested ==
    ASSUME NEW id, ~Contested(id), NEW r, NEW q, Sent(id, r), Sent(id, q), r # q
    PROVE  /\ ~PaidFor(id, r) /\ (\A c, d \in work.consumers : c = d)
           /\ ~(AckAsked(id, r) /\ AckAsked(id, q))
<1>1. PICK s \in Sends \cap work.calls : s.id = id /\ s.hub = r
  BY DEF Sent
<1>2. PICK t \in Sends \cap work.calls : t.id = id /\ t.hub = q
  BY DEF Sent
<1> QED
  BY <1>1, <1>2 DEF Contested, PaidFor

\* A message of a pass, and a row of D1, were sent.
LEMMA MessageIsSent ==
    ASSUME Base, NEW c \in Consumers, NEW m \in pass[c].batch
    PROVE  /\ m \in ArchiveMessage /\ m.id \in Ids /\ m.version \in 1 .. 2 /\ Sent(m.id, m.hub)
           /\ m.version = 2 => AckAsked(m.id, m.hub)
<1>1. m \in ArchiveMessage /\ MsgSent(m)
  BY PassMessage
<1>2. m.id \in Ids /\ m.version \in 1 .. 2
  BY <1>1 DEF ArchiveMessage, Versions
<1>3. Sent(m.id, m.hub)
  BY <1>1 DEF MsgSent, SentAs, Sent
<1>4. m.version = 2 => AckAsked(m.id, m.hub)
  BY <1>1 DEF MsgSent
<1> QED
  BY <1>1, <1>2, <1>3, <1>4

\* A row of D1 was sent to its recipient; version 0 is a paid one's and
\* version 2 is acknowledged.
LEMMA CopyIsSent ==
    ASSUME Base, NEW id \in Ids, d1[id].state # "none"
    PROVE  /\ d1[id] \in Copy /\ d1[id].version \in 0 .. 2 /\ Sent(id, d1[id].recipient)
           /\ d1[id].version = 0 => PaidFor(id, d1[id].recipient)
           /\ d1[id].version = 2 => d1[id].state = "acknowledged"
<1>1. d1[id] \in Copy
  BY DEF Base, TypeOK, NoCopy
<1>2. d1[id].version \in 0 .. 2
  BY <1>1 DEF Copy
<1>3. CopySent(id, d1[id])
  BY DEF Base, AllSent
<1>4. Sent(id, d1[id].recipient)
  BY <1>3 DEF CopySent, SentAs, Sent
<1> QED
  BY <1>1, <1>2, <1>3, <1>4 DEF CopySent

\* What a pass read of D1.
LEMMA HeldTyped ==
    ASSUME Base, NEW c \in Consumers, NEW id \in DOMAIN pass[c].held
    PROVE  pass[c].held[id] \in [recipient : Hubs, version : 0 .. 2] \cup {NotHeld}
<1>1. pass[c].held \in Helds
  BY DEF Base, TypeOK, Pass
<1>2. PICK S \in SUBSET Ids :
        pass[c].held \in [S -> [recipient : Hubs, version : 0 .. 2] \cup {NotHeld}]
  BY <1>1 DEF Helds
<1> QED
  BY <1>2

\* What a pass about to write read of D1 still binds: a row it saw is there for
\* the same recipient, no older; where it saw none and another writer has come
\* since, that one wrote the row for the recipient of every message of the id.
HeldSo(c, id) ==
    /\ pass[c].held[id] # NotHeld =>
          /\ d1[id].state # "none" /\ d1[id].recipient = pass[c].held[id].recipient
          /\ d1[id].version >= pass[c].held[id].version
    /\ pass[c].held[id] = NotHeld /\ d1[id].state # "none" =>
          \A m \in pass[c].batch : m.id = id => m.hub = d1[id].recipient

PlansSo ==
    \A c \in Consumers :
        pass[c].step = "write" => \A id \in IdsOf(pass[c].batch) : Exempt(id) \/ HeldSo(c, id)

\* A step that brings a row to D1 where a pass saw none.
LEMMA NewRowIsOurs ==
    ASSUME Base, Step, NEW c \in Consumers, pass[c].step = "write", pass'[c].step = "write",
           NEW m \in pass[c].batch, ~Exempt(m.id),
           d1[m.id].state = "none", d1'[m.id].state # "none"
    PROVE  m.hub = d1'[m.id].recipient
<1> DEFINE id == m.id
<1>1. id \in Ids /\ Sent(id, m.hub)
  BY MessageIsSent
<1>2. Stores(id) \/ Upserts(id)
  BY <1>1 DEF Step, D1Step, Acknowledges, Deletes, Exempt
<1>3. CASE Stores(id)
  <2>1. PICK s \in Sends \cap work.calls :
          /\ s.id = id /\ s.paid
          /\ d1'[id] = [state |-> "live", recipient |-> s.hub, origin |-> s.origin,
                        body |-> s.body, version |-> 0]
    BY <1>3 DEF Stores
  <2>2. Sent(id, s.hub) /\ PaidFor(id, s.hub) /\ d1'[id].recipient = s.hub
    BY <2>1 DEF Sent, PaidFor
  <2> HIDE DEF id
  <2> QED
    BY <1>1, <2>2, Uncontested DEF Exempt, id
<1>4. CASE Upserts(id)
  <2>1. PICK d \in Consumers : \E n \in pass[d].batch :
          /\ pass[d].step = "write" /\ pass'[d].step = "idle"
          /\ n.id = id /\ d1'[id] = Upsert(d1[id], n)
    BY <1>4 DEF Upserts
  <2>2. PICK n \in pass[d].batch :
          /\ pass[d].step = "write" /\ pass'[d].step = "idle"
          /\ n.id = id /\ d1'[id] = Upsert(d1[id], n)
    BY <2>1
  <2>3. d # c /\ d \in work.consumers /\ c \in work.consumers
    BY <2>2 DEF Base, Working
  <2>4. Sent(id, n.hub) /\ d1'[id].recipient = n.hub
    BY <2>2, MessageIsSent DEF Upsert
  <2> HIDE DEF id
  <2> QED
    BY <1>1, <2>3, <2>4, Uncontested DEF Exempt, id
<1> QED
  BY <1>2, <1>3, <1>4

\* What a pass read of D1 stays good enough to plan by until its batch():
\* the row it read is there, no older, and a row it did not read is ours.
LEMMA PlansKept ==
    ASSUME Base, Base', Step, PlansSo
    PROVE  PlansSo'
<1> SUFFICES ASSUME NEW c \in Consumers, pass'[c].step = "write",
                    NEW id \in IdsOf(pass'[c].batch), ~Exempt(id)'
             PROVE  HeldSo(c, id)'
  BY DEF PlansSo, IdsOf
<1>1. id \in Ids
  BY DEF Base, TypeOK, Pass, IdsOf, ArchiveMessage
<1>2. ~Exempt(id)
  BY <1>1, SentStays DEF Step, Exempt
<1>3. CASE pass'[c] = pass[c]
  <2>1. HeldSo(c, id) /\ pass[c].step = "write"
    BY <1>2, <1>3 DEF PlansSo
  <2>2. ASSUME d1[id].state # "none"
        PROVE  /\ d1'[id].state # "none" /\ d1'[id].recipient = d1[id].recipient
               /\ d1'[id].version >= d1[id].version
    BY <1>1, <1>2, <2>2, RowForward DEF Deletes, Exempt, CopyForward
  <2>3. ASSUME pass'[c].held[id] # NotHeld
        PROVE  /\ d1'[id].state # "none" /\ d1'[id].recipient = pass'[c].held[id].recipient
               /\ d1'[id].version >= pass'[c].held[id].version
    <3> DEFINE held == pass[c].held[id]
    <3>1. /\ d1[id].state # "none" /\ d1[id].recipient = held.recipient
          /\ d1[id].version >= held.version
      BY <1>3, <2>1, <2>3 DEF HeldSo
    <3>2. d1[id].version \in Int /\ d1'[id].version \in Int
      BY <1>1, <2>2, <3>1 DEF Base, TypeOK, Copy, NoCopy
    <3>3. held.version \in Int
      <4>1. id \in DOMAIN pass[c].held
        BY <1>3, <2>1 DEF Base, TypeOK
      <4>2. held \in [recipient : Hubs, version : 0 .. 2] \cup {NotHeld}
        BY <2>1, <4>1, HeldTyped
      <4> QED
        BY <1>3, <2>3, <4>2
    <3> HIDE DEF held
    <3>4. d1'[id].version >= held.version
      BY <2>2, <3>1, <3>2, <3>3
    <3> QED
      BY <1>3, <2>2, <3>1, <3>4 DEF held
  <2>4. ASSUME pass'[c].held[id] = NotHeld, d1'[id].state # "none",
               NEW m \in pass'[c].batch, m.id = id
        PROVE  m.hub = d1'[id].recipient
    <3>1. CASE d1[id].state # "none"
      BY <1>3, <2>1, <2>2, <2>4, <3>1 DEF HeldSo
    <3>2. CASE d1[id].state = "none"
      BY <1>2, <1>3, <2>1, <2>4, <3>2, NewRowIsOurs
    <3> QED
      BY <3>1, <3>2
  <2> QED
    BY <2>3, <2>4 DEF HeldSo
<1>4. CASE /\ d1' = d1
           /\ pass'[c].held = [i \in IdsOf(pass'[c].batch) |-> Held(d1[i])]
  <2>1. pass'[c].held[id] = Held(d1[id])
    BY <1>4
  <2>2. CASE d1[id].state = "none"
    BY <1>4, <2>1, <2>2 DEF HeldSo, Held
  <2>3. CASE d1[id].state # "none"
    <3>1. d1[id] \in Copy /\ d1[id].version \in 0 .. 2
      BY <1>1, <2>3, CopyIsSent
    <3>2. /\ Held(d1[id]).recipient = d1[id].recipient /\ Held(d1[id]).version = d1[id].version
      BY <2>3 DEF Held
    <3>3. Held(d1[id]) # NotHeld
      BY <3>1, <3>2 DEF NotHeld
    <3> QED
      BY <1>4, <2>1, <2>3, <3>1, <3>2, <3>3 DEF HeldSo
  <2> QED
    BY <2>2, <2>3
<1> QED
  BY <1>3, <1>4 DEF Step, PassStep

\* D1 holds the id for the hub at a version or a newer one.
HoldsFor(id, r, v) == d1[id].state # "none" /\ d1[id].recipient = r /\ d1[id].version >= v

HoldsForOther(id, r) == d1[id].state # "none" /\ d1[id].recipient # r

\* The verdict on a message is so once the pass's batch() is written.
LEMMA VerdictSo ==
    ASSUME Base, Base', Step, PlansSo, NEW c \in Consumers, pass[c].step = "write",
           NEW best \in Bests(pass[c].batch), d1' = Written(best, pass[c].held),
           NEW m \in pass[c].batch, ~Exempt(m.id)
    PROVE  IF Verdict(m, best, pass[c].held) = "collision" THEN HoldsForOther(m.id, m.hub)'
           ELSE HoldsFor(m.id, m.hub, m.version)'
<1> DEFINE id == m.id
           held == pass[c].held
           b == best[id]
<1>1. id \in Ids /\ m.version \in 1 .. 2 /\ id \in IdsOf(pass[c].batch)
  BY MessageIsSent DEF IdsOf
<1>2. b \in pass[c].batch /\ b.id = id /\ m.version <= b.version /\ id \in DOMAIN best
  BY <1>1 DEF Bests
<1>3. b \in ArchiveMessage /\ b.version \in 1 .. 2
  BY <1>2, MessageIsSent
<1>4. HeldSo(c, id)
  BY <1>1 DEF PlansSo
<1>5. held[id] \in [recipient : Hubs, version : 0 .. 2] \cup {NotHeld}
  BY <1>1, HeldTyped DEF Base, TypeOK
<1>6. d1'[id] = IF Verdict(b, best, held) = "apply" THEN Upsert(d1[id], b) ELSE d1[id]
  BY <1>1, <1>2 DEF Written
<1>7. ASSUME d1[id].state # "none"
      PROVE  /\ d1'[id].state # "none" /\ d1'[id].recipient = d1[id].recipient
             /\ d1[id] \in Copy /\ d1[id].version \in 0 .. 2 /\ d1'[id].version \in 0 .. 2
             /\ d1'[id].version >= d1[id].version
  <2>1. /\ d1'[id].state # "none" /\ d1'[id].recipient = d1[id].recipient
        /\ d1'[id].version >= d1[id].version
    BY <1>1, <1>7, RowForward DEF Deletes, Exempt, CopyForward
  <2>2. d1[id] \in Copy /\ d1'[id] \in Copy
    BY <1>1, <1>7, <2>1 DEF Base, TypeOK, NoCopy
  <2> QED
    BY <2>1, <2>2 DEF Copy
<1>8. CASE held[id] = NotHeld
  <2>1. Verdict(b, best, held) = "apply"
    <3>1. held[b.id].version = -1
      BY <1>2, <1>8 DEF NotHeld
    <3> QED
      BY <1>2, <1>3, <1>8, <3>1 DEF Verdict
  <2>2. Verdict(m, best, held) = "collision" <=> m.hub # b.hub
    BY <1>8 DEF Verdict
  <2>3. d1'[id] = Upsert(d1[id], b)
    BY <1>6, <2>1
  <2> HIDE DEF b, held, id
  <2>4. CASE d1[id].state = "none"
    <3>1. /\ d1'[id].state # "none" /\ d1'[id].recipient = b.hub /\ d1'[id].version = b.version
      BY <2>3, <2>4 DEF Upsert
    <3>2. d1'[id].version >= m.version
      BY <1>1, <1>2, <1>3, <3>1
    <3> QED
      BY <2>2, <3>1, <3>2 DEF HoldsFor, HoldsForOther, id, held
  <2>5. CASE d1[id].state # "none"
    <3>1. b.hub = d1[id].recipient /\ m.hub = d1[id].recipient
      BY <1>2, <1>4, <1>8, <2>5 DEF HeldSo, held, id
    <3>2. d1'[id].version >= b.version
      BY <1>3, <1>7, <2>3, <2>5, <3>1, UpsertForward
    <3>3. d1'[id].version >= m.version
      BY <1>1, <1>2, <1>3, <1>7, <2>5, <3>2
    <3> QED
      BY <1>7, <2>2, <2>5, <3>1, <3>3 DEF HoldsFor, id, held
  <2> QED
    BY <2>4, <2>5
<1>9. CASE held[id] # NotHeld
  <2> DEFINE owner == held[id].recipient
  <2>1. held[id].version \in 0 .. 2
    BY <1>5, <1>9
  <2>2. /\ d1[id].state # "none" /\ d1[id].recipient = owner
        /\ d1[id].version >= held[id].version
    BY <1>4, <1>9 DEF HeldSo
  <2>3. Verdict(m, best, held) = "collision" <=> m.hub # owner
    BY <1>9 DEF Verdict
  <2>4. b.hub # owner => Verdict(b, best, held) = "collision"
    BY <1>2, <1>9 DEF Verdict
  <2>5. b.hub = owner => \/ Verdict(b, best, held) = "repeat" /\ held[id].version >= b.version
                         \/ Verdict(b, best, held) = "apply"
    BY <1>2, <1>9 DEF Verdict
  <2> HIDE DEF b, held, id, owner
  <2>6. CASE m.hub # owner
    BY <1>7, <2>2, <2>3, <2>6 DEF HoldsForOther, id, held
  <2>7. CASE m.hub = owner
    <3>1. ASSUME b.hub = owner, Verdict(b, best, held) = "apply"
          PROVE  d1'[id].version >= m.version
      <4>1. d1'[id].version >= b.version
        BY <1>3, <1>6, <1>7, <2>2, <3>1, UpsertForward
      <4> QED
        BY <1>1, <1>2, <1>3, <1>7, <2>2, <4>1
    <3>2. ASSUME b.hub = owner, held[id].version >= b.version
          PROVE  d1'[id].version >= m.version
      BY <1>1, <1>2, <1>3, <1>7, <2>1, <2>2, <3>2
    <3>3. ASSUME b.hub # owner
          PROVE  d1'[id].version >= m.version
      <4>1. Sent(id, m.hub) /\ Sent(id, b.hub) /\ (m.version = 2 => AckAsked(id, m.hub))
            /\ (b.version = 2 => AckAsked(id, b.hub))
        BY <1>2, MessageIsSent DEF id
      <4>2. ~Contested(id)
        BY DEF Exempt, id
      <4>3. ~PaidFor(id, m.hub) /\ ~(AckAsked(id, m.hub) /\ AckAsked(id, b.hub))
        BY <2>7, <3>3, <4>1, <4>2, Uncontested
      <4>4. d1[id].version # 0
        BY <1>1, <2>2, <2>7, <4>3, CopyIsSent
      <4>5. ~(m.version = 2 /\ b.version = 2)
        BY <4>1, <4>3
      <4> QED
        BY <1>1, <1>2, <1>3, <1>7, <2>2, <4>4, <4>5
    <3>4. d1'[id].version >= m.version
      BY <2>5, <3>1, <3>2, <3>3
    <3> QED
      BY <1>7, <2>2, <2>3, <2>7, <3>4 DEF HoldsFor, id, held
  <2> QED
    BY <2>6, <2>7
<1> QED
  BY <1>8, <1>9

SaidSo(p, d) ==
    IF d.collision THEN HoldsForOther(d.id, p.hub) ELSE HoldsFor(d.id, p.hub, d.version)

\* DoneIsSo, with what each confirmation says named.
LEMMA DoneIs == DoneIsSo <=> \A p \in posts : \A d \in p.done : Exempt(d.id) \/ SaidSo(p, d)
BY DEF DoneIsSo, Exempt, SaidSo, HoldsFor, HoldsForOther

\* What was so stays so: D1's rows only move forward.
LEMMA SoStays ==
    ASSUME Base, Base', Step, NEW id \in Ids, ~Exempt(id), NEW r
    PROVE  /\ HoldsForOther(id, r) => HoldsForOther(id, r)'
           /\ \A v \in Int : HoldsFor(id, r, v) => HoldsFor(id, r, v)'
<1>1. ASSUME d1[id].state # "none"
      PROVE  /\ d1'[id].state # "none" /\ d1'[id].recipient = d1[id].recipient
             /\ d1'[id].version >= d1[id].version
             /\ d1[id].version \in Int /\ d1'[id].version \in Int
  <2>1. /\ d1'[id].state # "none" /\ d1'[id].recipient = d1[id].recipient
        /\ d1'[id].version >= d1[id].version
    BY <1>1, RowForward DEF Deletes, Exempt, CopyForward
  <2> QED
    BY <1>1, <2>1 DEF Base, TypeOK, Copy, NoCopy
<1> QED
  BY <1>1 DEF HoldsFor, HoldsForOther

\* What a hub is told was so when the batch() ended and stays so.
LEMMA DonesKept ==
    ASSUME Base, Base', Step, PlansSo, DoneIsSo
    PROVE  DoneIsSo'
<1>1. ASSUME NEW p \in posts', NEW d \in p.done, ~Exempt(d.id)
      PROVE  SaidSo(p, d)'
  <2>1. d \in Done /\ d.id \in Ids /\ d.version \in Int
    BY <1>1 DEF Base, TypeOK, Done, Versions
  <2>2. CASE p \in posts
    BY <1>1, <2>1, <2>2, DoneIs, SoStays DEF SaidSo
  <2>3. CASE Told(p)
    <3>1. PICK c \in Consumers :
            /\ pass[c].step = "write"
            /\ \E best \in Bests(pass[c].batch) :
                  /\ d1' = Written(best, pass[c].held)
                  /\ p.done = DonesFor(p.hub, pass[c].batch, best, pass[c].held)
      BY <2>3 DEF Told
    <3>2. PICK best \in Bests(pass[c].batch) :
            /\ d1' = Written(best, pass[c].held)
            /\ p.done = DonesFor(p.hub, pass[c].batch, best, pass[c].held)
      BY <3>1
    <3>3. PICK m \in pass[c].batch :
            /\ m.hub = p.hub /\ d.id = m.id /\ d.version = m.version
            /\ d.collision = (Verdict(m, best, pass[c].held) = "collision")
      BY <1>1, <3>2 DEF DonesFor
    <3> QED
      BY <1>1, <3>1, <3>2, <3>3, VerdictSo DEF SaidSo
  <2> QED
    BY <2>2, <2>3 DEF Step, PostStep
<1>2. \A p \in posts' : \A d \in p.done : Exempt(d.id)' <=> Exempt(d.id)
  BY SentStays DEF Step, Exempt, Base, TypeOK, Done
<1> QED
  BY <1>1, <1>2, DoneIs DEF DoneIsSo, Exempt, SaidSo, HoldsFor, HoldsForOther

\* D1 holds the id for another recipient, or with its acknowledgment.
Settled(id, r) == HoldsForOther(id, r) \/ HoldsFor(id, r, 2)

\* A message on its way to D1 is of a row its hub still holds, or is settled.
MessageKept(m) == Exempt(m.id) \/ m.id \in HeldIds(mail[m.hub]) \/ Settled(m.id, m.hub)

MessagesKept ==
    /\ \A m \in queue : MessageKept(m)
    /\ \A c \in Consumers : \A m \in pass[c].batch : MessageKept(m)

\* A hub lets go of a row only once D1 holds its acknowledgment, or for another.
LEMMA GoneIsSettled ==
    ASSUME Base, Step, DoneIsSo, NEW r \in Hubs, NEW id \in HeldIds(mail[r]),
           id \notin HeldIds(mail'[r]), ~Exempt(id)
    PROVE  Settled(id, r)
<1>1. ToldGone(r, id)
  BY DEF Step, MailStep
<1>2. PICK p \in posts : p.hub = r /\ \E d \in p.done : d.id = id /\ (d.collision \/ d.version = 2)
  BY <1>1 DEF ToldGone
<1>3. PICK d \in p.done : d.id = id /\ (d.collision \/ d.version = 2)
  BY <1>2
<1>4. SaidSo(p, d)
  BY <1>3, DoneIs
<1> QED
  BY <1>2, <1>3, <1>4 DEF SaidSo, Settled

\* A message under way is of a row its hub holds or D1 has settled.
LEMMA MessagesStayKept ==
    ASSUME Base, Base', Step, DoneIsSo, MessagesKept
    PROVE  MessagesKept'
<1>1. ASSUME NEW m, MessageKept(m), m.id \in Ids, m.hub \in Hubs
      PROVE  MessageKept(m)'
  <2>1. CASE Exempt(m.id)
    BY <1>1, <2>1, SentStays DEF Step, Exempt, MessageKept
  <2>2. CASE ~Exempt(m.id) /\ Settled(m.id, m.hub)
    BY <1>1, <2>2, SoStays DEF Settled, MessageKept
  <2>3. CASE ~Exempt(m.id) /\ m.id \in HeldIds(mail[m.hub])
    <3>1. CASE m.id \in HeldIds(mail'[m.hub])
      BY <3>1 DEF MessageKept, HeldIds
    <3>2. CASE m.id \notin HeldIds(mail'[m.hub])
      BY <1>1, <2>2, <2>3, <3>2, GoneIsSettled
    <3> QED
      BY <3>1, <3>2
  <2> QED
    BY <1>1, <2>1, <2>2, <2>3 DEF MessageKept
<1>2. \A m \in queue : MessageKept(m)'
  BY <1>1 DEF MessagesKept, Base, TypeOK, ArchiveMessage
<1>3. \A c \in Consumers : \A m \in pass[c].batch : MessageKept(m)'
  BY <1>1, PassMessage DEF MessagesKept, ArchiveMessage
<1>4. \A m \in queue' : MessageKept(m)'
  <2>1. ASSUME NEW m, Fresh(m) PROVE MessageKept(m)'
    BY <2>1 DEF Fresh, MessageKept, HeldIds
  <2> QED
    BY <1>2, <2>1 DEF Step, MailStep
<1>5. ASSUME NEW c \in Consumers, NEW m \in pass'[c].batch PROVE MessageKept(m)'
  <2>1. PICK n \in queue \cup pass[c].batch : SameRow(n, m)
    BY DEF Step, PassStep
  <2>2. MessageKept(n)'
    BY <1>2, <1>3
  <2> QED
    BY <2>1, <2>2 DEF SameRow, MessageKept
<1> QED
  BY <1>4, <1>5 DEF MessagesKept

\* A row new or newly versioned in D1, unacknowledged, is of a row its hub holds.
LEMMA CopiesStayHeld ==
    ASSUME Base, Base', Step, DoneIsSo, MessagesKept, RetainedCopyIsHeld
    PROVE  RetainedCopyIsHeld'
<1> SUFFICES ASSUME NEW id \in Ids, d1'[id].state = "live", d1'[id].version > 0, ~Exempt(id)'
             PROVE  id \in HeldIds(mail'[d1'[id].recipient])
  BY DEF RetainedCopyIsHeld, Exempt, HeldIds
<1>0. PICK r \in Hubs : r = d1'[id].recipient
  BY DEF Base, TypeOK, Copy, NoCopy
<1>1. ~Exempt(id) /\ d1'[id] \in Copy
  BY SentStays DEF Step, Exempt, Base, TypeOK, NoCopy
<1>2. d1'[id].version # 2
  BY CopyIsSent DEF Base, AllSent, CopySent
<1>3. ~Settled(id, r)'
  BY <1>0, <1>1, <1>2 DEF Settled, HoldsFor, HoldsForOther, Copy
<1>4. ~Settled(id, r)
  BY <1>1, <1>3, SoStays DEF Settled
<1>5. id \in HeldIds(mail[r])
  <2>1. CASE d1'[id] = d1[id]
    BY <1>0, <1>1, <2>1 DEF RetainedCopyIsHeld, Exempt
  <2>2. CASE Upserts(id)
    <3>1. PICK c \in Consumers : \E m \in pass[c].batch : m.id = id /\ d1'[id] = Upsert(d1[id], m)
      BY <2>2 DEF Upserts
    <3>2. PICK m \in pass[c].batch : m.id = id /\ d1'[id] = Upsert(d1[id], m)
      BY <3>1
    <3>3. CASE m.hub = r
      BY <1>1, <1>4, <3>2, <3>3 DEF MessagesKept, MessageKept
    <3>4. CASE m.hub # r
      <4>1. d1'[id] = d1[id]
        BY <1>0, <3>2, <3>4 DEF Upsert
      <4> QED
        BY <2>1, <4>1
    <3> QED
      BY <3>3, <3>4
  <2>3. CASE Stores(id)
    BY <2>3 DEF Stores
  <2>4. ~Deletes(id) /\ ~Acknowledges(id)
    BY <1>1 DEF Deletes, Exempt, Acknowledges, Base, TypeOK, Copy, NoCopy
  <2> QED
    BY <2>1, <2>2, <2>3, <2>4 DEF Step, D1Step
<1>6. id \in HeldIds(mail'[r])
  BY <1>1, <1>4, <1>5, GoneIsSettled
<1> QED
  BY <1>0, <1>6

\* The inductive invariant of the archive.
Archived == PlansSo /\ DoneIsSo /\ MessagesKept /\ RetainedCopyIsHeld

\* Plans, confirmations, messages under way and retained copies, together:
\* each is kept with the help of the others.
THEOREM ArchiveIsSo == TSpec => []Archived
<1>1. TInit => Archived
  <2> SUFFICES ASSUME TInit PROVE Archived
    OBVIOUS
  <2>1. \A c \in Consumers : pass[c] = Idle
    BY DEF TInit, Init
  <2>2. PlansSo /\ MessagesKept
    BY <2>1, IdleTyped DEF TInit, Init, PlansSo, MessagesKept
  <2>3. DoneIsSo
    BY DEF TInit, Init, DoneIsSo
  <2>4. RetainedCopyIsHeld
    BY DEF TInit, Init, RetainedCopyIsHeld, NoCopy
  <2> QED
    BY <2>2, <2>3, <2>4 DEF Archived
<1>2. Base /\ Base' /\ Ends /\ Archived /\ [TNext]_tvars => Archived'
  BY StepOrNone, PlansKept, DonesKept, MessagesStayKept, CopiesStayHeld DEF Archived
<1> QED
  BY <1>1, <1>2, Grounded, PTL DEF TSpec

\* What the consumer tells a hub is what D1 holds, by then and ever after,
\* however passes, sends and acknowledgments interleave with its read and its
\* write (archive_batch, done_by_recipient).
THEOREM ToldIsSo == TSpec => []DoneIsSo
<1>1. Archived => DoneIsSo
  BY DEF Archived
<1> QED
  BY <1>1, ArchiveIsSo, PTL

\* A hub lets go of a retained row only once D1 has its acknowledgment, so a
\* listing never finds in D1, unacknowledged, what its hub no longer holds.
THEOREM CopyIsHeld == TSpec => []RetainedCopyIsHeld
<1>1. Archived => RetainedCopyIsHeld
  BY DEF Archived
<1> QED
  BY <1>1, ArchiveIsSo, PTL

-----------------------------------------------------------------------------
(* A stored message is never lost *)

\* A send whose id and text are its own, into a retained box whose transcript
\* nobody ends.
Clean(s) ==
    /\ s \in Sends \cap work.calls /\ OneText(s) /\ ~SentElsewhere(s)
    /\ BoxOf[s.origin] \in RetainedBoxes /\ work.ends = {}

InHub(s) == s.id \in HeldIds(mail[s.hub])

InD1(id) == d1[id].state # "none"

\* A message that carries no body, and none is to be read for it.
Bodiless(m) == m.body = NoBody /\ ~m.bodyInHub

\* Of a clean send: the row of D1 has its body, and is there whenever the hub
\* may have let go of the body, a message comes without it, or the row is gone.
BodyReached(s) ==
    /\ InD1(s.id) => d1[s.id].body # NoBody
    /\ InHub(s) /\ mail[s.hub].rows[s.id].archived > 0 => InD1(s.id)
    /\ \A m \in queue : m.id = s.id /\ Bodiless(m) => InD1(s.id)
    /\ \A c \in Consumers : \A m \in pass[c].batch : m.id = s.id /\ Bodiless(m) => InD1(s.id)
    /\ calls[s] = "stored" => InHub(s) \/ InD1(s.id)

\* D1 holds the send's own text for its recipient.
CopyOf(s) == d1[s.id].state # "none" /\ d1[s.id].recipient = s.hub /\ d1[s.id].body = s.body

\* Of any send stored: only its recipient or the end of its transcript takes it.
TakenOnlyByRecipient(s) ==
    calls[s] = "stored" => InHub(s) \/ AckMade(s.id, s.hub) \/ work.ends # {} \/ CopyOf(s)

StoredReached ==
    /\ \A s \in Sends : Clean(s) => BodyReached(s)
    /\ \A s \in Sends : OneText(s) => TakenOnlyByRecipient(s)

\* What was sent under the id to the hub is the send's own text.
LEMMA OwnText ==
    ASSUME NEW s, OneText(s), NEW origin, NEW body, SentAs(s.id, s.hub, origin, body)
    PROVE  origin = s.origin /\ body \in {s.body, NoBody}
BY DEF OneText, SentAs

\* Whatever names a clean send's id is of that send.
LEMMA CleanIsOurs ==
    ASSUME NEW s, Clean(s)
    PROVE  /\ ~Exempt(s.id)
           /\ \A r, origin, body : SentAs(s.id, r, origin, body) => r = s.hub
<1>1. \A t \in Sends \cap work.calls : t.id = s.id => t.hub = s.hub /\ t.origin = s.origin
  BY DEF Clean, OneText, SentElsewhere
<1>2. ~Deletable(s.id)
  BY <1>1 DEF Clean, Deletable
<1>3. ~Contested(s.id)
  BY <1>1 DEF Contested
<1> QED
  BY <1>1, <1>2, <1>3 DEF Exempt, SentAs

\* The row D1 holds of a clean send is of its recipient and has its text.
LEMMA CleanCopy ==
    ASSUME Base, NEW s \in Sends, Clean(s), InD1(s.id), d1[s.id].body # NoBody
    PROVE  CopyOf(s)
<1>1. CopySent(s.id, d1[s.id])
  BY AskedTyped DEF Base, AllSent
<1>2. PICK origin \in Origins : SentAs(s.id, d1[s.id].recipient, origin, d1[s.id].body)
  BY <1>1 DEF CopySent, InD1
<1>3. d1[s.id].recipient = s.hub
  BY <1>2, CleanIsOurs
<1>4. d1[s.id].body \in {s.body, NoBody}
  BY <1>2, <1>3, OwnText DEF Clean
<1> QED
  BY <1>3, <1>4 DEF CopyOf, InD1

\* What is chosen once stays so.
LEMMA CleanStays ==
    ASSUME work' = work, NEW s
    PROVE  /\ Clean(s)' <=> Clean(s)
           /\ OneText(s)' <=> OneText(s)
BY DEF Clean, OneText, SentElsewhere

\* The text of a clean send stays within reach: D1 has it before the hub may
\* let go of it and before a message comes without it.
LEMMA BodyStaysReached ==
    ASSUME Base, Base', Step, DoneIsSo, NEW s \in Sends, Clean(s), BodyReached(s)
    PROVE  BodyReached(s)'
<1> DEFINE id == s.id
           r == s.hub
<1>1. id \in Ids /\ r \in Hubs /\ ~Exempt(id)
  BY AskedTyped, CleanIsOurs
<1>2. InD1(id) => InD1(id)' /\ d1'[id].body # NoBody
  <2> SUFFICES ASSUME InD1(id) PROVE d1'[id].state # "none" /\ d1'[id].body # NoBody
    BY DEF InD1
  <2>1. ~Deletes(id)
    BY <1>1 DEF Deletes, Exempt
  <2> QED
    BY <1>1, <2>1, RowForward DEF CopyForward, BodyReached, InD1
<1>3. InD1(id)' => d1'[id].body # NoBody
  <2> SUFFICES ASSUME ~InD1(id), d1'[id].state # "none" PROVE d1'[id].body # NoBody
    BY <1>2 DEF InD1
  <2>1. Stores(id) \/ Upserts(id)
    BY <1>1 DEF Step, D1Step, Acknowledges, Deletes, Exempt, InD1
  <2>2. CASE Stores(id)
    <3>1. PICK t \in Sends : d1'[id].body = t.body
      BY <2>2 DEF Stores
    <3> QED
      BY <3>1, AskedTyped, NoBodyIsNoBody
  <2>3. CASE Upserts(id)
    <3>1. PICK c \in Consumers : /\ pass[c].step = "write"
                                 /\ \E m \in pass[c].batch : m.id = id /\ d1'[id] = Upsert(d1[id], m)
      BY <2>3 DEF Upserts
    <3>2. PICK m \in pass[c].batch : m.id = id /\ d1'[id] = Upsert(d1[id], m)
      BY <3>1
    <3>3. d1'[id].body = m.body
      BY <3>2 DEF Upsert, InD1
    <3>4. ~NeedsBody(m)
      BY <3>1 DEF Base, Working
    <3>5. ~Bodiless(m)
      BY <3>2 DEF BodyReached
    <3> QED
      BY <3>3, <3>4, <3>5 DEF NeedsBody, Bodiless
  <2> QED
    BY <2>1, <2>2, <2>3
<1>4. id \in HeldIds(mail'[r]) /\ mail'[r].rows[id].archived > 0 => InD1(id)
  <2> SUFFICES ASSUME id \in HeldIds(mail'[r]), mail'[r].rows[id].archived > 0 PROVE InD1(id)
    OBVIOUS
  <2>1. ToldArchived(r, id) \/ (id \in HeldIds(mail[r]) /\ mail[r].rows[id].archived > 0)
    BY <1>1 DEF Step, MailStep
  <2>2. CASE ToldArchived(r, id)
    <3>1. PICK p \in posts : p.hub = r /\ \E d \in p.done : d.id = id /\ ~d.collision
      BY <2>2 DEF ToldArchived
    <3>2. PICK d \in p.done : d.id = id /\ ~d.collision
      BY <3>1
    <3>3. SaidSo(p, d)
      BY <1>1, <3>2, DoneIs
    <3> QED
      BY <3>2, <3>3 DEF SaidSo, HoldsFor, InD1
  <2>3. CASE id \in HeldIds(mail[r]) /\ mail[r].rows[id].archived > 0
    BY <2>3 DEF BodyReached, InHub
  <2> QED
    BY <2>1, <2>2, <2>3
<1>5. \A m \in queue' : m.id = id /\ Bodiless(m) => InD1(id)
  <2> SUFFICES ASSUME NEW m, m.id = id, Bodiless(m), Fresh(m) PROVE InD1(id)
    BY DEF BodyReached, Step, MailStep
  <2>1. m.hub = r
    BY CleanIsOurs DEF Fresh, MsgSent
  <2> QED
    BY <1>4, <2>1 DEF Fresh, Bodiless
<1>6. \A c \in Consumers : \A m \in pass'[c].batch : m.id = id /\ Bodiless(m) => InD1(id)
  <2> SUFFICES ASSUME NEW c \in Consumers, NEW m \in pass'[c].batch, m.id = id, Bodiless(m)
               PROVE  InD1(id)
    OBVIOUS
  <2>1. PICK n \in queue \cup pass[c].batch : SameRow(n, m)
    BY DEF Step, PassStep
  <2> QED
    BY <2>1 DEF SameRow, Bodiless, BodyReached
<1>7. calls'[s] = "stored" => id \in HeldIds(mail'[r]) \/ InD1(id)'
  <2> SUFFICES ASSUME calls'[s] = "stored", id \notin HeldIds(mail'[r]) PROVE d1'[id].state # "none"
    BY DEF InD1
  <2>1. CASE calls[s] = "stored" /\ InHub(s)
    <3>1. Settled(id, r)
      BY <1>1, <2>1, GoneIsSettled DEF InHub
    <3> QED
      BY <1>2, <3>1 DEF Settled, HoldsFor, HoldsForOther, InD1
  <2>2. CASE calls[s] = "stored" /\ InD1(id)
    BY <1>2, <2>2 DEF InD1
  <2>3. CASE StoredNow(s)
    BY <2>3 DEF StoredNow, PaidCopy
  <2> QED
    BY <2>1, <2>2, <2>3 DEF Step, CallStep, BodyReached
<1> QED
  BY <1>2, <1>3, <1>4, <1>5, <1>6, <1>7 DEF BodyReached, InHub, InD1, Bodiless, HeldIds

\* Only the recipient's acknowledgment takes a row away.
LEMMA TakenStays ==
    ASSUME Base, Base', Step, NEW s \in Sends, OneText(s), TakenOnlyByRecipient(s)
    PROVE  TakenOnlyByRecipient(s)'
<1> DEFINE id == s.id
           r == s.hub
<1> SUFFICES ASSUME calls'[s] = "stored", id \notin HeldIds(mail'[r]), work'.ends = {},
                    ~AckMade(id, r)'
             PROVE  CopyOf(s)'
  BY DEF TakenOnlyByRecipient, InHub, HeldIds
<1>1. id \in Ids /\ r \in Hubs /\ s \in Calls /\ work' = work
  BY AskedTyped DEF Step
<1>2. ~AckMade(id, r)
  BY DEF Step, CallStep, CallsGo, AckMade, Calls
<1>3. CASE calls[s] = "stored" /\ InHub(s)
  <2>1. mail[r].rows[id].state = "acknowledged"
    BY <1>1, <1>3 DEF Step, MailStep, InHub
  <2>2. RowsSent(r, mail[r])
    BY <1>1 DEF Base, AllSent
  <2> QED
    BY <1>2, <1>3, <2>1, <2>2 DEF RowsSent, InHub
<1>4. CASE calls[s] = "stored" /\ CopyOf(s)
  <2>1. d1[id] \in Copy /\ d1[id].state # "none" /\ d1[id].recipient = r /\ d1[id].body = s.body
    BY <1>1, <1>4 DEF CopyOf, Base, TypeOK, NoCopy
  <2>2. CASE Upserts(id)
    <3>1. PICK c \in Consumers : \E m \in pass[c].batch : m.id = id /\ d1'[id] = Upsert(d1[id], m)
      BY <2>2 DEF Upserts
    <3>2. PICK m \in pass[c].batch : m.id = id /\ d1'[id] = Upsert(d1[id], m)
      BY <3>1
    <3>3. m \in ArchiveMessage /\ MsgSent(m)
      BY PassMessage
    <3>4. CASE ~(m.version > d1[id].version /\ d1[id].recipient = m.hub)
      BY <2>1, <3>2, <3>4 DEF Upsert, CopyOf
    <3>5. CASE m.version > d1[id].version /\ d1[id].recipient = m.hub
      <4>1. m.body \in {s.body, NoBody}
        BY <2>1, <3>2, <3>3, <3>5, OwnText DEF MsgSent
      <4> DEFINE body == IF m.body # NoBody THEN m.body ELSE d1[id].body
                 mark == IF m.change = "acknowledge" THEN "acknowledged" ELSE d1[id].state
      <4>2. d1'[id] = [d1[id] EXCEPT !.body = body, !.state = mark, !.version = m.version]
        BY <2>1, <3>2, <3>5 DEF Upsert
      <4>3. body = s.body /\ mark # "none"
        BY <2>1, <4>1
      <4> HIDE DEF body, mark
      <4>4. d1'[id].recipient = r /\ d1'[id].body = body /\ d1'[id].state = mark
        BY <2>1, <4>2 DEF Copy
      <4> QED
        BY <4>3, <4>4 DEF CopyOf
    <3> QED
      BY <3>4, <3>5
  <2>3. CASE Acknowledges(id)
    <3>1. /\ d1'[id].recipient = r /\ d1'[id].body = s.body /\ d1'[id].state = "acknowledged"
      BY <2>1, <2>3 DEF Acknowledges, Copy
    <3> QED
      BY <3>1 DEF CopyOf
  <2>4. ~Stores(id) /\ ~Deletes(id)
    BY <1>1, <1>2, <2>1 DEF Stores, Deletes
  <2>5. CASE d1'[id] = d1[id]
    BY <2>1, <2>5 DEF CopyOf
  <2> QED
    BY <1>1, <2>2, <2>3, <2>4, <2>5 DEF Step, D1Step
<1>5. CASE StoredNow(s)
  BY <1>5 DEF StoredNow, PaidCopy, CopyOf
<1>6. work.ends = {}
  BY <1>1
<1> QED
  BY <1>2, <1>3, <1>4, <1>5, <1>6 DEF Step, CallStep, TakenOnlyByRecipient

\* What a stored send comes to.
LEMMA ReachedIsKept ==
    ASSUME Base, StoredReached
    PROVE  StoredIsKept
<1> SUFFICES ASSUME NEW s \in Sends, calls[s] = "stored", OneText(s)
             PROVE  LET row  == mail[s.hub].rows[s.id]
                        copy == d1[s.id]
                    IN  \/ row.state # "none" /\ row.origin = s.origin /\ row.body = s.body
                        \/ copy.state # "none" /\ copy.recipient = s.hub /\ copy.body = s.body
                        \/ /\ row.state # "live" /\ AckMade(s.id, s.hub)
                           /\ BoxOf[s.origin] \notin RetainedBoxes \/ SentElsewhere(s)
                        \/ row.state # "live" /\ work.ends # {}
  BY DEF StoredIsKept
<1> DEFINE row == mail[s.hub].rows[s.id]
<1>1. s.id \in Ids /\ s.hub \in Hubs /\ s \in Calls /\ s \in work.calls
  BY AskedTyped DEF Base, AllSent
<1>2. Sound(mail[s.hub]) /\ RowsSent(s.hub, mail[s.hub])
  BY <1>1 DEF Base, HubsSound, AllSent
<1>3. TakenOnlyByRecipient(s) /\ (Clean(s) => BodyReached(s))
  BY DEF StoredReached
<1>4. Clean(s) /\ InD1(s.id) => CopyOf(s)
  BY <1>3, CleanCopy DEF BodyReached
<1>5. CASE InHub(s)
  <2>1. SentAs(s.id, s.hub, row.origin, row.body) /\ (row.state = "acknowledged" => AckMade(s.id, s.hub))
    BY <1>2, <1>5 DEF RowsSent, InHub
  <2>2. row \in Row /\ RowKeepsBody(row) /\ row.state # "none"
    BY <1>2, <1>5, HeldRow DEF InHub, HeldIds
  <2>3. row.origin = s.origin /\ row.body \in {s.body, NoBody}
    BY <2>1, OwnText
  <2> HIDE DEF row
  <2>4. CASE row.body = s.body
    BY <2>2, <2>3, <2>4 DEF row
  <2>5. CASE row.body = NoBody
    <3>1. row.state = "acknowledged" /\ row.archived > 0
      BY <2>2, <2>5 DEF RowKeepsBody
    <3>2. Clean(s) => CopyOf(s)
      BY <1>3, <1>4, <1>5, <3>1 DEF BodyReached, row
    <3> QED
      BY <1>1, <2>1, <3>1, <3>2 DEF Clean, CopyOf, row
  <2> QED
    BY <2>3, <2>4, <2>5
<1>6. CASE ~InHub(s)
  <2>1. row.state = "none"
    BY <1>1, <1>6 DEF InHub, HeldIds
  <2>2. Clean(s) => CopyOf(s)
    BY <1>3, <1>4, <1>6 DEF BodyReached
  <2>3. AckMade(s.id, s.hub) \/ work.ends # {} \/ CopyOf(s)
    BY <1>3, <1>6 DEF TakenOnlyByRecipient
  <2> QED
    BY <1>1, <2>1, <2>2, <2>3 DEF Clean, CopyOf
<1> QED
  BY <1>5, <1>6

\* No message told "stored" is lost, whatever hop, queue message, pass or
\* confirmation is lost, repeated or late: until its recipient acknowledges it
\* or its transcript ends, its text is in the hub or, for its recipient, in D1.
THEOREM StoredStays == TSpec => []StoredIsKept
<1>1. TInit => StoredReached
  <2> SUFFICES ASSUME TInit PROVE StoredReached
    OBVIOUS
  <2>1. \A s \in Sends : calls[s] = "new" /\ s.id \notin HeldIds(mail[s.hub]) /\ ~InD1(s.id)
    BY AskedTyped DEF TInit, Init, Calls, HeldIds, EmptyMailbox, NoRow, InD1, NoCopy
  <2>2. queue = {} /\ \A c \in Consumers : pass[c].batch = {}
    BY IdleTyped DEF TInit, Init
  <2> QED
    BY <2>1, <2>2 DEF StoredReached, BodyReached, TakenOnlyByRecipient, InHub
<1>2. Base /\ Base' /\ Ends /\ Archived /\ StoredReached /\ [TNext]_tvars => StoredReached'
  <2> SUFFICES ASSUME Base, Base', Ends, Archived, StoredReached, [TNext]_tvars
               PROVE  StoredReached'
    OBVIOUS
  <2>1. Step /\ work' = work /\ DoneIsSo
    BY StepOrNone DEF Step, Archived
  <2>2. ASSUME NEW s \in Sends, Clean(s)' PROVE BodyReached(s)'
    <3>1. Clean(s)
      BY <2>1, <2>2, CleanStays
    <3> QED
      BY <2>1, <3>1, BodyStaysReached DEF StoredReached
  <2>3. ASSUME NEW s \in Sends, OneText(s)' PROVE TakenOnlyByRecipient(s)'
    <3>1. OneText(s)
      BY <2>1, <2>3, CleanStays
    <3> QED
      BY <2>1, <3>1, TakenStays DEF StoredReached
  <2> QED
    BY <2>2, <2>3 DEF StoredReached
<1>3. Base /\ StoredReached => StoredIsKept
  BY ReachedIsKept
<1> QED
  BY <1>1, <1>2, <1>3, Grounded, ArchiveIsSo, PTL DEF TSpec

-----------------------------------------------------------------------------
(* The listings *)

\* No id is there under two bodies.
OncePerId(S) == \A e, f \in S : e.id = f.id => e = f

ListsOnce == \A l \in Lists : OncePerId(lists[l].rows) /\ OncePerId(lists[l].d1)

\* A listing moves by its own three steps.
LEMMA ListSteps ==
    ASSUME Base, [TNext]_tvars, NEW l \in Lists
    PROVE  lists'[l] = lists[l] \/ ListHub(l) \/ ListD1(l) \/ ListMerge(l)
<1>1. ASSUME NEW k \in Lists, ListHub(k) \/ ListD1(k) \/ ListMerge(k)
      PROVE  lists'[l] = lists[l] \/ ListHub(l) \/ ListD1(l) \/ ListMerge(l)
  <2>1. CASE k = l
    BY <1>1, <2>1
  <2>2. CASE k # l
    <3>1. lists \in [Lists -> Listing]
      BY DEF Base, TypeOK
    <3>2. \E new : lists' = [lists EXCEPT ![k] = new]
      <4>1. CASE ListHub(k)
        BY <4>1 DEF ListHub
      <4>2. CASE ListD1(k)
        <5>1. \E a, b : lists' = [lists EXCEPT ![k].step = a, ![k].d1 = b]
          BY <4>2 DEF ListD1
        <5> QED
          BY <3>1, <5>1
      <4>3. CASE ListMerge(k)
        <5>1. \E a, b, c : lists' = [lists EXCEPT ![k].step = a, ![k].d1 = b, ![k].rows = c]
          BY <4>3 DEF ListMerge
        <5> QED
          BY <3>1, <5>1
      <4> QED
        BY <1>1, <4>1, <4>2, <4>3
    <3> QED
      BY <2>2, <3>1, <3>2
  <2> QED
    BY <2>1, <2>2
<1>2. CASE Relay
  <2>1. CASE lists' = lists
    BY <2>1
  <2>2. CASE \E k \in Lists : ListHub(k) \/ ListD1(k) \/ ListMerge(k)
    BY <1>1, <2>2
  <2> QED
    BY <1>2, <2>1, <2>2
       DEF Relay, Next, Post, HopFails, HandleInsert, HandleAck, LegacyLook, LegacyWrite, LegacyFails,
           StorePaid, Take, ReadHeld, Write, PassFails, ReadBodies, BodiesFail, Tell, TellLost, Age
<1>3. CASE lists' = lists
  BY <1>3
<1>4. [TNext]_tvars /\ ~Relay => lists' = lists
  BY DEF TNext, PurgeGate, PurgeDelete, PurgeMark, PurgeFails, SweepBegins, SweepStep, SweepFails,
         ReadRows, ReadMarker, RowAges, WindowPasses, relay, tvars, vars
<1> QED
  BY <1>2, <1>3, <1>4

\* The merge keeps D1's row or the hub's of an id, never both.
LEMMA MergeOnce ==
    ASSUME NEW fromD1, NEW rows, NEW held, OncePerId(fromD1), OncePerId(rows)
    PROVE  OncePerId(Merge(fromD1, rows, held))
BY DEF Merge, OncePerId

\* The fields of a listing after its merge, and after D1's answer.
LEMMA ListFields ==
    ASSUME Base, NEW l \in Lists
    PROVE  /\ ListHub(l) => /\ lists'[l].d1 = {} /\ lists'[l].step = "d1"
                            /\ OncePerId(lists'[l].rows)
           /\ ListD1(l) => /\ lists'[l].rows = lists[l].rows /\ lists'[l].step = "merge"
                           /\ OncePerId(lists'[l].d1)
           /\ ListMerge(l) =>
                 /\ lists'[l].rows = Merge(lists[l].d1, lists[l].rows, HeldIds(mail[l.hub]))
                 /\ lists'[l].d1 = {}
<1>1. lists \in [Lists -> Listing] /\ lists[l] \in Listing
  BY DEF Base, TypeOK
<1>2. ASSUME ListHub(l)
      PROVE  lists'[l].d1 = {} /\ lists'[l].step = "d1" /\ OncePerId(lists'[l].rows)
  <2> DEFINE r == l.hub
             rows == {[id |-> id, body |-> mail[r].rows[id].body] :
                        id \in {x \in LiveIds(mail[r]) : BoxOf[mail[r].rows[x].origin] = l.box}}
  <2>1. lists'[l] = [step |-> "d1", d1 |-> {}, rows |-> rows]
    BY <1>1, <1>2 DEF ListHub
  <2>2. OncePerId(rows)
    BY DEF OncePerId
  <2> HIDE DEF rows
  <2> QED
    BY <2>1, <2>2
<1>3. ASSUME ListD1(l)
      PROVE  /\ lists'[l].rows = lists[l].rows /\ lists'[l].step = "merge"
             /\ OncePerId(lists'[l].d1)
  <2> DEFINE found == {[id |-> id, body |-> d1[id].body] :
                          id \in {x \in LiveInD1(l.hub) : BoxOf[d1[x].origin] = l.box}}
  <2>1. lists' = [lists EXCEPT ![l].step = "merge", ![l].d1 = found]
    BY <1>3 DEF ListD1
  <2>2. OncePerId(found)
    BY DEF OncePerId
  <2> HIDE DEF found
  <2>3. lists'[l] = [lists[l] EXCEPT !.step = "merge", !.d1 = found]
    BY <1>1, <2>1
  <2> QED
    BY <1>1, <2>2, <2>3 DEF Listing
<1>4. ASSUME ListMerge(l)
      PROVE  /\ lists'[l].rows = Merge(lists[l].d1, lists[l].rows, HeldIds(mail[l.hub]))
             /\ lists'[l].d1 = {}
  <2> DEFINE merged == Merge(lists[l].d1, lists[l].rows, HeldIds(mail[l.hub]))
  <2>1. lists' = [lists EXCEPT ![l].step = "answered", ![l].d1 = {}, ![l].rows = merged]
    BY <1>4 DEF ListMerge
  <2> HIDE DEF merged
  <2>2. lists'[l] = [lists[l] EXCEPT !.step = "answered", !.d1 = {}, !.rows = merged]
    BY <1>1, <2>1
  <2>3. lists'[l].rows = merged /\ lists'[l].d1 = {}
    BY <1>1, <2>2 DEF Listing
  <2> QED
    BY <2>3 DEF merged
<1> QED
  BY <1>2, <1>3, <1>4

\* A listing under way has each id once in either answer.
LEMMA ListsStayOnce ==
    ASSUME Base, [TNext]_tvars, ListsOnce
    PROVE  ListsOnce'
<1> SUFFICES ASSUME NEW l \in Lists
             PROVE  OncePerId(lists'[l].rows) /\ OncePerId(lists'[l].d1)
  BY DEF ListsOnce, OncePerId
<1>1. OncePerId(lists[l].rows) /\ OncePerId(lists[l].d1) /\ OncePerId({})
  BY DEF ListsOnce, OncePerId
<1>2. OncePerId(Merge(lists[l].d1, lists[l].rows, HeldIds(mail[l.hub])))
  BY <1>1, MergeOnce
<1> QED
  BY <1>1, <1>2, ListSteps, ListFields

\* A listing misses no row that stayed live and names no id twice, though the
\* hub's rows, D1's and the held ids are read at three times (handle_list).
THEOREM ListingIsWhole == TSpec => LiveIsListed
<1>1. TInit => ListsOnce
  BY DEF TInit, Init, ListsOnce, OncePerId
<1>2. Base /\ ListsOnce /\ [TNext]_tvars => ListsOnce'
  BY ListsStayOnce
<1>3. ASSUME Base, ListsOnce, [TNext]_tvars, NEW l \in Lists,
             lists[l].step = "merge", lists'[l].step = "answered"
      PROVE  /\ \A e \in lists[l].rows : e.id \in LiveIds(mail[l.hub]) => e \in lists'[l].rows
             /\ \A e \in lists[l].d1 :
                   e.id \in LiveInD1(l.hub) \ HeldIds(mail[l.hub]) => e \in lists'[l].rows
             /\ \A e, f \in lists'[l].rows : e.id = f.id => e = f
  <2>1. ListMerge(l)
    BY <1>3, ListSteps, ListFields
  <2>2. lists'[l].rows = Merge(lists[l].d1, lists[l].rows, HeldIds(mail[l.hub]))
    BY <1>3, <2>1, ListFields
  <2>3. LiveIds(mail[l.hub]) \subseteq HeldIds(mail[l.hub])
    BY DEF LiveIds, HeldIds
  <2>4. OncePerId(lists'[l].rows)
    BY <1>3, <2>2, MergeOnce DEF ListsOnce
  <2> QED
    BY <2>2, <2>3, <2>4 DEF Merge, OncePerId
<1>4. Base /\ ListsOnce /\ [TNext]_tvars =>
        [\A l \in Lists :
          lists[l].step = "merge" /\ lists'[l].step = "answered" =>
              /\ \A e \in lists[l].rows : e.id \in LiveIds(mail[l.hub]) => e \in lists'[l].rows
              /\ \A e \in lists[l].d1 :
                    e.id \in LiveInD1(l.hub) \ HeldIds(mail[l.hub]) => e \in lists'[l].rows
              /\ \A e, f \in lists'[l].rows : e.id = f.id => e = f]_vars
  BY <1>3
<1> QED
  BY <1>1, <1>2, <1>4, Grounded, PTL DEF TSpec, LiveIsListed

-----------------------------------------------------------------------------
(* The transcripts *)

\* A marker of this box for this party, within its window.
MarkedNow(b, who) == \E m \in markers : m.box = b /\ m.who = who /\ ~m.stale

MarkersKept == \A b, who : MarkedNow(b, who) => MarkedNow(b, who)'

\* A row of D1 this one holds still, in the same box.
RowKept(id) == id \in Stored' /\ d1'[id].origin = d1[id].origin

\* INSERT OR REPLACE of a marker leaves every box marked that was.
LEMMA MarkingKeeps ==
    ASSUME NEW boxes, NEW who, markers' = Marked(boxes, who)
    PROVE  MarkersKept /\ \A b \in boxes : MarkedNow(b, who)'
<1>1. ASSUME NEW b \in boxes PROVE MarkedNow(b, who)'
  <2>1. [box |-> b, who |-> who, stale |-> FALSE] \in markers'
    BY DEF Marked
  <2> QED
    BY <2>1 DEF MarkedNow
<1>2. ASSUME NEW b, NEW w, MarkedNow(b, w) PROVE MarkedNow(b, w)'
  <2>1. CASE b \in boxes /\ w = who
    BY <1>1, <2>1
  <2>2. CASE ~(b \in boxes /\ w = who)
    <3>1. PICK m \in markers : m.box = b /\ m.who = w /\ ~m.stale
      BY <1>2 DEF MarkedNow
    <3>2. m \in markers'
      BY <2>2, <3>1 DEF Marked
    <3> QED
      BY <3>1, <3>2 DEF MarkedNow
  <2> QED
    BY <2>1, <2>2
<1> QED
  BY <1>1, <1>2 DEF MarkersKept

\* The relay deletes nothing of the retained boxes, and moves no row to another.
LEMMA RelayKeepsRetained ==
    ASSUME Base, Next, NEW id \in Stored, BoxOf[d1[id].origin] \in RetainedBoxes
    PROVE  RowKept(id)
<1>1. id \in Ids /\ d1[id] \in Copy
  BY DEF Stored, Base, TypeOK, NoCopy
<1>2. ASSUME d1'[id] = d1[id] PROVE RowKept(id)
  BY <1>1, <1>2 DEF RowKept, Stored
<1>3. ASSUME NEW l \in legacy, LegacyWrite(l) PROVE RowKept(id)
  <2> DEFINE r == l.hop.call.hub
  <2>1. d1'[id] = IF id \in l.ids THEN AcknowledgedInD1(d1[id], r) ELSE d1[id]
    BY <1>1, <1>3 DEF LegacyWrite
  <2> HIDE DEF r
  <2>2. d1'[id] = d1[id] \/ d1'[id] = [d1[id] EXCEPT !.state = "acknowledged"]
    BY <2>1 DEF AcknowledgedInD1
  <2>3. CASE d1'[id] = [d1[id] EXCEPT !.state = "acknowledged"]
    <3>1. d1'[id].state = "acknowledged" /\ d1'[id].origin = d1[id].origin
      BY <1>1, <2>3 DEF Copy
    <3> QED
      BY <1>1, <3>1 DEF RowKept, Stored
  <2> QED
    BY <1>2, <2>2, <2>3
<1>4. ASSUME NEW s \in Sends, StorePaid(s) PROVE RowKept(id)
  <2>1. d1'[id] = d1[id]
    BY <1>1, <1>4 DEF StorePaid, Stored, Base, TypeOK
  <2> QED
    BY <1>2, <2>1
<1>5. ASSUME NEW c \in Consumers, NEW best \in Bests(pass[c].batch),
             d1' = Written(best, pass[c].held)
      PROVE  RowKept(id)
  <2>1. CASE d1'[id] = d1[id]
    BY <1>2, <2>1
  <2>2. CASE d1'[id] # d1[id]
    <3>1. id \in DOMAIN best /\ d1'[id] = Upsert(d1[id], best[id])
      BY <1>1, <1>5, <2>2 DEF Written
    <3>2. best[id] \in ArchiveMessage
      BY <1>5, <3>1, PassMessage DEF Bests
    <3>3. d1'[id].state # "none"
      BY <1>1, <3>1, <3>2, UpsertForward
    <3>4. d1'[id].origin = d1[id].origin
      BY <1>1, <2>2, <3>1 DEF Upsert, Stored, Copy
    <3> QED
      BY <1>1, <3>3, <3>4 DEF RowKept, Stored
  <2> QED
    BY <2>1, <2>2
<1>6. ASSUME NEW c \in Consumers, Write(c) PROVE RowKept(id)
  BY <1>5, <1>6 DEF Write
<1>7. ASSUME NEW c \in Consumers, PassFails(c) PROVE RowKept(id)
  BY <1>2, <1>5, <1>7 DEF PassFails
<1>8. CASE d1' = d1
  BY <1>2, <1>8
<1> QED
  BY <1>3, <1>4, <1>6, <1>7, <1>8
     DEF Next, Post, HopFails, HandleInsert, HandleAck, LegacyLook, LegacyFails, ListHub, ListD1,
         ListMerge, Take, ReadHeld, ReadBodies, BodiesFail, Tell, TellLost, Age

\* What was cut is marked.
CutsMarked == \A c \in cut : MarkedNow(c.box, c.by)

\* What a purge deleted is of its box and its caller.
GoneIsOfPurge == \A p \in Purges : \A c \in purges[p].gone : c.box = p.box /\ c.by = p.who

\* What was expired when the sweep began is so until its rows go, and its boxes
\* are marked before.
SeenIsExpired == sweep.step \in {1, 2} => sweep.seen \subseteq Expired

SeenIsMarked == sweep.step = 2 => \A id \in sweep.seen : MarkedNow(BoxOf[d1[id].origin], Everyone)

\* A read that saw a cut transcript finds the marker when it comes to look.
CutWillBeSaid ==
    \A r \in Reads : reads[r].step = "marker" /\ reads[r].cut =>
        MarkedNow(r.box, r.who) \/ MarkedNow(r.box, Everyone)

Marking == CutsMarked /\ GoneIsOfPurge /\ SeenIsExpired /\ SeenIsMarked /\ CutWillBeSaid /\ CutIsSaid

\* Expired rows that are kept stay expired.
LEMMA ExpiredStays ==
    ASSUME old \subseteq old', NEW id \in Expired, RowKept(id)
    PROVE  id \in Expired' /\ BoxOf[d1'[id].origin] = BoxOf[d1[id].origin]
BY DEF Expired, RowKept

\* A step that keeps the markers and leaves the sweep where it is.
LEMMA SeenStays ==
    ASSUME Marking, MarkersKept, old \subseteq old', sweep'.step = sweep.step,
           \A id \in sweep'.seen : id \in sweep.seen /\ (id \in Expired => RowKept(id))
    PROVE  SeenIsExpired' /\ SeenIsMarked'
<1>1. SeenIsExpired'
  BY ExpiredStays DEF Marking, SeenIsExpired
<1>2. SeenIsMarked'
  <2> SUFFICES ASSUME sweep.step = 2, NEW id \in sweep'.seen
               PROVE  MarkedNow(BoxOf[d1[id].origin], Everyone)'
    BY DEF SeenIsMarked
  <2>1. id \in Expired /\ RowKept(id) /\ id \in sweep.seen
    BY DEF Marking, SeenIsExpired
  <2>2. MarkedNow(BoxOf[d1[id].origin], Everyone)
    BY <2>1 DEF Marking, SeenIsMarked
  <2>3. BoxOf[d1'[id].origin] = BoxOf[d1[id].origin]
    BY <2>1 DEF RowKept
  <2> QED
    BY <2>2, <2>3 DEF MarkersKept, MarkedNow
<1> QED
  BY <1>1, <1>2

\* One that leaves the reads, or the cuts, or the purges.
LEMMA ReadsStay ==
    ASSUME Marking, MarkersKept, reads' = reads
    PROVE  CutWillBeSaid' /\ CutIsSaid'
BY DEF Marking, CutWillBeSaid, CutIsSaid, MarkersKept

\* Cuts stay marked while markers stay and nothing is cut.
LEMMA CutsStay ==
    ASSUME Marking, MarkersKept, cut' = cut
    PROVE  CutsMarked'
BY DEF Marking, CutsMarked, MarkersKept

\* What a purge deleted is still its own.
LEMMA GoneStays ==
    ASSUME Marking, \A p \in Purges : purges'[p].gone = purges[p].gone
    PROVE  GoneIsOfPurge'
BY DEF Marking, GoneIsOfPurge

\* D1 as it was.
LEMMA RowsKept ==
    ASSUME d1' = d1, NEW id \in Expired
    PROVE  RowKept(id)
BY DEF Expired, RowKept, Stored

\* A purge's step to another state, and what it deletes of what the sweep saw.
LEMMA PurgeTyped ==
    ASSUME Ends, NEW p \in Purges
    PROVE  /\ \A step : purges' = [purges EXCEPT ![p].step = step] =>
                           \A q \in Purges : purges'[q].gone = purges[q].gone
           /\ \A gone : sweep' = [sweep EXCEPT !.seen = sweep.seen \ gone] =>
                           sweep'.step = sweep.step /\ sweep'.seen = sweep.seen \ gone
BY DEF Ends, TranscriptTypeOK

\* A delete of other rows keeps this one.
LEMMA WithoutKeeps ==
    ASSUME NEW gone, d1' = Without(gone), NEW id \in Expired, id \notin gone
    PROVE  RowKept(id)
BY DEF Expired, RowKept, Stored, Without

\* purge_transcript keeps Marking: it is answered only once it has marked.
LEMMA PurgeMarking ==
    ASSUME Ends, Marking, NEW p \in Purges,
           PurgeGate(p) \/ PurgeDelete(p) \/ PurgeMark(p) \/ PurgeFails(p)
    PROVE  Marking'
<1> DEFINE gone == Received(p.who, p.box)
<1>1. old' = old /\ reads' = reads
  BY DEF PurgeGate, PurgeDelete, PurgeMark, PurgeFails
<1>2. ASSUME markers' = markers PROVE MarkersKept
  BY <1>2 DEF MarkersKept, MarkedNow
<1>3. ASSUME MarkersKept, GoneIsOfPurge', cut' = cut,
             \/ sweep' = sweep /\ d1' = d1
             \/ d1' = Without(gone) /\ sweep' = [sweep EXCEPT !.seen = sweep.seen \ gone]
      PROVE  Marking'
  <2>1. /\ sweep'.step = sweep.step
        /\ \A id \in sweep'.seen : id \in sweep.seen /\ (id \in Expired => RowKept(id))
    BY <1>3, PurgeTyped, RowsKept, WithoutKeeps
  <2> QED
    BY <1>1, <1>3, <2>1, SeenStays, ReadsStay, CutsStay DEF Marking
<1> HIDE DEF gone
<1>4. CASE PurgeGate(p)
  BY <1>4, <1>2, <1>3, PurgeTyped, GoneStays DEF PurgeGate, relay
<1>5. CASE PurgeDelete(p)
  <2> DEFINE rows == {CutRow(id, p.who) : id \in gone}
  <2>1. /\ purges' = [purges EXCEPT ![p] = [step |-> "mark", gone |-> rows]]
        /\ d1' = Without(gone) /\ sweep' = [sweep EXCEPT !.seen = sweep.seen \ gone]
        /\ markers' = markers /\ cut' = cut
    BY <1>5 DEF PurgeDelete, gone
  <2>2. \A c \in rows : c.box = p.box /\ c.by = p.who
    BY DEF CutRow, gone, Received, InBox
  <2> HIDE DEF rows
  <2>3. purges'[p].gone = rows /\ \A q \in Purges : q # p => purges'[q] = purges[q]
    <3>1. purges'[p] = [step |-> "mark", gone |-> rows]
      BY <2>1 DEF Ends, TranscriptTypeOK
    <3>2. \A q \in Purges : q # p => purges'[q] = purges[q]
      BY <2>1 DEF Ends, TranscriptTypeOK
    <3> QED
      BY <3>1, <3>2
  <2>4. GoneIsOfPurge'
    BY <2>2, <2>3 DEF Marking, GoneIsOfPurge
  <2> QED
    BY <1>2, <1>3, <2>1, <2>4
<1>6. CASE PurgeMark(p)
  <2>1. /\ markers' = Marked({p.box}, p.who) /\ cut' = cut \cup purges[p].gone
        /\ purges' = [purges EXCEPT ![p].step = "answered"] /\ d1' = d1 /\ sweep' = sweep
    BY <1>6 DEF PurgeMark, relay
  <2>2. MarkersKept /\ MarkedNow(p.box, p.who)'
    BY <2>1, MarkingKeeps
  <2>3. GoneIsOfPurge'
    BY <2>1, PurgeTyped, GoneStays
  <2>4. CutsMarked'
    BY <2>1, <2>2 DEF Marking, CutsMarked, GoneIsOfPurge, MarkersKept
  <2>5. \A id \in sweep'.seen : id \in sweep.seen /\ (id \in Expired => RowKept(id))
    BY <2>1, RowsKept
  <2> QED
    BY <1>1, <2>1, <2>2, <2>3, <2>4, <2>5, SeenStays, ReadsStay DEF Marking
<1>7. CASE PurgeFails(p)
  <2>1. /\ purges' = [purges EXCEPT ![p].step = "failed"] /\ cut' = cut
        /\ markers' = markers \/ markers' = Marked({p.box}, p.who)
        /\ \/ sweep' = sweep /\ d1' = d1
           \/ d1' = Without(gone) /\ sweep' = [sweep EXCEPT !.seen = sweep.seen \ gone]
    BY <1>7 DEF PurgeFails, gone
  <2>2. MarkersKept
    BY <1>2, <2>1, MarkingKeeps
  <2> QED
    BY <1>3, <2>1, <2>2, PurgeTyped, GoneStays
<1> QED
  BY <1>4, <1>5, <1>6, <1>7

\* The statements of the sweep: the markers first, then the rows it saw.
LEMMA StatementMarking ==
    ASSUME Ends, Marking, sweep.step \in 1 .. 4, Statement(SweepOrder[sweep.step])
    PROVE  /\ MarkersKept /\ CutsMarked'
           /\ sweep.step = 1 => /\ d1' = d1
                                /\ \A id \in Expired : MarkedNow(BoxOf[d1[id].origin], Everyone)'
<1>1. CASE sweep.step = 1
  <2> DEFINE boxes == {BoxOf[d1[id].origin] : id \in Expired}
  <2>1. markers' = Marked(boxes, Everyone) /\ d1' = d1 /\ cut' = cut
    BY <1>1 DEF Statement, SweepOrder
  <2>2. MarkersKept /\ \A b \in boxes : MarkedNow(b, Everyone)'
    BY <2>1, MarkingKeeps
  <2>3. ASSUME NEW id \in Expired PROVE MarkedNow(BoxOf[d1[id].origin], Everyone)'
    <3>1. PICK b \in boxes : b = BoxOf[d1[id].origin]
      OBVIOUS
    <3>2. MarkedNow(b, Everyone)' /\ BoxOf[d1'[id].origin] = b
      BY <2>1, <2>2, <3>1
    <3> QED
      BY <3>2 DEF MarkedNow
  <2> HIDE DEF boxes
  <2> QED
    BY <2>1, <2>2, <2>3, CutsStay
<1>2. CASE sweep.step = 2
  <2>1. markers' = markers /\ cut' = cut \cup {CutRow(id, Everyone) : id \in Expired \cap sweep.seen}
    BY <1>2 DEF Statement, SweepOrder
  <2>2. MarkersKept
    BY <2>1 DEF MarkersKept, MarkedNow
  <2>3. ASSUME NEW id \in sweep.seen
        PROVE  MarkedNow(CutRow(id, Everyone).box, CutRow(id, Everyone).by)
    BY <1>2, <2>3 DEF Marking, SeenIsMarked, CutRow
  <2> QED
    BY <1>2, <2>1, <2>2, <2>3 DEF MarkersKept, Marking, CutsMarked
<1>3. CASE sweep.step = 3
  <2>1. markers' = markers /\ cut' = cut
    BY <1>3 DEF Statement, SweepOrder
  <2>2. MarkersKept
    BY <2>1 DEF MarkersKept, MarkedNow
  <2> QED
    BY <1>3, <2>1, <2>2, CutsStay
<1>4. CASE sweep.step = 4
  <2>1. markers' = {m \in markers : ~m.stale} /\ cut' = cut
    BY <1>4 DEF Statement, SweepOrder
  <2>2. MarkersKept
    BY <2>1 DEF MarkersKept, MarkedNow
  <2> QED
    BY <1>4, <2>1, <2>2, CutsStay
<1> QED
  BY <1>1, <1>2, <1>3, <1>4

\* So does the sweep: it marks what has expired before it deletes it.
LEMMA SweepMarking ==
    ASSUME Ends, Marking, SweepBegins \/ SweepStep \/ SweepFails
    PROVE  Marking'
<1>1. sweep \in [step : 0 .. 4, seen : SUBSET Ids]
  BY DEF Ends, TranscriptTypeOK, SweepOrder
<1>2. old' = old /\ reads' = reads /\ purges' = purges
  BY DEF SweepBegins, SweepStep, SweepFails
<1>3. GoneIsOfPurge'
  BY <1>2, GoneStays
<1>4. MarkersKept /\ CutsMarked'
  <2>1. CASE sweep.step # 0 /\ Statement(SweepOrder[sweep.step])
    BY <1>1, <2>1, StatementMarking
  <2>2. CASE markers' = markers /\ cut' = cut
    <3>1. MarkersKept
      BY <2>2 DEF MarkersKept, MarkedNow
    <3> QED
      BY <2>2, <3>1, CutsStay
  <2> QED
    BY <2>1, <2>2 DEF SweepBegins, SweepStep, SweepFails
<1>5. SeenIsExpired' /\ SeenIsMarked'
  <2>1. CASE SweepBegins
    <3>1. sweep'.step = 1 /\ sweep'.seen = Expired /\ d1' = d1 /\ old' = old
      BY <2>1 DEF SweepBegins, relay
    <3>2. Expired' = Expired
      BY <3>1 DEF Expired, Stored
    <3> QED
      BY <3>1, <3>2 DEF SeenIsExpired, SeenIsMarked
  <2>2. CASE sweep'.step = 0
    BY <2>2 DEF SeenIsExpired, SeenIsMarked
  <2>3. CASE SweepStep /\ sweep.step = 4
    BY <1>1, <2>2, <2>3 DEF SweepStep, SweepOrder
  <2>4. CASE SweepStep /\ sweep.step # 4
    <3>1. /\ sweep' = [sweep EXCEPT !.step = sweep.step + 1] /\ sweep.step \in 1 .. 4
          /\ Statement(SweepOrder[sweep.step])
      BY <1>1, <2>4 DEF SweepStep, SweepOrder
    <3>2. sweep'.step = sweep.step + 1 /\ sweep'.seen = sweep.seen
      BY <1>1, <3>1
    <3>3. CASE sweep.step = 1
      <4>1. d1' = d1 /\ \A id \in Expired : MarkedNow(BoxOf[d1[id].origin], Everyone)'
        BY <3>1, <3>3, StatementMarking
      <4>2. sweep.seen \subseteq Expired /\ Expired' = Expired
        BY <1>2, <3>3, <4>1 DEF Marking, SeenIsExpired, Expired, Stored
      <4>3. SeenIsExpired'
        BY <3>2, <4>2 DEF SeenIsExpired
      <4>4. SeenIsMarked'
        BY <3>2, <4>1, <4>2 DEF SeenIsMarked, MarkedNow
      <4> QED
        BY <4>3, <4>4
    <3>4. CASE sweep.step # 1
      BY <3>1, <3>2, <3>4 DEF SeenIsExpired, SeenIsMarked
    <3> QED
      BY <3>3, <3>4
  <2>5. CASE SweepFails
    BY <2>2, <2>5 DEF SweepFails
  <2> QED
    BY <2>1, <2>3, <2>4, <2>5
<1>6. CutWillBeSaid' /\ CutIsSaid'
  BY <1>2, <1>4, ReadsStay
<1> QED
  BY <1>3, <1>4, <1>5, <1>6 DEF Marking

\* A read takes the rows before the marker, so it sees the marker of any
\* cut it could have missed rows of.
LEMMA ReadMarking ==
    ASSUME Ends, Marking, NEW r \in Reads, ReadRows(r) \/ ReadMarker(r)
    PROVE  Marking'
<1>1. /\ d1' = d1 /\ old' = old /\ markers' = markers /\ sweep' = sweep /\ purges' = purges
      /\ cut' = cut
  BY DEF ReadRows, ReadMarker
<1>2. MarkersKept
  BY <1>1 DEF MarkersKept, MarkedNow
<1>3. CutsMarked' /\ GoneIsOfPurge'
  BY <1>1, <1>2, CutsStay, GoneStays
<1>4. SeenIsExpired' /\ SeenIsMarked'
  BY <1>1, <1>2, RowsKept, SeenStays
<1>5. reads \in [Reads -> [step : {"new", "marker", "answered", "refused", "failed"},
                           rows : SUBSET Ids, cut : BOOLEAN, said : BOOLEAN]]
  BY DEF Ends, TranscriptTypeOK
<1>6. ASSUME NEW q \in Reads, q # r
      PROVE  reads'[q] = reads[q]
  BY <1>5, <1>6 DEF ReadRows, ReadMarker
<1>7. /\ reads'[r].step = "marker" /\ reads'[r].cut => MarkedNow(r.box, r.who) \/ MarkedNow(r.box, Everyone)
      /\ reads'[r].step = "answered" /\ reads'[r].cut => reads'[r].said
  <2>1. CASE ReadRows(r)
    <3> DEFINE new == [reads[r] EXCEPT !.step = "marker", !.rows = Transcript(r.who, r.box),
                                       !.cut = IsCut(r)]
               refused == [reads[r] EXCEPT !.step = "refused"]
    <3>1. reads'[r] = new \/ reads'[r] = refused
      BY <1>5, <2>1 DEF ReadRows
    <3>2. new.step = "marker" /\ new.cut = IsCut(r) /\ refused.step = "refused"
      BY <1>5
    <3> HIDE DEF new, refused
    <3>3. IsCut(r) => MarkedNow(r.box, r.who) \/ MarkedNow(r.box, Everyone)
      BY DEF IsCut, Marking, CutsMarked
    <3> QED
      BY <3>1, <3>2, <3>3
  <2>2. CASE ReadMarker(r)
    <3>1. PICK step \in {"answered", "failed"} :
            reads' = [reads EXCEPT ![r].step = step, ![r].said = IsMarked(r.who, r.box)]
      BY <2>2 DEF ReadMarker
    <3> DEFINE new == [reads[r] EXCEPT !.step = step, !.said = IsMarked(r.who, r.box)]
    <3>2. reads'[r] = new
      BY <1>5, <3>1
    <3>3. new.step = step /\ new.cut = reads[r].cut /\ new.said = IsMarked(r.who, r.box)
      BY <1>5
    <3> HIDE DEF new
    <3>4. MarkedNow(r.box, r.who) \/ MarkedNow(r.box, Everyone) => IsMarked(r.who, r.box)
      BY DEF MarkedNow, IsMarked
    <3>5. reads[r].cut => MarkedNow(r.box, r.who) \/ MarkedNow(r.box, Everyone)
      BY <2>2 DEF ReadMarker, Marking, CutWillBeSaid
    <3> QED
      BY <3>1, <3>2, <3>3, <3>4, <3>5
  <2> QED
    BY <2>1, <2>2
<1>8. CutWillBeSaid'
  BY <1>2, <1>6, <1>7 DEF CutWillBeSaid, MarkersKept, Marking
<1>9. CutIsSaid'
  BY <1>6, <1>7 DEF CutIsSaid, Marking
<1> QED
  BY <1>3, <1>4, <1>8, <1>9 DEF Marking

\* So does time: a marker goes only when no cut relies on it.
LEMMA TimeMarking ==
    ASSUME Ends, Marking, (\E id \in Ids : RowAges(id)) \/ WindowPasses
    PROVE  Marking'
<1>1. /\ d1' = d1 /\ old \subseteq old' /\ sweep' = sweep /\ purges' = purges /\ reads' = reads
  BY DEF RowAges, WindowPasses
<1>2. GoneIsOfPurge'
  BY <1>1, GoneStays
<1>3. CASE markers' = markers /\ cut' = cut
  <2>1. MarkersKept
    BY <1>3 DEF MarkersKept, MarkedNow
  <2> QED
    BY <1>1, <1>2, <1>3, <2>1, RowsKept, SeenStays, ReadsStay, CutsStay DEF Marking
<1>4. CASE WindowPasses
  <2>1. cut' = {} /\ sweep.step = 0 /\ \A r \in Reads : reads[r].step # "marker"
    BY <1>4 DEF WindowPasses
  <2> QED
    BY <1>1, <1>2, <2>1
       DEF Marking, CutsMarked, SeenIsExpired, SeenIsMarked, CutWillBeSaid, CutIsSaid
<1> QED
  BY <1>3, <1>4 DEF RowAges

\* So does the relay, which deletes no row of a retained box.
LEMMA RelayMarking ==
    ASSUME Base, Marking, Relay \/ UNCHANGED tvars
    PROVE  Marking'
<1>1. /\ old' = old /\ markers' = markers /\ sweep' = sweep /\ purges' = purges
      /\ reads' = reads /\ cut' = cut
  BY DEF Relay, tvars, ends
<1>2. MarkersKept
  BY <1>1 DEF MarkersKept, MarkedNow
<1>3. ASSUME NEW id \in Expired PROVE RowKept(id)
  <2>1. CASE Relay
    BY <2>1, RelayKeepsRetained DEF Relay, Expired
  <2>2. CASE UNCHANGED tvars
    BY <2>2, RowsKept DEF tvars, vars
  <2> QED
    BY <2>1, <2>2
<1> QED
  BY <1>1, <1>2, <1>3, SeenStays, ReadsStay, CutsStay, GoneStays DEF Marking

\* A transcript that was cut says so: the sweep writes its marker before it
\* deletes and only a later window drops it, a purge answers only once its
\* marker is there, and a reader looks for the marker after the rows.
THEOREM CutTranscriptsSay == TSpec => []CutIsSaid
<1>1. TInit => Marking
  BY DEF TInit, Marking, CutsMarked, GoneIsOfPurge, SeenIsExpired, SeenIsMarked, CutWillBeSaid,
         CutIsSaid
<1>2. Base /\ Ends /\ Marking /\ [TNext]_tvars => Marking'
  BY RelayMarking, PurgeMarking, SweepMarking, ReadMarking, TimeMarking DEF TNext
<1>3. Marking => CutIsSaid
  BY DEF Marking
<1> QED
  BY <1>1, <1>2, <1>3, Grounded, PTL DEF TSpec

=============================================================================
