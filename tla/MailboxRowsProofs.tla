-------------------------- MODULE MailboxRowsProofs --------------------------
(***************************************************************************)
(* What the operations of MailboxRows keep of a mailbox, for any ids,      *)
(* bodies, sizes and limits: the lemmas that the proofs about Mailbox and  *)
(* about MailboxArchive both rest on.                                      *)
(*                                                                         *)
(* What they keep is Sound: the type, the exact counters, the bounds and   *)
(* what every row obeys, all at once.  None is kept alone: the bounds need *)
(* the counters (the insert checks the counters, the bound is about the    *)
(* rows), the counters need a live row's bytes to be its body's, and the   *)
(* type needs the version of a live row to be 1.                           *)
(***************************************************************************)
EXTENDS MailboxRows, FiniteSetTheorems, TLAPS

RowSound(row) ==
    /\ row \in Row
    /\ RowOwedUntilConfirmed(row)
    /\ RowKeepsBody(row)
    /\ RowVersionIsChange(row)

RowsSound(m) == \A id \in Ids : m.rows[id] = NoRow \/ RowSound(m.rows[id])

Sound(m) ==
    /\ m \in MailboxState
    /\ RowsSound(m)
    /\ RowsExact(m) /\ BytesExact(m) /\ Bounded(m)

-----------------------------------------------------------------------------
(* Rows *)

\* The row an insert writes obeys what every row does.
LEMMA NewRowSound ==
    ASSUME NEW origin \in Origins, NEW body \in Bodies
    PROVE  /\ RowSound(NewRow(origin, body))
           /\ NewRow(origin, body).state = "live"
           /\ NewRow(origin, body).bytes = SizeOf[body]
BY SizesAreNat, NoBodyIsNoBody
   DEF RowSound, NewRow, Row, Versions, RowOwedUntilConfirmed, RowKeepsBody, RowVersionIsChange

\* The updates the operations make of a row give a row.
LEMMA RowUpdatedAck ==
    ASSUME NEW row \in Row, NEW version \in Versions, NEW body \in Bodies \cup {NoBody}
    PROVE  [row EXCEPT !.state = "acknowledged", !.version = version,
                       !.owed = TRUE, !.due = FALSE, !.body = body] \in Row
BY DEF Row

\* A row confirmed at an older version than its own is a row.
LEMMA RowUpdatedOlder ==
    ASSUME NEW row \in Row, NEW archived \in 0 .. 2
    PROVE  [row EXCEPT !.archived = archived, !.body = NoBody] \in Row
BY DEF Row

\* A live row confirmed, or refused for a collision, is a row.
LEMMA RowUpdatedKept ==
    ASSUME NEW row \in Row, NEW archived \in 0 .. 2, NEW collision \in BOOLEAN
    PROVE  [row EXCEPT !.owed = FALSE, !.collision = collision, !.archived = archived] \in Row
BY DEF Row

\* An acknowledged live row keeps them, and is acknowledged.
LEMMA AckRowSound ==
    ASSUME NEW row, RowSound(row), row.state = "live"
    PROVE  /\ RowSound(AckRow(row))
           /\ AckRow(row).state = "acknowledged"
           /\ RowMovesForward(row, AckRow(row))
<1> DEFINE new == AckRow(row)
<1>1. row \in Row /\ row.version = 1
  BY DEF RowSound, RowVersionIsChange
<1>2. /\ new.state = "acknowledged" /\ new.origin = row.origin /\ new.bytes = row.bytes
      /\ new.version = 2 /\ new.archived = row.archived /\ new.owed
      /\ new.body = IF row.archived > 0 THEN NoBody ELSE row.body
  BY <1>1 DEF AckRow, Row
<1>3. new \in Row
  <2>1. row.version + 1 \in Versions
    BY <1>1 DEF Versions
  <2>2. (IF row.archived > 0 THEN NoBody ELSE row.body) \in Bodies \cup {NoBody}
    BY <1>1 DEF Row
  <2> QED
    BY <1>1, <2>1, <2>2, RowUpdatedAck DEF AckRow
<1>4. row.body # NoBody /\ row.bytes = SizeOf[row.body]
  BY DEF RowSound, RowKeepsBody
<1>5. RowOwedUntilConfirmed(new) /\ RowVersionIsChange(new)
  BY <1>2 DEF RowOwedUntilConfirmed, RowVersionIsChange
<1>6. RowKeepsBody(new)
  BY <1>1, <1>2, <1>4 DEF RowKeepsBody, Row
<1>7. RowMovesForward(row, new)
  BY <1>1, <1>2 DEF RowMovesForward
<1> QED
  BY <1>2, <1>3, <1>5, <1>6, <1>7 DEF RowSound

\* A confirmed row keeps them or, acknowledged, goes; its state is its own.
LEMMA ConfirmedSound ==
    ASSUME NEW row, RowSound(row), NEW D \in SUBSET Done, D # {}
    PROVE  LET new == Confirmed(row, D) IN
           /\ new = NoRow \/ RowSound(new)
           /\ new = NoRow => row.state = "acknowledged"
           /\ new # NoRow => new.state = row.state /\ new.bytes = row.bytes
           /\ RowMovesForward(row, new)
<1> DEFINE plain   == {d \in D : ~d.collision}
           highest == IF \E d \in plain : d.version = 2 THEN 2 ELSE 1
           clash   == \E d \in D : d.collision
           current == \E d \in D : d.version >= row.version
           older   == [row EXCEPT !.archived = IF @ > highest THEN @ ELSE highest,
                                  !.body = NoBody]
           kept    == [row EXCEPT !.owed = FALSE, !.collision = @ \/ clash,
                                  !.archived = IF plain = {} THEN @ ELSE highest]
           new     == Confirmed(row, D)
<1>1. /\ row \in Row
      /\ RowOwedUntilConfirmed(row) /\ RowKeepsBody(row) /\ RowVersionIsChange(row)
  BY DEF RowSound
<1>2. highest \in 1 .. 2
  OBVIOUS
<1>3. clash \in BOOLEAN
  OBVIOUS
<1>4. plain = {} => clash
  BY DEF Done
<1> HIDE DEF highest, clash, plain
<1>5. CASE row.state = "acknowledged" /\ (clash \/ current)
  <2>1. new = NoRow
    BY <1>5 DEF Confirmed, clash
  <2> QED
    BY <1>5, <2>1 DEF RowMovesForward, NoRow
<1>6. CASE row.state = "acknowledged" /\ ~(clash \/ current)
  <2>1. new = older
    BY <1>6 DEF Confirmed, clash, highest, plain
  <2>2. /\ older.state = row.state /\ older.origin = row.origin /\ older.bytes = row.bytes
        /\ older.version = row.version /\ older.owed = row.owed
        /\ older.collision = row.collision /\ older.body = NoBody
        /\ older.archived = IF row.archived > highest THEN row.archived ELSE highest
    BY <1>1 DEF Row
  <2>3. older \in Row
    <3>1. (IF row.archived > highest THEN row.archived ELSE highest) \in 0 .. 2
      BY <1>1, <1>2 DEF Row
    <3> QED
      BY <1>1, <3>1, RowUpdatedOlder
  <2>4. older.archived > 0
    BY <1>1, <1>2, <2>2 DEF Row
  <2>5. RowOwedUntilConfirmed(older) /\ RowVersionIsChange(older) /\ RowKeepsBody(older)
    BY <1>1, <1>6, <2>2, <2>4
       DEF RowOwedUntilConfirmed, RowVersionIsChange, RowKeepsBody
  <2>6. RowMovesForward(row, older)
    BY <1>1, <1>6, <2>2 DEF RowMovesForward, Row, Versions
  <2> HIDE DEF older
  <2> QED
    BY <1>6, <2>1, <2>2, <2>3, <2>5, <2>6 DEF RowSound, NoRow
<1>7. CASE row.state # "acknowledged"
  <2>1. new = kept /\ row.state = "live"
    BY <1>1, <1>7 DEF Confirmed, clash, highest, plain, Row
  <2>2. /\ kept.state = row.state /\ kept.origin = row.origin /\ kept.bytes = row.bytes
        /\ kept.version = row.version /\ kept.body = row.body
        /\ kept.collision = (row.collision \/ clash)
        /\ kept.archived = IF plain = {} THEN row.archived ELSE highest
    BY <1>1 DEF Row
  <2>3. kept \in Row
    <3>1. (IF plain = {} THEN row.archived ELSE highest) \in 0 .. 2
      BY <1>1, <1>2 DEF Row
    <3>2. (row.collision \/ clash) \in BOOLEAN
      OBVIOUS
    <3> QED
      BY <1>1, <3>1, <3>2, RowUpdatedKept
  <2>4. RowOwedUntilConfirmed(kept)
    <3>1. CASE plain = {}
      <4>1. kept.collision = TRUE
        BY <1>1, <1>4, <3>1 DEF Row
      <4> HIDE DEF kept
      <4> QED
        BY <2>1, <2>2, <4>1 DEF RowOwedUntilConfirmed
    <3>2. CASE plain # {}
      <4>1. kept.archived > 0
        BY <1>2, <2>2, <3>2
      <4> HIDE DEF kept
      <4> QED
        BY <2>1, <2>2, <4>1 DEF RowOwedUntilConfirmed
    <3> QED
      BY <3>1, <3>2
  <2>5. RowVersionIsChange(kept) /\ RowKeepsBody(kept)
    BY <1>1, <2>1, <2>2 DEF RowVersionIsChange, RowKeepsBody
  <2>6. RowMovesForward(row, kept)
    BY <1>1, <2>1, <2>2 DEF RowMovesForward, Row, Versions
  <2> HIDE DEF kept
  <2> QED
    BY <2>1, <2>2, <2>3, <2>4, <2>5, <2>6 DEF RowSound, NoRow
<1> QED
  BY <1>5, <1>6, <1>7

-----------------------------------------------------------------------------
(* Mailboxes *)

\* What the counters count is finite.
LEMMA CountedFinite ==
    ASSUME NEW m, NEW S
    PROVE  IsFiniteSet(LiveIds(m)) /\ IsFiniteSet(ByteUnits(m, S))
<1>1. LiveIds(m) \in SUBSET Ids
  BY DEF LiveIds
<1>2. IsFiniteSet(1 .. MaxBody)
  BY FS_Interval, LimitsAreNat
<1>3. IsFiniteSet(Ids \X (1 .. MaxBody))
  BY <1>2, IdsFinite, FS_Product
<1>4. ByteUnits(m, S) \in SUBSET (Ids \X (1 .. MaxBody))
  BY DEF ByteUnits
<1> QED
  BY <1>1, <1>3, <1>4, IdsFinite, FS_Subset

\* An operation that changes neither which rows are live, nor their bytes, nor
\* the counters, keeps the mailbox sound if it keeps its rows so.
LEMMA CountersCarry ==
    ASSUME NEW m, Sound(m), NEW n \in MailboxState, RowsSound(n),
           n.rowsHeld = m.rowsHeld, n.bytesHeld = m.bytesHeld,
           \A id \in Ids : (n.rows[id].state = "live") <=> (m.rows[id].state = "live"),
           \A id \in Ids : m.rows[id].state = "live" => n.rows[id].bytes = m.rows[id].bytes
    PROVE  Sound(n)
<1>1. LiveIds(n) = LiveIds(m)
  BY DEF LiveIds
<1>2. ByteUnits(n, Ids) = ByteUnits(m, Ids)
  BY DEF ByteUnits
<1> QED
  BY <1>1, <1>2 DEF Sound, RowsExact, BytesExact, Bounded

\* A row of a sound mailbox is none, or sound and held.
LEMMA HeldIsSound ==
    ASSUME NEW m, Sound(m), NEW id \in Ids
    PROVE  /\ m.rows[id] = NoRow <=> id \notin HeldIds(m)
           /\ id \in HeldIds(m) => RowSound(m.rows[id])
           /\ id \in LiveIds(m) => id \in HeldIds(m)
BY DEF Sound, RowsSound, RowSound, Row, NoRow, HeldIds, LiveIds

Forward(m, n) == \A id \in HeldIds(m) : RowMovesForward(m.rows[id], n.rows[id])

\* The replay changes when a row was last enqueued and nothing else.
LEMMA TakeSound ==
    ASSUME NEW m, Sound(m), NEW T \in SUBSET Ids, T \subseteq HeldIds(m)
    PROVE  LET n == TakeOwedDue(m, T) IN
           /\ Sound(n)
           /\ HeldIds(n) = HeldIds(m)
           /\ \A id \in HeldIds(m) : /\ n.rows[id].state = m.rows[id].state
                                     /\ n.rows[id].origin = m.rows[id].origin
                                     /\ n.rows[id].version = m.rows[id].version
<1> DEFINE n == TakeOwedDue(m, T)
           new(id) == [m.rows[id] EXCEPT !.due = FALSE]
<1>1. \A id \in T : /\ RowSound(new(id))
                    /\ new(id).state = m.rows[id].state /\ new(id).bytes = m.rows[id].bytes
                    /\ new(id).origin = m.rows[id].origin
                    /\ new(id).version = m.rows[id].version
  <2> TAKE id \in T
  <2>1. RowSound(m.rows[id])
    BY HeldIsSound
  <2>2. m.rows[id] \in Row
    BY <2>1 DEF RowSound
  <2>3. new(id) \in Row
    BY <2>2 DEF Row
  <2>4. /\ new(id).state = m.rows[id].state /\ new(id).bytes = m.rows[id].bytes
        /\ new(id).origin = m.rows[id].origin /\ new(id).version = m.rows[id].version
        /\ new(id).body = m.rows[id].body /\ new(id).archived = m.rows[id].archived
        /\ new(id).owed = m.rows[id].owed /\ new(id).collision = m.rows[id].collision
    BY <2>2 DEF Row
  <2> HIDE DEF new
  <2> QED
    BY <2>1, <2>3, <2>4
       DEF RowSound, RowOwedUntilConfirmed, RowKeepsBody, RowVersionIsChange
<1> HIDE DEF new
<1>2. m \in MailboxState /\ RowsSound(m)
  BY DEF Sound
<1>3. /\ n.rows = [id \in Ids |-> IF id \in T THEN new(id) ELSE m.rows[id]]
      /\ n.rowsHeld = m.rowsHeld /\ n.bytesHeld = m.bytesHeld
  BY <1>2 DEF TakeOwedDue, MailboxState, new
<1>4. RowsSound(n)
  BY <1>1, <1>2, <1>3 DEF RowsSound
<1>5. n \in MailboxState
  <2>1. n.rows \in [Ids -> Row \cup {NoRow}]
    BY <1>3, <1>4 DEF RowsSound, RowSound
  <2> QED
    BY <1>2, <1>3, <2>1 DEF MailboxState, TakeOwedDue
<1>6. \A id \in Ids : /\ n.rows[id].state = m.rows[id].state
                      /\ id \in HeldIds(m) => n.rows[id].bytes = m.rows[id].bytes
                      /\ id \in HeldIds(m) => n.rows[id].origin = m.rows[id].origin
                      /\ id \in HeldIds(m) => n.rows[id].version = m.rows[id].version
  BY <1>1, <1>3
<1> HIDE DEF n
<1>7. HeldIds(n) = HeldIds(m)
  BY <1>6 DEF HeldIds
<1>8. Sound(n)
  BY <1>3, <1>4, <1>5, <1>6, CountersCarry DEF HeldIds
<1> QED
  BY <1>6, <1>7, <1>8 DEF n, HeldIds

\* A confirmation changes no counter, and takes away acknowledged rows alone.
LEMMA DoneSound ==
    ASSUME NEW m, Sound(m), NEW D \in SUBSET Done
    PROVE  LET n == ArchiveDone(m, D) IN Sound(n) /\ Forward(m, n)
<1> DEFINE mine(id) == {d \in D : d.id = id}
           n == ArchiveDone(m, D)
<1>1. m \in MailboxState /\ RowsSound(m)
  BY DEF Sound
<1>2. /\ n.rows = [id \in Ids |-> IF m.rows[id].state = "none" \/ mine(id) = {}
                                  THEN m.rows[id] ELSE Confirmed(m.rows[id], mine(id))]
      /\ n.rowsHeld = m.rowsHeld /\ n.bytesHeld = m.bytesHeld
  BY <1>1 DEF ArchiveDone, MailboxState
<1>3. ASSUME NEW id \in Ids
      PROVE  /\ n.rows[id] = NoRow \/ RowSound(n.rows[id])
             /\ (n.rows[id].state = "live") <=> (m.rows[id].state = "live")
             /\ m.rows[id].state = "live" => n.rows[id].bytes = m.rows[id].bytes
             /\ id \in HeldIds(m) => RowMovesForward(m.rows[id], n.rows[id])
  <2>1. CASE m.rows[id].state = "none" \/ mine(id) = {}
    <3>1. n.rows[id] = m.rows[id]
      BY <1>2, <2>1
    <3>2. id \in HeldIds(m) => RowMovesForward(m.rows[id], m.rows[id])
      BY HeldIsSound DEF RowMovesForward, HeldIds, RowSound, Row, Versions
    <3> QED
      BY <1>1, <3>1, <3>2 DEF RowsSound
  <2>2. CASE ~(m.rows[id].state = "none" \/ mine(id) = {})
    <3>1. id \in HeldIds(m) /\ RowSound(m.rows[id])
      BY <2>2, HeldIsSound DEF HeldIds
    <3>2. mine(id) \in SUBSET Done /\ mine(id) # {}
      BY <2>2
    <3>3. n.rows[id] = Confirmed(m.rows[id], mine(id))
      BY <1>2, <2>2
    <3> HIDE DEF mine, n
    <3> QED
      BY <3>1, <3>2, <3>3, ConfirmedSound DEF NoRow
  <2> QED
    BY <2>1, <2>2
<1>4. RowsSound(n)
  BY <1>3 DEF RowsSound
<1>5. n \in MailboxState
  <2>1. n.rows \in [Ids -> Row \cup {NoRow}]
    BY <1>2, <1>4 DEF RowsSound, RowSound
  <2> QED
    BY <1>1, <1>2, <2>1 DEF MailboxState, ArchiveDone
<1> HIDE DEF n
<1>6. Sound(n)
  BY <1>2, <1>3, <1>4, <1>5, CountersCarry
<1>7. Forward(m, n)
  BY <1>3 DEF Forward, HeldIds
<1> QED
  BY <1>6, <1>7 DEF n

\* Time passing makes an owed row due, and changes nothing else.
LEMMA AgeSound ==
    ASSUME NEW m, Sound(m), NEW i \in HeldIds(m)
    PROVE  LET n == AgeRow(m, i) IN Sound(n) /\ Forward(m, n)
<1> DEFINE n == AgeRow(m, i)
           new == [m.rows[i] EXCEPT !.due = TRUE]
<1>1. /\ m \in MailboxState /\ RowsSound(m) /\ i \in Ids
      /\ RowSound(m.rows[i]) /\ m.rows[i] \in Row
  BY HeldIsSound DEF Sound, HeldIds, RowSound
<1>2. /\ new \in Row
      /\ new.state = m.rows[i].state /\ new.bytes = m.rows[i].bytes
      /\ new.origin = m.rows[i].origin /\ new.version = m.rows[i].version
      /\ new.body = m.rows[i].body /\ new.archived = m.rows[i].archived
      /\ new.owed = m.rows[i].owed /\ new.collision = m.rows[i].collision
  BY <1>1 DEF Row
<1>3. /\ n.rows = [m.rows EXCEPT ![i] = new]
      /\ n.rowsHeld = m.rowsHeld /\ n.bytesHeld = m.bytesHeld
  BY <1>1 DEF AgeRow, MailboxState
<1> HIDE DEF new
<1>4. RowSound(new)
  BY <1>1, <1>2 DEF RowSound, RowOwedUntilConfirmed, RowKeepsBody, RowVersionIsChange
<1>5. \A id \in Ids : n.rows[id] = IF id = i THEN new ELSE m.rows[id]
  BY <1>1, <1>3 DEF MailboxState
<1>6. RowsSound(n)
  BY <1>1, <1>4, <1>5 DEF RowsSound
<1>7. n \in MailboxState
  <2>1. n.rows \in [Ids -> Row \cup {NoRow}]
    BY <1>1, <1>2, <1>3 DEF MailboxState
  <2> QED
    BY <1>1, <1>3, <2>1 DEF MailboxState, AgeRow
<1> HIDE DEF n
<1>8. Sound(n)
  <2>1. \A id \in Ids : n.rows[id].state = m.rows[id].state /\ n.rows[id].bytes = m.rows[id].bytes
    BY <1>2, <1>5
  <2>2. \A id \in Ids : (n.rows[id].state = "live") <=> (m.rows[id].state = "live")
    BY <2>1
  <2>3. \A id \in Ids : m.rows[id].state = "live" => n.rows[id].bytes = m.rows[id].bytes
    BY <2>1
  <2> QED
    BY <1>3, <1>6, <1>7, <2>2, <2>3, CountersCarry
<1>9. Forward(m, n)
  <2> SUFFICES ASSUME NEW id \in HeldIds(m)
               PROVE  RowMovesForward(m.rows[id], n.rows[id])
    BY DEF Forward
  <2>1. id \in Ids /\ m.rows[id] \in Row /\ m.rows[id].state # "none"
    BY HeldIsSound DEF HeldIds, RowSound
  <2> QED
    BY <1>2, <1>5, <2>1 DEF RowMovesForward, Row, Versions
<1> QED
  BY <1>8, <1>9 DEF n

\* A stored insert adds one live row and its bytes to rows and counters alike,
\* and was refused if that passes a bound.
LEMMA InsertSound ==
    ASSUME NEW m, Sound(m), NEW i \in Ids, NEW origin \in Origins, NEW body \in Bodies,
           NEW retry \in BOOLEAN
    PROVE  LET n == Insert(m, i, origin, body, retry) IN Sound(n) /\ Forward(m, n)
<1> DEFINE n == Insert(m, i, origin, body, retry)
           new == NewRow(origin, body)
           size == SizeOf[body]
           verdict == InsertVerdict(m, i, origin, body, retry)
<1>1. /\ m \in MailboxState /\ RowsSound(m)
      /\ m.rowsHeld = Cardinality(LiveIds(m)) /\ m.bytesHeld = Cardinality(ByteUnits(m, Ids))
  BY DEF Sound, RowsExact, BytesExact
<1>2. CASE verdict # "stored"
  <2>1. n = m
    BY <1>2 DEF Insert
  <2>2. Forward(m, m)
    <3> SUFFICES ASSUME NEW id \in HeldIds(m)
                 PROVE  RowMovesForward(m.rows[id], m.rows[id])
      BY DEF Forward
    <3>1. m.rows[id] \in Row /\ m.rows[id].state # "none"
      BY HeldIsSound DEF HeldIds, RowSound
    <3> QED
      BY <3>1 DEF RowMovesForward, Row, Versions
  <2> QED
    BY <2>1, <2>2
<1>3. CASE verdict = "stored"
  <2>1. /\ i \notin HeldIds(m)
        /\ ~(m.rowsHeld >= RowsLimit)
        /\ ~(m.bytesHeld + size > BytesLimit)
    BY <1>3 DEF InsertVerdict
  <2>2. /\ n.rows = [m.rows EXCEPT ![i] = new]
        /\ n.rowsHeld = m.rowsHeld + 1 /\ n.bytesHeld = m.bytesHeld + size
    BY <1>3 DEF Insert
  <2>3. /\ RowSound(new) /\ new \in Row /\ new.state = "live" /\ new.bytes = size
        /\ size \in 0 .. MaxBody
    BY NewRowSound, SizesAreNat DEF RowSound
  <2> HIDE DEF new, size
  <2>4. \A id \in Ids : n.rows[id] = IF id = i THEN new ELSE m.rows[id]
    BY <1>1, <2>2 DEF MailboxState
  <2>5. RowsSound(n)
    BY <1>1, <2>3, <2>4 DEF RowsSound
  <2>6. n \in MailboxState
    <3>1. n.rows \in [Ids -> Row \cup {NoRow}]
      BY <1>1, <2>2, <2>3 DEF MailboxState
    <3>2. n.rowsHeld \in Int /\ n.bytesHeld \in Int
      BY <1>1, <2>2, <2>3, LimitsAreNat DEF MailboxState
    <3>3. n = [rows |-> n.rows, rowsHeld |-> n.rowsHeld, bytesHeld |-> n.bytesHeld]
      BY <1>3 DEF Insert
    <3> HIDE DEF n
    <3> QED
      BY <3>1, <3>2, <3>3 DEF MailboxState
  <2> HIDE DEF n
  <2>7. i \notin LiveIds(m)
    BY <2>1, HeldIsSound
  <2>8. LiveIds(n) = LiveIds(m) \cup {i}
    BY <2>3, <2>4 DEF LiveIds
  <2>9. /\ Cardinality(LiveIds(n)) = Cardinality(LiveIds(m)) + 1
        /\ Cardinality(LiveIds(m)) \in Nat
    BY <2>7, <2>8, CountedFinite, FS_AddElement, FS_CardinalityType
  <2>10. ByteUnits(n, Ids) = ByteUnits(m, Ids) \cup ({i} \X (1 .. size))
    <3>1. i \notin LiveIds(m) /\ m.rows[i].state # "live"
      BY <2>7 DEF LiveIds
    <3>2. \A k \in 1 .. MaxBody : k \in 1 .. size <=> k <= size
      BY <2>3, LimitsAreNat
    <3>3. 1 .. size \subseteq 1 .. MaxBody
      BY <2>3, LimitsAreNat
    <3> QED
      BY <2>3, <2>4, <3>1, <3>2, <3>3 DEF ByteUnits
  <2>11. ByteUnits(m, Ids) \cap ({i} \X (1 .. size)) = {}
    BY <2>7 DEF ByteUnits, LiveIds
  <2>12. IsFiniteSet({i} \X (1 .. size)) /\ Cardinality({i} \X (1 .. size)) = size
    <3>1. IsFiniteSet(1 .. size) /\ Cardinality(1 .. size) = size
      BY <2>3, FS_Interval, LimitsAreNat
    <3>2. IsFiniteSet({i}) /\ Cardinality({i}) = 1
      BY FS_Singleton
    <3> QED
      BY <2>3, <3>1, <3>2, FS_Product
  <2>13. /\ Cardinality(ByteUnits(n, Ids)) = Cardinality(ByteUnits(m, Ids)) + size
         /\ Cardinality(ByteUnits(m, Ids)) \in Nat
    <3>1. /\ IsFiniteSet(ByteUnits(m, Ids))
          /\ Cardinality(ByteUnits(m, Ids)) \in Nat /\ Cardinality({}) = 0
      BY CountedFinite, FS_CardinalityType, FS_EmptySet
    <3> DEFINE A == ByteUnits(m, Ids)
               B == {i} \X (1 .. size)
    <3> HIDE DEF A, B
    <3>2. Cardinality(A \cup B) = Cardinality(A) + Cardinality(B) - Cardinality(A \cap B)
      <4>1. IsFiniteSet(A) /\ IsFiniteSet(B)
        BY <2>12, <3>1 DEF A, B
      <4> QED
        BY <4>1, FS_Union
    <3>3. A \cap B = {} /\ Cardinality(B) = size /\ Cardinality(A) \in Nat
      BY <2>11, <2>12, <3>1 DEF A, B
    <3>4. Cardinality(A \cup B) = Cardinality(A) + size
      BY <2>3, <3>1, <3>2, <3>3
    <3> QED
      BY <2>10, <3>1, <3>4 DEF A, B
  <2>14. RowsExact(n) /\ BytesExact(n) /\ Bounded(n)
    BY <1>1, <2>1, <2>2, <2>3, <2>9, <2>13, LimitsAreNat DEF RowsExact, BytesExact, Bounded
  <2>15. Forward(m, n)
    <3> SUFFICES ASSUME NEW id \in HeldIds(m)
                 PROVE  RowMovesForward(m.rows[id], n.rows[id])
      BY DEF Forward
    <3>1. id \in Ids /\ m.rows[id] \in Row /\ m.rows[id].state # "none"
      BY HeldIsSound DEF HeldIds, RowSound
    <3> QED
      BY <2>1, <2>4, <3>1 DEF RowMovesForward, Row, Versions
  <2> QED
    BY <2>5, <2>6, <2>14, <2>15 DEF Sound, n
<1> QED
  BY <1>2, <1>3

\* An acknowledgment takes from the counters just the rows it takes from the
\* live ones, whatever else is asked in the same call.
LEMMA AckSound ==
    ASSUME NEW m, Sound(m), NEW ids \in SUBSET Ids
    PROVE  LET n == Acknowledge(m, ids) IN Sound(n) /\ Forward(m, n)
<1> DEFINE n == Acknowledge(m, ids)
           live == ids \cap LiveIds(m)
           A == LiveIds(m)
           B == ByteUnits(m, Ids)
           C == ByteUnits(m, live)
<1>1. /\ m \in MailboxState /\ RowsSound(m)
      /\ m.rowsHeld = Cardinality(A) /\ m.bytesHeld = Cardinality(B)
      /\ Cardinality(A) <= RowsLimit /\ Cardinality(B) <= BytesLimit
  BY DEF Sound, RowsExact, BytesExact, Bounded
<1>2. /\ n.rows = [id \in Ids |-> IF id \in live THEN AckRow(m.rows[id]) ELSE m.rows[id]]
      /\ n.rowsHeld = m.rowsHeld - Cardinality(live)
      /\ n.bytesHeld = m.bytesHeld - Cardinality(C)
  BY DEF Acknowledge
<1>3. \A id \in live : /\ id \in Ids
                       /\ RowSound(AckRow(m.rows[id]))
                       /\ AckRow(m.rows[id]).state = "acknowledged"
                       /\ RowMovesForward(m.rows[id], AckRow(m.rows[id]))
  <2> TAKE id \in live
  <2>1. id \in Ids /\ m.rows[id].state = "live" /\ RowSound(m.rows[id])
    BY HeldIsSound DEF LiveIds
  <2> QED
    BY <2>1, AckRowSound
<1>4. \A id \in Ids : n.rows[id] = IF id \in live THEN AckRow(m.rows[id]) ELSE m.rows[id]
  BY <1>2
<1>5. RowsSound(n)
  BY <1>1, <1>3, <1>4 DEF RowsSound
<1>6. LiveIds(n) = A \ live
  BY <1>3, <1>4 DEF LiveIds
<1>7. ByteUnits(n, Ids) = B \ C
  <2>1. \A u \in Ids \X (1 .. MaxBody) : u[1] \in Ids
    OBVIOUS
  <2>2. \A u \in Ids \X (1 .. MaxBody) :
           u \in ByteUnits(n, Ids) <=> u \in B /\ u[1] \notin live
    BY <1>3, <1>4, <2>1 DEF ByteUnits
  <2>3. \A u \in B : u \in C <=> u[1] \in live
    BY DEF ByteUnits
  <2>4. B \subseteq Ids \X (1 .. MaxBody) /\ ByteUnits(n, Ids) \subseteq Ids \X (1 .. MaxBody)
    BY DEF ByteUnits
  <2> HIDE DEF B, C, n, live
  <2> QED
    BY <2>2, <2>3, <2>4
<1>8. live \subseteq A /\ C \subseteq B
  BY DEF ByteUnits, LiveIds
<1>9. IsFiniteSet(A) /\ IsFiniteSet(B)
  BY CountedFinite
<1>10. n.rowsHeld \in Int /\ n.bytesHeld \in Int
  <2>1. IsFiniteSet(live) /\ IsFiniteSet(C)
    BY <1>8, <1>9, FS_Subset
  <2> QED
    BY <1>1, <1>2, <2>1, FS_CardinalityType DEF MailboxState
<1>11. n \in MailboxState
  <2>1. n.rows \in [Ids -> Row \cup {NoRow}]
    BY <1>2, <1>5 DEF RowsSound, RowSound
  <2>2. n = [rows |-> n.rows, rowsHeld |-> n.rowsHeld, bytesHeld |-> n.bytesHeld]
    BY DEF Acknowledge
  <2> HIDE DEF n
  <2> QED
    BY <1>10, <2>1, <2>2 DEF MailboxState
<1> HIDE DEF n, live, A, B, C
<1>12. /\ Cardinality(A \ live) = Cardinality(A) - Cardinality(live)
       /\ Cardinality(B \ C) = Cardinality(B) - Cardinality(C)
  <2>1. A \cap live = live /\ B \cap C = C
    BY <1>8
  <2>2. Cardinality(A \ live) = Cardinality(A) - Cardinality(A \cap live)
    BY <1>9, FS_Difference
  <2>3. Cardinality(B \ C) = Cardinality(B) - Cardinality(B \cap C)
    BY <1>9, FS_Difference
  <2> QED
    BY <2>1, <2>2, <2>3
<1>13. RowsExact(n) /\ BytesExact(n)
  BY <1>1, <1>2, <1>6, <1>7, <1>12 DEF RowsExact, BytesExact
<1>14. Bounded(n)
  <2>1. /\ Cardinality(A \ live) \in Nat /\ Cardinality(A \ live) <= Cardinality(A)
        /\ Cardinality(B \ C) \in Nat /\ Cardinality(B \ C) <= Cardinality(B)
        /\ Cardinality(A) \in Nat /\ Cardinality(B) \in Nat
    <3>1. IsFiniteSet(A \ live) /\ IsFiniteSet(B \ C)
      BY <1>9, FS_Difference
    <3>2. Cardinality(A \ live) <= Cardinality(A) /\ Cardinality(B \ C) <= Cardinality(B)
      BY <1>9, FS_Subset
    <3> QED
      BY <1>9, <3>1, <3>2, FS_CardinalityType
  <2> QED
    BY <1>1, <1>6, <1>7, <2>1, LimitsAreNat DEF Bounded
<1>15. Forward(m, n)
  <2> SUFFICES ASSUME NEW id \in HeldIds(m)
               PROVE  RowMovesForward(m.rows[id], n.rows[id])
    BY DEF Forward
  <2>1. id \in Ids /\ m.rows[id] \in Row /\ m.rows[id].state # "none"
    BY HeldIsSound DEF HeldIds, RowSound
  <2>2. RowMovesForward(m.rows[id], m.rows[id])
    BY <2>1 DEF RowMovesForward, Row, Versions
  <2> QED
    BY <1>3, <1>4, <2>1, <2>2
<1> QED
  BY <1>5, <1>11, <1>13, <1>14, <1>15 DEF Sound, n

-----------------------------------------------------------------------------
\* A hub is born sound (SCHEMA: no rows, counters at zero).
LEMMA EmptySound == Sound(EmptyMailbox)
<1> DEFINE m == EmptyMailbox
<1>2. LiveIds(m) = {} /\ ByteUnits(m, Ids) = {}
  BY DEF EmptyMailbox, NoRow, LiveIds, ByteUnits
<1>3. m \in MailboxState /\ RowsSound(m)
  BY DEF EmptyMailbox, MailboxState, RowsSound
<1>4. m.rowsHeld = 0 /\ m.bytesHeld = 0
  BY DEF EmptyMailbox
<1>5. Cardinality({}) = 0
  BY FS_EmptySet
<1> QED
  BY <1>2, <1>3, <1>4, <1>5, LimitsAreNat DEF Sound, RowsExact, BytesExact, Bounded

\* The replay that leads a handler, as a step of its own.
LEMMA TakeForward ==
    ASSUME NEW m, Sound(m), NEW T \in Takeable(m)
    PROVE  Sound(TakeOwedDue(m, T)) /\ Forward(m, TakeOwedDue(m, T))
<1>1. T \in SUBSET Ids /\ T \subseteq HeldIds(m)
  BY DEF Takeable, DueIds, HeldIds
<1>2. Sound(TakeOwedDue(m, T))
  BY <1>1, TakeSound
<1> SUFFICES ASSUME NEW id \in HeldIds(m)
             PROVE  RowMovesForward(m.rows[id], TakeOwedDue(m, T).rows[id])
  BY <1>2 DEF Forward
<1>3. m.rows[id] \in Row /\ m.rows[id].state # "none"
  BY HeldIsSound DEF HeldIds, RowSound
<1> QED
  BY <1>1, <1>3, TakeSound DEF RowMovesForward, Row, Versions

\* A handler's replay, then an operation that keeps the mailbox sound and its
\* rows moving forward, does both as one step.
LEMMA AfterTake ==
    ASSUME NEW m, Sound(m), NEW T \in Takeable(m), NEW n,
           Forward(TakeOwedDue(m, T), n)
    PROVE  Sound(TakeOwedDue(m, T)) /\ Forward(m, n)
<1> DEFINE t == TakeOwedDue(m, T)
<1>1. T \in SUBSET Ids /\ T \subseteq HeldIds(m)
  BY DEF Takeable, DueIds, HeldIds
<1>2. /\ Sound(t) /\ HeldIds(t) = HeldIds(m)
      /\ \A id \in HeldIds(m) : /\ t.rows[id].state = m.rows[id].state
                                /\ t.rows[id].origin = m.rows[id].origin
                                /\ t.rows[id].version = m.rows[id].version
  BY <1>1, TakeSound
<1> HIDE DEF t
<1>3. Forward(t, n)
  BY DEF t
<1>4. Forward(m, n)
  BY <1>2, <1>3 DEF Forward, RowMovesForward
<1> QED
  BY <1>2, <1>4 DEF t

=============================================================================
