----------------------------- MODULE MailboxRows -----------------------------
(***************************************************************************)
(* The mailbox of one recipient's hub: the machine of src/mailbox/mod.rs   *)
(* over the tables of src/mailbox/schema.rs, as operators from a mailbox   *)
(* to the mailbox an operation leaves.  The code runs each operation as a  *)
(* run of SQL statements with no await between them, so each is atomic.    *)
(*                                                                         *)
(* Data kept: who a message is from and into which box (an "origin"), its  *)
(* body and the body's length.  Epoch times are reduced to the one thing   *)
(* the code asks of them: whether a row's last enqueue is REPLAY_AFTER_MS  *)
(* old ("due").                                                            *)
(***************************************************************************)
EXTENDS Integers, FiniteSets

CONSTANTS
    Ids,                \* message ids
    Origins,            \* (sender, box) of a send
    Bodies,             \* stored texts
    NoBody,             \* the NULL body
    SizeOf,             \* body_bytes of a body, a function on Bodies
    MaxBody,            \* the longest body (SQLite's 2 MB row)
    RowsLimit,          \* MAILBOX_ROWS_LIMIT
    BytesLimit,         \* MAILBOX_BYTES_LIMIT
    ReplayPerRequest    \* REPLAY_PER_REQUEST

ASSUME IdsFinite == IsFiniteSet(Ids)
ASSUME NoBodyIsNoBody == NoBody \notin Bodies
ASSUME LimitsAreNat == MaxBody \in Nat /\ RowsLimit \in Nat /\ BytesLimit \in Nat
                         /\ ReplayPerRequest \in Nat
ASSUME SizesAreNat == SizeOf \in [Bodies -> 0 .. MaxBody]

-----------------------------------------------------------------------------
(* mailbox_rows and mailbox_counters, src/mailbox/schema.rs *)

\* "the insert is 1, the acknowledgment 2"
Versions == 1 .. 2

NoRow == [state |-> "none"]

Row == [state     : {"live", "acknowledged"},
        origin    : Origins,
        body      : Bodies \cup {NoBody},
        bytes     : 0 .. MaxBody,
        version   : Versions,
        archived  : 0 .. 2,
        owed      : BOOLEAN,
        due       : BOOLEAN,
        collision : BOOLEAN]

MailboxState == [rows : [Ids -> Row \cup {NoRow}], rowsHeld : Int, bytesHeld : Int]

EmptyMailbox == [rows |-> [id \in Ids |-> NoRow], rowsHeld |-> 0, bytesHeld |-> 0]

\* One confirmation from the archive (struct Done).
Done == [id : Ids, version : Versions, collision : BOOLEAN]

HeldIds(m) == {id \in Ids : m.rows[id].state # "none"}

LiveIds(m) == {id \in Ids : m.rows[id].state = "live"}

\* The bytes of the live rows under ids in S, as a set of that size: the sum
\* of body_bytes is its cardinality.
ByteUnits(m, S) ==
    {u \in Ids \X (1 .. MaxBody) :
        u[1] \in S /\ m.rows[u[1]].state = "live" /\ u[2] <= m.rows[u[1]].bytes}

-----------------------------------------------------------------------------
(* insert: E1 to E4 *)

\* The row a stored insert writes: live, version 1, owed, just enqueued.
NewRow(origin, body) ==
    [state |-> "live", origin |-> origin, body |-> body, bytes |-> SizeOf[body],
     version |-> 1, archived |-> 0, owed |-> TRUE, due |-> FALSE, collision |-> FALSE]

\* A body already dropped (NULL) equals no body, so such a row is never "ours".
Ours(m, id, origin, body) ==
    m.rows[id].origin = origin /\ m.rows[id].body = body

\* Faulty: an acknowledged row is no longer held; a retried hop is believed to
\* have landed; the bound reads the bytes held, not what they become.
InsertVerdictOverAcked(m, id, origin, body, retry) ==
    CASE id \in LiveIds(m) /\ retry /\ Ours(m, id, origin, body) -> "retried"
      [] id \in LiveIds(m) /\ ~(retry /\ Ours(m, id, origin, body)) -> "duplicate"
      [] id \notin LiveIds(m) /\ \/ m.rowsHeld >= RowsLimit
                                 \/ m.bytesHeld + SizeOf[body] > BytesLimit -> "full"
      [] OTHER -> "stored"
InsertVerdictTrustsRetry(m, id, origin, body, retry) ==
    CASE retry -> "retried"
      [] ~retry /\ id \in HeldIds(m) -> "duplicate"
      [] ~retry /\ id \notin HeldIds(m) /\ m.rowsHeld >= RowsLimit -> "full"
      [] OTHER -> "stored"
InsertVerdictBytesBefore(m, id, origin, body, retry) ==
    CASE id \in HeldIds(m) /\ retry /\ Ours(m, id, origin, body) -> "retried"
      [] id \in HeldIds(m) /\ ~(retry /\ Ours(m, id, origin, body)) -> "duplicate"
      [] id \notin HeldIds(m) /\ \/ m.rowsHeld >= RowsLimit
                                 \/ m.bytesHeld >= BytesLimit -> "full"
      [] OTHER -> "stored"

InsertVerdict(m, id, origin, body, retry) ==
    CASE id \in HeldIds(m) /\ retry /\ Ours(m, id, origin, body) -> "retried"
      [] id \in HeldIds(m) /\ ~(retry /\ Ours(m, id, origin, body)) -> "duplicate"
      [] id \notin HeldIds(m) /\ \/ m.rowsHeld >= RowsLimit
                                 \/ m.bytesHeld + SizeOf[body] > BytesLimit -> "full"
      [] OTHER -> "stored"

Insert(m, id, origin, body, retry) ==
    IF InsertVerdict(m, id, origin, body, retry) = "stored"
    THEN [rows      |-> [m.rows EXCEPT ![id] = NewRow(origin, body)],
          rowsHeld  |-> m.rowsHeld + 1,
          bytesHeld |-> m.bytesHeld + SizeOf[body]]
    ELSE m

-----------------------------------------------------------------------------
(* acknowledge: E9 *)

\* Faulty: not owed again; body dropped at once; version two up.
AckRowNotOwed(row) ==
    [row EXCEPT !.state = "acknowledged", !.version = @ + 1, !.due = FALSE,
                !.body = IF row.archived > 0 THEN NoBody ELSE @]
AckRowBodyDropped(row) ==
    [row EXCEPT !.state = "acknowledged", !.version = @ + 1,
                !.owed = TRUE, !.due = FALSE, !.body = NoBody]
AckRowTwoUp(row) ==
    [row EXCEPT !.state = "acknowledged", !.version = @ + 2,
                !.owed = TRUE, !.due = FALSE,
                !.body = IF row.archived > 0 THEN NoBody ELSE @]

\* The body goes at the acknowledgment once some version is archived.
AckRow(row) ==
    [row EXCEPT !.state = "acknowledged", !.version = @ + 1,
                !.owed = TRUE, !.due = FALSE,
                !.body = IF row.archived > 0 THEN NoBody ELSE @]

\* Faulty: the counters also give back rows acknowledged before.
AcknowledgeTwice(m, ids) ==
    LET live == ids \cap LiveIds(m) IN
    [rows      |-> [id \in Ids |-> IF id \in live THEN AckRow(m.rows[id]) ELSE m.rows[id]],
     rowsHeld  |-> m.rowsHeld - Cardinality(ids \cap HeldIds(m)),
     bytesHeld |-> m.bytesHeld - Cardinality(ByteUnits(m, live))]

Acknowledge(m, ids) ==
    LET live == ids \cap LiveIds(m) IN
    [rows      |-> [id \in Ids |-> IF id \in live THEN AckRow(m.rows[id]) ELSE m.rows[id]],
     rowsHeld  |-> m.rowsHeld - Cardinality(live),
     bytesHeld |-> m.bytesHeld - Cardinality(ByteUnits(m, live))]

\* What the answer counts as acknowledged; the other ids asked are missing.
Acked(m, ids, retry) == ids \cap (IF retry THEN HeldIds(m) ELSE LiveIds(m))

-----------------------------------------------------------------------------
(* take_owed_due: E12, the replay that leads every handler *)

\* Faulty: only live rows are replayed.
DueIdsLive(m) == {id \in LiveIds(m) : m.rows[id].owed /\ m.rows[id].due}

DueIds(m) == {id \in HeldIds(m) : m.rows[id].owed /\ m.rows[id].due}

\* The rows one request replays: as many of the due rows as fit, any of them
\* (the code takes the oldest enqueue; the model keeps no order of times).
Takeable(m) ==
    {T \in SUBSET DueIds(m) :
        \/ T = DueIds(m) /\ Cardinality(T) <= ReplayPerRequest
        \/ Cardinality(T) = ReplayPerRequest}

TakeOwedDue(m, T) ==
    [m EXCEPT !.rows = [id \in Ids |-> IF id \in T THEN [m.rows[id] EXCEPT !.due = FALSE]
                                                   ELSE m.rows[id]]]

-----------------------------------------------------------------------------
(* archive_done: E11 *)

\* Faulty: an acknowledged row is deleted by a confirmation of any version.
ConfirmedAnyVersion(row, D) ==
    IF row.state = "acknowledged" THEN NoRow
    ELSE [row EXCEPT !.owed = FALSE, !.collision = @ \/ \E d \in D : d.collision,
                     !.archived = IF \A d \in D : d.collision THEN @ ELSE 1]

\* What the confirmations D that name one row make of it.  The code runs them
\* in the batch's order; only archived_version > 0 is ever read, so of several
\* confirmations of a live row the highest stands for the last.
Confirmed(row, D) ==
    LET current == \E d \in D : d.version >= row.version
        clash   == \E d \in D : d.collision
        plain   == {d \in D : ~d.collision}
        highest == IF \E d \in plain : d.version = 2 THEN 2 ELSE 1
    IN  IF row.state = "acknowledged" /\ (clash \/ current) THEN NoRow
        ELSE IF row.state = "acknowledged"
        THEN [row EXCEPT !.archived = IF @ > highest THEN @ ELSE highest, !.body = NoBody]
        ELSE [row EXCEPT !.owed = FALSE,
                         !.collision = @ \/ clash,
                         !.archived = IF plain = {} THEN @ ELSE highest]

ArchiveDone(m, D) ==
    [m EXCEPT !.rows = [id \in Ids |->
        LET mine == {d \in D : d.id = id} IN
        IF m.rows[id].state = "none" \/ mine = {} THEN m.rows[id]
                                                  ELSE Confirmed(m.rows[id], mine)]]

\* REPLAY_AFTER_MS passes since an owed row was last enqueued.
AgeRow(m, id) == [m EXCEPT !.rows[id].due = TRUE]

-----------------------------------------------------------------------------
(* What is asked of a mailbox. *)

RowsExact(m) == m.rowsHeld = Cardinality(LiveIds(m))

BytesExact(m) == m.bytesHeld = Cardinality(ByteUnits(m, Ids))

Bounded(m) ==
    /\ Cardinality(LiveIds(m)) <= RowsLimit
    /\ Cardinality(ByteUnits(m, Ids)) <= BytesLimit

RowOwedUntilConfirmed(row) ==
    ~row.owed => row.state = "live" /\ (row.archived > 0 \/ row.collision)

RowKeepsBody(row) ==
    IF row.body = NoBody THEN row.state = "acknowledged" /\ row.archived > 0
                         ELSE row.bytes = SizeOf[row.body]

RowVersionIsChange(row) == row.version = IF row.state = "live" THEN 1 ELSE 2

\* Between two states of one row: it keeps its origin, never becomes live
\* again, and goes only once acknowledged.
RowMovesForward(row, new) ==
    \/ new.state = "none" /\ row.state = "acknowledged"
    \/ new.state # "none" /\ new.origin = row.origin /\ new.version >= row.version

=============================================================================
