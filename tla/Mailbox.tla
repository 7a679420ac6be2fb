------------------------------- MODULE Mailbox -------------------------------
(***************************************************************************)
(* One recipient's hub, asked to insert, list, acknowledge and confirm     *)
(* anything at any time (the handlers of MessageHubSql,                    *)
(* src/message_hub_sql.rs, as far as they touch the hub's own storage).    *)
(* An abstract specification: what holds of it holds whatever the network, *)
(* the queue and the archive do.  MailboxArchive drives each hub only by   *)
(* these steps.                                                            *)
(***************************************************************************)
EXTENDS MailboxRows

VARIABLE mb     \* the hub's mailbox_rows and mailbox_counters

-----------------------------------------------------------------------------
Init == mb = EmptyMailbox

HandleInsert(id, origin, body, retry) ==
    \E T \in Takeable(mb) :
        mb' = Insert(TakeOwedDue(mb, T), id, origin, body, retry)

HandleList ==
    \E T \in Takeable(mb) : mb' = TakeOwedDue(mb, T)

HandleAck(ids) ==
    \E T \in Takeable(mb) : mb' = Acknowledge(TakeOwedDue(mb, T), ids)

HandleArchiveDone(D) == mb' = ArchiveDone(mb, D)

Age(id) ==
    /\ id \in HeldIds(mb) /\ mb.rows[id].owed
    /\ mb' = AgeRow(mb, id)

Next ==
    \/ \E id \in Ids, origin \in Origins, body \in Bodies, retry \in BOOLEAN :
          HandleInsert(id, origin, body, retry)
    \/ HandleList
    \/ \E ids \in SUBSET Ids : HandleAck(ids)
    \/ \E D \in SUBSET Done : HandleArchiveDone(D)
    \/ \E id \in Ids : Age(id)

Spec == Init /\ [][Next]_mb

-----------------------------------------------------------------------------
(* Properties *)

\* The hub's state has its type: at most versions 1 and 2 of a row, a counters
\* row of two integers (CREATE_ROWS, CREATE_COUNTERS).
TypeOK == mb \in MailboxState

\* mailbox_counters never drifts from the rows it counts: after any sequence
\* of inserts, retried inserts, acknowledgments (of live, acknowledged and
\* absent ids in one call) and deletes by archive_done, the two counters are
\* the number of live rows and the sum of their bytes.
CountersExact == RowsExact(mb) /\ BytesExact(mb)

\* The bound of E4 holds of what the hub really holds, not of the counters it
\* was checked on: never more live rows or live bytes than the limits.
WithinBounds == Bounded(mb)

\* The archive is never forgotten: a row the hub stopped owing is a live one
\* that some confirmation named (archived, or in collision), and an
\* acknowledged row is owed until archive_done deletes it.
OwedUntilConfirmed == \A id \in HeldIds(mb) : RowOwedUntilConfirmed(mb.rows[id])

\* A live row can always be listed and archived with its body, of the length
\* the counters hold for it; an acknowledged row lost its body only after some
\* version of it was confirmed.
BodyUntilArchived == \A id \in HeldIds(mb) : RowKeepsBody(mb.rows[id])

\* The version a row is archived under names its change: 1 while it is live,
\* 2 once acknowledged, so a second acknowledgment never makes a third version.
VersionIsChange == \A id \in HeldIds(mb) : RowVersionIsChange(mb.rows[id])

\* A row only moves forward: a held row keeps its origin and never becomes
\* live again, and it leaves the hub only once acknowledged (archive_done).
RowsMoveForward ==
    [][\A id \in HeldIds(mb) : RowMovesForward(mb.rows[id], mb'.rows[id])]_mb

=============================================================================
