# A TLA+ model of bsv-messagebox-cloudflare

The relay stores messages for recipients, lets them list and acknowledge them,
takes payments for delivery, and carries live events over sockets. It runs as a
Cloudflare Worker: stateless request handlers and two kinds of Durable Object,
over D1 (SQL), R2 (objects), a queue and a scheduled event. Nothing in it holds a
lock across an `await`, so every read or write of D1, R2, a hub or a queue is a
point where other requests, consumers and scheduled events interleave. Those
interleavings, and the calls that fail, time out or are made twice, are what the
modules here are about.

## The system's parts

| Part | State | Operations | What is hard |
| --- | --- | --- | --- |
| Mailbox of a recipient's hub (`mailbox/`) | rows by message id, two counters, the permissions copy | insert, list, acknowledge, take what is owed, archive confirmation | counters that are only ever moved; a row owed to the archive until it is confirmed |
| Hub over SQL (`message_hub_sql.rs`) | none of its own | the hop with its timeouts and one retry, the listing merged from hub and D1, the legacy acknowledgment in D1 | two awaits inside a listing and inside an acknowledgment; a repeated hop |
| Archive (`archive.rs`, queue `relay-archive`) | D1's messages, the queue | read long bodies back from the hubs, plan, upsert, tell the hubs | at-least-once, unordered delivery to overlapping invocations; a plan made from a stale read |
| Transcripts of retained boxes (`retention.rs`) | D1's messages, `transcript_tombstones` | read rows and marker, purge, the scheduled sweep | a cut in several statements, read in two |
| Payment hand-off (`handoff.rs`, `payments.rs`, `routes/send_message.rs`) | the R2 object, rows, fee, announcement owed | spool, judge, announce, internalize or defer, store the row | a failure after any step; the object belongs to whatever names it |
| Reclaim (`handoff.rs`, `beef_upload.rs`, migrations 0004, 0007, 0008) | `beef_released`, `beef_minted`, `beef_reclaiming` | claim, look, stamp, look again, stamp again, delete | R2 deletes by key with no condition |
| Scheduled event (`payments.rs` `run_fee_drain`) | attempts, the wallet's word | re-ask announcements, drain fees, reclaim released and minted keys | events overlap; stores fail part way |
| Send route (`routes/send_message.rs`, `send_budget.rs`) | budget windows, rows of messages | judge, charge, settle, a row per recipient | partial fan-out; writes that land after they were given up on |
| Permissions (`permissions.rs`, `storage.rs`, `mailbox/`) | `message_permissions`, each hub's copy of it | set, quote, read, keep, forget | a copy that is stale when used; a NULL in a unique key |
| Live hub (`message_hub.rs`, `presence*.rs`) | sockets' attachments, the registry of socket.io sessions, pending departures, markers | open, join, leave, close, broadcast, alarm, presence answer | a departure debounced by an alarm while a session comes back; leases; lost alarms |
| Engine.IO session (`engineio/`, `socketio_worker.rs`) | rounds in the object's storage, state in memory and on the socket's attachment, the polling queue in KV | handshake, poll, upgrade, attach, event, ping, close | evictions between any two steps; an alarm racing a late pong; an attach racing a handshake |
| Session lane (`session_lane.rs`) | the lane of a socket, its mirrors in the hubs | mint, stamp, accept, mirror, take, revoke | counters out of order; two hubs that hold mirrors |
| TURN credentials (`turn_credentials/`) | budget, recorded usernames | charge, mint, record, revoke | partial failure between provider and D1 |
| BEEF door (`beef_door.rs`) | a cursor in R2 | resume a reading | a reading that goes on in another request |
| Push (`fcm*.rs`), documents, validation, signatures | token cache | pure I/O or computation | |

`PROJECT.json` lists each part with its status, and under `hazards` what in this
code a test would hardly reach, each at its line.

## The modules

```
MailboxRows        the mailbox as operators from a mailbox to the mailbox it leaves
    MailboxRowsProofs  what each operator keeps (TLAPS)
  Mailbox          one hub asked anything at any time: the promise of the component
    MCMailbox      its instance
    HubProofs      its theorems, with PeerTold's and Heartbeat's (TLAPS)
  MailboxArchive   hubs, hops, the queue, its consumers, D1, listings
    Transcript     the transcripts over it: reads, purges, the sweep
      MCArchive    their instances (each hub refines Mailbox)
      ArchiveProofs  the theorems of both (TLAPS)
PaymentObject      one R2 key: sends, scheduled events, reclaims
    MCPayment      its instances
    PaymentProofs  its theorems (TLAPS)
Departures         one owner's hub: sessions, rooms, the departure debounce
    MCDepartures   its instances
    DepartureProofs  its theorems (TLAPS)
PeerTold           the hub at the other end of a room: told, parked, replayed
    MCPeer         its instances (proofs in HubProofs)
Heartbeat          one socket, its alarm and its client, in time
    MCHeartbeat    its instance (proofs in HubProofs)
SessionLane        the lane as operators: frames, mirrors, the window
  EngineSession    one Engine.IO session: rounds, transports, lane, hubs
    MCSession      its instances
    EngineProofs   its theorems (TLAPS)
Permissions        one box's permissions in D1 and the hubs' copies
  SendRoute        sends: fees, budget, payment, a row per recipient
    MCSend         its instances
    SendProofs     its theorems (TLAPS)
TurnCredentials    mints, budgets, records, revokes
    MCTurn         its instances
BeefDoor           the reading of a payment in slices
    MCDoor         its instances
    RouteProofs    the theorems of both (TLAPS)
```

The larger modules are checked over several small workloads in one run: a rigid
variable (`workload`, `setting`, `cast`), chosen in `Init` and never changed,
says who acts and what may fail in a behaviour. Where two modules meet, each
takes the other's part as a choice: `SendRoute` has a settlement's verdict where
`PaymentObject` has the object, `PeerTold` the confirmed departure `Departures`
arrives at, `Heartbeat` an await where the hub renews the lease.

The mutants (`VerdictUnseen` before `Verdict`, `ForgetOpen` before `ForgetClosed`;
in the older modules with a comment that begins "Faulty") stand before the
definition they are a fault of; no specification uses them. Most modules state a
`TypeOK`. `MCMailbox` checks it, and it is proved of every specification (of
`TurnCredentials` it is `TurnTypeOK`, stated in `RouteProofs`, of `PeerTold`
`PeerTyped`, in `HubProofs`); the other runs spend their time on the rest. Where two
specifications share a proof module, one has its `Init`, `Next` and `Spec` under names
of its own (`PeerSpec`, `HeartbeatSpec`, `TurnSpec`).

### Mailbox (`MailboxRows`, `Mailbox`)

A mailbox is the record of its rows and its two counters. The code runs each
operation as a run of SQL statements with no await in between, so each is one
step: `Insert` (its verdicts in the code's order: a row already held, a body too
long, the row limit, the byte limit, stored), `Acknowledge`, `TakeOwedDue` (which
every insert, list and acknowledgment also runs, stamping the rows it replays),
and `ArchiveDone`. Time is reduced to what the code asks of it: whether a row's
last enqueue is `REPLAY_AFTER_MS` old (`due`). A body's length is a set of byte
units, so that the sum of lengths is a cardinality and needs no recursion.

### The mailbox and its archive (`MailboxArchive`)

Sends and acknowledgments reach the hub over a hop that times out and is repeated
once (`Post`, `HopFails`, `Answer`; a hop that failed for its caller may still
arrive). Every change is handed to the queue after the answer (`Enqueue`); the
queue may lose, repeat and reorder. A consumer takes any batch (`Take`), reads
the long bodies back from the hubs one hub at a time (`ReadBodies`), reads what
D1 holds (`ReadHeld`), plans (`Verdict`) and writes the upserts as one D1 batch
(`Write`), and posts the confirmations (`Tell`, or `TellLost`). A listing reads
the hub, then D1, then the hub again (`ListHub`, `ListD1`, `ListMerge`), and an
acknowledgment of ids the hub does not hold carries on in D1 in two steps
(`LegacyLook`, `LegacyWrite`). Sending after the answer is merged with the
handler: the queue delays as long as it likes, so this adds no order.

### The transcripts of retained boxes (`Transcript`)

The rows are D1's, in `MailboxArchive`'s `d1`, and `Relay` is any step of that
module. A purge checks, deletes what the caller received and then writes its
marker (`PurgeGate`, `PurgeDelete`, `PurgeMark`); the sweep runs the four
statements of `SweepOrder`, one step each; a read takes the rows and then the
marker (`ReadRows`, `ReadMarker`). A statement may fail and may have landed
(`PurgeFails`, `SweepFails`). Age is what the statements ask of it: a row past
the TTL (`RowAges`), a marker past twice the TTL (`WindowPasses`, which no request
or event lasts). `cut` is history: the rows deleted under a marker that is not yet
that old, from the moment a purge is answered, and of the sweep those that were
expired when it began. One sender wrote everything (`Author`). The bodies served
from R2 and the limit of rows are left out.

### A payment's object (`PaymentObject`)

One R2 key, an upload's or a spool's (`Spooled`), and every send and scheduled
event that reads or writes it, one step per await. `me[p]` is a process's program
counter and locals. A reclaim (`Claim`, `Look`, `Stamp`, `Look`, `Restamp`,
`Clear`, `Unclaim`) may run inside a send that failed and inside a pass of the
scheduled event; several may run at once, and they share the one claim. `fee`,
`announce`, `released`, `minted` are the D1 rows at the key. An etag stands for
the bytes. D1 and R2 fail while `failing` holds, with or without the write
landing, wallet-infra answers anything, and the sender may PUT again while its
URL lives: a setting names the uploads there are, and a spool has one content, its
key being a digest of it. `over` and `met` are histories of the etags whose fee was
recorded or ended, and whose deferral met another fee in the ledger. `early` stands
both for the URL's life and for the minted record's
deadline, which the code sets past it.

### Departures (`Departures`)

The hub of one owner. `rec` is a session's record of its rooms: the attachment of
a raw socket, or the registry entry of a socket.io session with its lease. Closes
(`Close`, for `teardown_departed_socket` and `handle_socketio_unregister`) walk
the rooms joined, and left and not rejoined; a room that is empty gets a pending
entry and an alarm. `AlarmRings` and `TickResumes` are the alarm handler, cut at
each push it awaits, with the list it took at the start. A listing of the registry
drops lapsed entries and arms their rooms, wherever it happens (`Looked`,
`LookArms`, `HandlePresence`, `FanOut`). Durable Objects deliver no other event
while a handler awaits its own storage (the platform's input gates), so a step
runs from one call to another object to the next. A pending entry `waits`, is
`due`, or is `overdue` by another window, which is what the code asks of time.
The histories `own` (what a session's own events make of its record), `issued`,
`ungreeted` and `lost` (the rooms a fan-out took out of a session's entry, until the
session joins them again) are for the properties only; no guard reads them.

Taken as given: every room has a learned peer and an owner's identity in its
name. A push made inside a listing because the entry could not be stored does not
end the step.

### The peer's hub (`PeerTold`)

The other end of a room. The peer's hub pushes `peerJoined` and `peerLeft`
(`PushPeerJoined`, `DebounceEnds`), each a call under way; `HandlePush` is
`handle_peer_left` and `handle_peer_joined`: compare with what was told
(`Tells`), write it, and fan out to the raw sockets at once and to the socket.io
sessions one call after another (`CallSession`), and park what reached none
(`Settles`). A join (`JoinRoom`, `Register`) is handed what was parked
(`ParkedChoice`) or a replay of the last departure (`ReplayDue`), then asks the
peer's hub and tells the session (`AskPeer`, `Snapshot`). `view` is the last a
client heard. Calls fail and overtake each other in the casts that say so. In the
others a call ends within the debounce window (`NoLateArrival`), an assumption the
code does not enforce: it awaits each call with no bound of its own.

### The heartbeat (`Heartbeat`)

One socket, in ticks of about two seconds; `Heartbeat.cfg`'s 12 and 10 stand for
`PING_INTERVAL_MS` 25 s and `PING_TIMEOUT_MS` 20 s. Times are ages, so states
recur. The alarm's handler judges (`MustClose`), awaits the hub's renewal
(`AlarmFires`, `TickResumes`) and pings; a message, a broadcast and an alarm each
run `ensure_heartbeat` (`HeartbeatRepair`). `Evict` leaves what the attachment
holds, and cuts off a handler that awaits the hub; `AlarmLost` leaves an alarm row
that never rings. The client answers pings, and nudges when one is late.
`LateWarmUp` FALSE says that the Worker's `/__init`, which it does not wait for,
arrives before the first eviction; without it `handle_init` (`session.rs:1103`)
makes a blank session over one with a socket.

### Engine.IO sessions and the lane (`EngineSession`, `SessionLane`)

`SessionLane` is the pure part: `Mint`, `VerifyInbound`, `Sealed`, the mirror and
its window (`CounterIsFresh`, `HttpAccepted`). `EngineSession` is one sid: rounds
completed by the Worker for a polling client and handed over (`PollInitial`,
`HandOff`), the polling queue's reads and writes in KV as separate steps, the
upgrade, rounds over the socket, `HandleAsk` for the lane, `HandleAttach` and
`AttachAnswered` with the compare-and-set after the hub's answer, events that are
forwarded with `FORWARD_MAX_ATTEMPTS`, deliveries stamped on the lane, and the
close. `inner` is memory, `att` the attachment; `Evict` loses the one. Each event
puts the mirror into the KV hub; under `HUB_STORE=sql` a session-verify takes it
over (`SessionTake`, `SessionKept`). A call to the session's object that fails
closes the session for the Worker (`MarkedClosed`), and what it asked may have been
done. Where the object has no rounds an upgrade reads KV, which then has none
either: the Worker saves a state there only after the object wrote its rounds.
Signatures and MACs are matches of the round or the lane they were made with: the
frames are the client's own.

### Permissions and sends (`Permissions`, `SendRoute`)

`Permissions`: one row per sender and a sequence of box-wide rows (the NULL sender
makes each setting a new one, and a read takes the first), the settings one after
another with attempts that are given up on and land later, the quote that creates
a default, and the hubs' copies: read through, kept with the stamp of before the
read, forgotten after a change, aged. `seen` is the history of what D1 would have
answered. `SendRoute`: a request reads the fees (in D1 or by asking each
recipient's hub), charges the window, settles, and stores a row per recipient, to
the first failure; each store may stall, land late and be made again, with the
verdict read back (`Verdict`). A client may send again what was answered 503. The
live WebSocket send takes the same steps, to one recipient (`LiveSendArrives`), and
is acknowledged for a duplicate too (`IsAcked`). Times are in ticks longer
than a hop's bound.

### TURN credentials (`TurnCredentials`)

A mint is charged to its budgets in one D1 batch, all or none (`Taken`), asked of
the provider, recorded username by username and only then handed out; a record
that fails takes back what was minted (`RecordFails`, `Undo`). A revoke reads the
owner, asks the provider, then forgets; the switch, the body and the key are judged
before (`RevokeRefusal`). `ended` is history: each credential ended before its time and
who ended it, the owner's revoke or the mint itself. The scheduled event forgets windows
and records.

### The BEEF door (`BeefDoor`)

A content is its number of steps per pass, the step at which it is refused if any
and whether that refusal is the server's decline (`untimely`, a mining check that no
tip decides) or the payer's bytes, its subject, the outputs it pays and its merkle
roots; its stamp is itself, an etag being a digest. A request at rest reads the
stamp, loads the saved state, reads as far as its slice (`Read`), judges the output
when the structure ends (`JudgeOutput`), asks for the roots, `ROOT_LOOKUPS_PER_PASS`
at a time (`AskRoots`), and saves or clears. `Replace` puts another object, or none,
under all this; a store or a header source fails a bounded number of times; a client
sends a 503 again (`Retry`). A payment read whole in one request (`VerifyInline`,
with no bucket bound; `CheckUnjudged`, with no delivery fee, which refuses a text
longer than its row) and the spool of an inline one are in it too; forgetting a
spool is best effort. A request whose remittance is not one (`IsClaim`) is refused
before anything is read.

## Runs

| Run | Question | Bounds |
| --- | --- | --- |
| `MCMailbox` | do the counters, the bounds and what is owed survive anything asked of a hub? | 2 ids, 2 origins, two sizes, so that two short rows or one long row meet the limits; 1 replay per request |
| `Archive` | is what the hub is told so; is a text ever lost; can D1 move backwards; is everything live throughout listed, once; does a transcript that was cut say so? | eight workloads: one long message in a retained box with a repeated acknowledgment, one short message in another with a repeated send, two overlapping consumers, one listing among a hub row and a paid D1 row, one id at two hubs; a paid row with two purges, two reads and the sweep; a row under archiving with a purge and a read, or the sweep and a read |
| `ArchiveLive` | is each hub a `Mailbox`, and is an owed row confirmed in the end? | one message, lossy queue and tells |
| `PaySafe` | is anything older than a reclaim's second look ever deleted under its name; does a fee told deferred stay owed? | two sends of one upload and an event; one send and two events; two sends of one spool with failing stores; two uploads to one URL, each sent with its fee; ceiling 1 |
| `PayLive` | is an object let go of still on a list, and does it go; is a deferred fee over in the end? | one send of a row or a fee, one event, stores failing for a time; ceiling 2 |
| `Departures` | is a last departure ever missed, a seated owner announced as gone, an absence read that was not confirmed, a pending departure stranded? | five casts: a raw socket and a socket.io session in a room with fan-outs, lost alarms and evictions, and in a lobby with fan-outs; two socket.io sessions with late events; a lobby room and failing storage; two rooms on one session |
| `PeerTold` | is a peer's coming or going ever lost between pushes, sessions that replace each other, and what is parked? | four casts of one or two sessions, up to two joins of the peer, two ticks with a life of 1 for parked news |
| `Heartbeat` | is a client that answers ever closed, or left without a ping; is a dead one closed? | interval 12, timeout 10, grace 1, nudge 4 late, delays up to 2, 2 frames under way |
| `Session` | is a completed round ever unknown; do client and socket agree on the lane; is a counter used twice; does the window take each once? | seven workloads: 4 rounds over a cap of 2; an attach, asks and rounds with 2 evictions; 3 events and a delivery; HTTP counters 1 to 4 over a window of 2, in each store, with 3 ticks |
| `Send` | is "stored" so; is a fee older than a copy's life used; do windows bind? | ten workloads of one or two recipients, up to three sends, 3 attempts, mailboxes of one row, budget of 2 sends and 3 bytes, copy's life 2 |
| `Turn` | do the budgets bind, and can what was handed out be revoked? | three mints over two windows; three revokes of two usernames; 1 and 2 as bounds |
| `Door` | is a verdict sound whatever other requests saved and uploads replaced; is work done for what pays nothing; does a client get its word? | passes of two steps, four roots of which two lookups go in a pass, two requests, one or two failures, replaced contents of nine kinds |

One message suffices where the property is about one row: the code never relates
two rows of different ids except in the counters and limits (`MCMailbox` has two
ids), the batch of a consumer (`MaxBatch` 2) and the shared message id of two
hubs. Two invocations, two events or two sends are the least that race; a third
adds no new pair. Two attempts are the least that distinguish the ceiling from its
neighbour. Two rounds
over the cap show one dropped and one kept; a window of two has an edge and an
inside. Two rooms are the least for which the alarm handler goes on after a
push, and two sessions the least for which a close does not empty a room.
Scheduled events, listings and alarms recur for ever and are not bounded; a
session joins and leaves any number of times, ends once, and may have one event
that arrives after its end. `PaySafe` is symmetric in the scheduled events.

Exceptions the properties state. `DepartureIsOwed` and `SeatedIsNotAnnounced` leave
out a room that a fan-out took out of a session's entry, until that session joins it
again. `AbsenceIsConfirmed` leaves out a room
whose newest join has not come to clear the marker: that join's delivery of parked
events awaits, or was cut off by an eviction, and until then a read answers
`false` from the close before it, although the comment at `message_hub.rs:1440`
clears the marker so that it does not. `LetGoIsQueued` is about keys that owe no
fee and that one row named, `DeferredIsOwed` leaves out an upload whose deferral met
the fee of the one it replaced, `RetainedCopyIsHeld` is about retained boxes. It and
`DoneIsSo` leave out an id that went to two recipients where something else takes
the id between a pass's read and its write, or one batch holds both acknowledgments
(`Contested`); `StoredIsKept` is about an id that names one text in its hub
(`OneText`). `GoneIsHeard` is about calls that
arrive in order. `GeneralIsKnown` leaves out a round that `RoundCap` later ones
pushed out, `DeadIsSeen` an alarm the platform lost. `BudgetBinds` counts the sends an
answered charge let through: a store that cannot answer lets a send through uncharged
(`ChargeUnanswered`), as the test `a_store_that_cannot_answer_refuses_nothing`
(`send_budget.rs:266`) asks for. `PaymentIsJudged` leaves out a
payment the server declines for want of a tip: it is answered 503 at each try, and no
try ends that. `Door` has no failure in the
workloads of one inline payment sent twice at once, unless a row names its bytes.

## Met while modelling

Where the code does otherwise than a comment says, or than a reader would expect.
TLC showed the first group by counterexamples to properties that state the
comment; none of the properties above claims what is denied here.

- *A listing may show an acknowledged row* (`message_hub_sql.rs:382`). `handle_list`
  reads the hub's rows, awaits D1's, and then reads which ids the hub holds. A row
  acknowledged before, whose acknowledged version is archived and whose row
  `archive_done` deletes during the await, is in D1's answer and no longer held.
  `mailbox/mod.rs:620`: "the mailbox's row wins and an acknowledged row never comes
  back from D1".
- *A purge is silent for a moment* (`retention.rs:476`). `purge_transcript` deletes
  and then writes the marker: a read between the two, or after a purge that died
  there, is empty and unmarked. `retention.rs:581`: "an empty `messages` with no
  `purgedAt` means "never any messages"". The sweep has the other order, but each of
  its statements takes its own `now`: a row that comes of age between the first two
  goes unmarked, and so does a row that a purge took before the first and the
  archive wrote again before the second (`retention.rs:345`: "never a silent gap").
- *A purge may be undone* (`retention.rs:466`). It deletes the version the archive's
  upsert compares, so a change the queue hands again writes the row anew, live, and
  the hub may have let go of it.
- *A second acknowledgment may bring a row back* (`message_hub_sql.rs:427`). The id
  counts as missing in the hub and goes to D1, whose archived insert is still live;
  the delete (the box is not retained) takes the acknowledged version the consumer
  wrote meanwhile, a copy of the insert the queue hands again is written live, and
  the hub deletes its row. `archive.rs:21`: "never lists the row again, whichever
  order the insert and the acknowledgment arrive in".
- *A release may be forgotten* (`handoff.rs:1024`). A second row of the key that is
  deleted between a pass's look and its forget finds the old record (INSERT OR
  IGNORE, migration 0004), which the forget deletes. `handoff.rs:1016`: "the row's
  own release ... comes back to it".
- *An orphan may go unlogged* (`handoff.rs:996`). A whole reclaim, claim to unclaim,
  fits between the hand-off's stamp and the row. `handoff.rs:960`: "one of the two
  always sees the other".
- *A departure may be silent* (`message_hub.rs:933`). A failed broadcast call drops
  the entry of a session that may be alive, and a fan-out that ends writes back the
  entries it read at its start: a room joined or left meanwhile is forgotten or comes
  back. The close then does not find the room and arms nothing for it.
  `message_hub.rs:856`: "registry is kept truthful".
- *A deferral may be ignored* (`storage.rs:63`). A second upload to one URL whose fee is
  deferred while the first one's is in the ledger changes nothing there (INSERT OR
  IGNORE by key); its sender is told deferred, and nothing is owed under its etag.
- *An acknowledgment may be confirmed unwritten* (`archive.rs:200`). The best message
  of a batch is kept per id. One id sent to two recipients, both acknowledged and both
  acknowledgments in one batch: the one D1 holds the row for may be superseded by the
  other's, which is a collision and not written, and its hub is told it is archived.
  `archive.rs:311`: "every message D1 now holds at its version or a newer one
  (written, a repeat, superseded in the batch)".
- *A window may be cut short* (`message_hub.rs:2752`). The alarm handler works
  through a list taken before it awaits a push: a room rejoined and left again
  meanwhile has its new entry deleted and is pushed at once. `message_hub.rs:3734`:
  a departure "re-times the single check from the latest departure".
- *A mirror may outlive its socket* (`engineio/session.rs:2423`).
  `post_to_hub_registry` always calls `MESSAGE_HUB`, so under `HUB_STORE=sql` the
  mirror `MessageHubSql` took is not revoked at the close and lives to its expiry.
  `session.rs:2366`: the hub "revokes the HTTP mirror in the same call".
- *A join's snapshot may be stale* (`message_hub.rs:3315`). A peer that rejoins
  between the hub's answer and the session's hearing of it is shown absent, after
  the `peerJoined` that said otherwise.
- *A box-wide setting may have no effect* (`storage.rs:1001`). The NULL sender never
  conflicts, so a setting after an earlier one, or after the default a quote wrote,
  adds a row the reader does not look at. `storage.rs:995`: "the same values
  converge to the same row".

Read from the models without a run of their own:

- presence: a `peerLeft` overtaken by the newer `peerJoined` leaves a seated peer
  told absent (`message_hub.rs:2580`); a parked arrival that was superseded
  suppresses the replay of the departure (`:126`); of two parked events the "newer
  wins" branch is never reached, the told state having decided;
- sessions: the KV polling queue's append and drain are a read and a write each, and
  lose a packet to each other (`socketio_worker.rs:258`); a mirror that is made
  again starts its counters again; a superseded lane's mirror is not revoked;
- sends: a resend after a 503 that had stored some recipients meets its own rows as
  duplicates and never stores the rest (`send_message.rs:108`); a live duplicate is
  acknowledged as "the identical-content row is already present"
  (`message_hub.rs:4078`), though any row by that id makes it one; a tagged output
  without `outputIndex` may go to two recipients (`payments.rs:355`); an inline
  payment refused at its routing is at rest already, contrary to `payments.rs:207`,
  until the minted record's reclaim; a charge that lands after its window was
  forgotten makes it anew; a given-up permission write that lands late overrides a
  newer setting;
- TURN: a record expires before the provider's credential, counted from before the
  call; a provider's answer that is lost leaves a credential nobody knows;
- the door: two requests of one inline payment may keep undoing each other after
  one failure, since a 503 that is not `pending` ends the spool
  (`payments.rs:183`) under the other's reading; one may also be answered that its
  key is not found; a request that resumes another's scripts has its own output
  judged only at the roots.

- archive: of two invocations archiving one id for two recipients, the refused one may
  still confirm (`mailbox/mod.rs:504`, `archive.rs:200`);
- an acknowledgment's long body may be gone while D1 holds only the insert, until
  the replay (`archive.rs:349`);
- an id used again after its row left the hub is taken for the old row, and the
  new text is lost (`archive.rs:349`, `mailbox/schema.rs:20`);
- a fee that ends, or is settled or announced with a reclaim that then fails,
  after the minted record was forgotten, leaves an object nothing looks at
  (`handoff.rs:1226`, migration 0009);
- bytes uploaded after a reclaim's second stamp are deleted (`handoff.rs:988`),
  as the code says in part.

## Fairness

- `ArchiveLive`: a hub that holds an owed row is asked again and again (replay
  happens only in requests, so without them nothing is promised; the recipient's
  client polls), a row ages, the consumer's steps are not refused for ever, and a
  tell repeated without end arrives once. Losing any one message is allowed,
  hence strong fairness.
- `PayLive`: the platform runs the scheduled event and finishes a
  request's steps (weak fairness), D1 and R2 recover in the end (`StoresRecover`),
  deadlines pass, and a due fee or minted record that is due again and again is
  taken up by some event (strong fairness: a pass takes the oldest first, within
  its limit).
- `Departures`: time passes, a push is answered or fails, the hub gets another
  event while a departure is pending (the net runs on every event), and an alarm
  that is set again and again rings once (strong fairness: any one may be lost).
- `Heartbeat`: time passes, an alarm that was not lost fires, its handler's call is
  answered, frames are delivered, and a client that is up hears its pings and
  nudges (weak fairness; each is delayed by at most `Delay`, in the guard of
  `TimePasses`). A lost alarm is owed to nobody.
- `Door`: a request's steps go on, and a client sends a 503 again (weak fairness,
  per request). Failures and uploads are bounded and owed to nobody.

## Proofs

Eight modules hold proofs, always of a component's own specification: for any
constants that satisfy its named ASSUMEs, any workloads, and as many hubs, sends,
events, sessions, rooms or requests as one likes. No assumption is about the
behaviour; they say that the constants have their types, that model values such as
`NoBody`, `Gone` or `None` are none of the values they stand beside, and that limits
are natural numbers. What goes beyond that: `SettingsPay` (a spool's row sends also
pay its fee: `payments.rs:201`, "A body no delivery fee judges is kept in its row,
never spooled"), `CastsTyped` (no cast has both failing storage and evictions: a push
made because an entry could not be stored is within one step here, and an eviction
inside it would lose that departure), `LaneBounds` (`Slack < Idle < Life`, as in
`session_lane.rs`), `IdsFinite`, `HeartbeatTimes` (`Interval > Timeout`, asserted by the
code; a nudge comes no earlier than the grace and the frames' delay, and its answer
before the client's timeout, the relation the comment on `ALARM_LATE_GRACE_MS`
gives) and `PeerToldBounds` (parked news lives at least as long as a departure is
replayed). `SendWorks` and `PermissionWorks` say that a send names at least one
recipient (`validate_send_message`) and that senders, recipients and fees are of their
sets. One theorem has a hypothesis of its own, `NudgesAreHeard`: `LateWarmUp = FALSE`,
as in the run.

None of the properties is inductive as it stands. What each proof adds:

- `MailboxRowsProofs`, `HubProofs` on `Mailbox`. `Sound(mb)`: the type, exact counters, the
  bounds and one predicate per row (a live row has version 1 and its body, an
  acknowledged one is owed at version 2). Operation by operation (`InsertSound`,
  `AckSound`, `TakeSound`, `DoneSound`, `AgeSound`), from lemmas about one row and one
  about how the counters follow the set of live rows (`CountersCarry`, from the
  cardinality theorems). All properties of `MCMailbox` follow.
- `HubProofs` on `Heartbeat`. `AnswersDue`: what a copy of the session awaits, in memory or
  on the attachment, is under way as a ping or a pong young enough to come in time, so
  no tick that judges by either copy finds it late. `Hearing` bounds how long a client
  has heard nothing by the age of the ping or nudge that is under way (`HeardSoon`), and
  the last ping by the schedule (`Scheduled`): a nudge finds the ping overdue, whatever
  became of the alarm. Both are arithmetic on ages, for any times that satisfy
  `HeartbeatTimes`.
- `HubProofs` on `PeerTold`. `NewsHeld`: what nobody heard is what was last told, and is
  parked or with a handler that reached nobody; without the first half a handler that
  ends would park the wrong news. `DepartureHeard`: a departure is, for each session in
  the room, heard, or has a way to it still (`Reaches`: a handler that will come to the
  session, or the session's own join), unless its call is still under way and will be
  news to the hub (`Underway`).
- `ArchiveProofs`. `Base` says that whatever hubs, queue, passes and D1 hold was sent
  so; `Step` sums a step up by what it may do to hubs, D1, passes, confirmations and
  calls, so that each later argument is about `Step` and not about twenty actions.
  `HubsImplementMailbox` is the refinement: every step of the relay is, at each hub, a
  step of `Mailbox` or none. `ArchiveForward` needs only the upsert's guard. `ToldIsSo`
  needs `PlansSo`: what a pass read of D1 stays good enough to plan by, since rows
  only move forward. `CopyIsHeld` needs in turn that a message under way is of a row
  its hub holds or D1 has settled (`MessagesKept`), or a late insert would come after
  the hub let go. `StoredStays` adds where the text is (`BodyReached`): D1 has it before
  the hub may drop it and before a message comes without it. `ListingIsWhole` is an
  action property, from each answer naming an id once. `CutTranscriptsSay` rests on
  `Marking`: what is cut is marked, what the sweep saw expired is marked before it
  goes, and a read that missed rows finds the marker.
- `PaymentProofs`. The second look, as far as it got, covers every name older than it
  (`Looked`), for every process at once, since reclaims overlap; `SendOk` follows what
  a send was told back to the deferral it wrote. A step either adds no name
  (`MoveKeeps`) or adds one that is newer than every second look (`NameKeeps`).
  `LetGoStaysQueued` needs `Queued`: an object whose one row let go is released or
  minted, and a pass under way that is about to forget either has looked since and found
  nothing to keep (`PassOk`, at each step of a reclaim).
- `DepartureProofs`. A session's record holds what its own events made of it, but for
  what a fan-out took (`Matched`), until the hub heard its end; leases lapse only of
  sessions that are gone (`Leased`); a fan-out puts back only what it read of sessions
  that came (`FanListed`); only a close leaves rooms to walk (`Walked`); a marker of
  absence is of a push since the last join (`Marked`). Listing the registry, which
  happens inside most handlers, is proved about once (`Looked`, `LookArms`).
- `EngineProofs`. `Masked`: a mirror's bits are the counters it took within its window,
  shifted with it. `Counted`: memory and attachment each hold counters that are enough
  to go on from, which is what an eviction between any two steps takes. `Recalled`: the
  stored list ends with the last `RoundCap` rounds, and a round is told on no path
  before it is remembered. `LanesAgree` needs `Owning`: rounds that were begun, asks in
  the order they were sent, and, at each place of an attach or an ask between client,
  hub and socket, which lane the socket has or will have. `MaxRound` and `MaxLane` are
  bounds on the histories' types;
  they may be any numbers.
- `RouteProofs` on `TurnCredentials`. `BudgetInv`: the counters of the open windows are exactly the mints
  charged to them, so those asked of the provider are within the caps, though closed
  windows are forgotten. `RecordInv`: a name is recorded from its mint's step until its
  expiry or its end by the identity that minted it, and a revoke that has passed the
  owner's check is that identity's: it forgets only what it ended itself.
- `RouteProofs` on `BeefDoor`. `CursorOk`: whatever a saved cursor says was read is valid of the bytes
  of its stamp, whoever saved it; `RequestOk`: the same of a request under way, with
  what it may rely on at each step; the verdict follows from both. That `ROOT_LOOKUPS_PER_PASS`
  lookups leave no gap is `NoGap`.
- `SendProofs`. `Goes` sums up how a request may move, once for all its actions.
  `BudgetInv`: an open window holds at least what answered charges let through in it, and
  a window once closed is not open again; a send let through because the store did not
  answer its charge is outside the bound. `StoredInv`: the recipients before the one at hand have
  their rows, and a request that reads back, or is told of a duplicate, met a row by its
  id; rows in D1 and in mailboxes were stored, whichever attempt stored them. `FeeInv`
  says since when D1 gave each answer that a hub's copy, a handler at a hub or a request
  holds, and that a handler whose caller gave up, went on or was sent again is behind for
  good (`Past`): its late answer is kept under its old stamp and never taken for the one
  a newer call waits for.

Only model-checked, on the bounds above: liveness, which is out of the prover's reach
(`OwedIsConfirmed`, `LetGoGoes`, `FeeIsOver`, `DepartureSettles`, `DeadIsSeen`,
`PaymentIsJudged`). Every other property of the runs is a theorem.

## Not modelled

- In the mailbox: the listing's row limit and byte cut. The clamp of negative
  counters is not observable (`CountersExact`).
- In D1: the retried acknowledgment that reports its ids (`storage.rs:837`).
- In the hand-off: the second key `hand_off` spools to when the first spool is gone
  (a hazard is listed). The older kv drain. An announcement is put off without a
  ceiling, as in the code. The reading, the routing of outputs and the object are
  three modules, not one composition.
- In the hub: last-seen stamps and the idle rule of the presence answer, the byte
  cap of a record, the broadcast registry's shards, two joins of one session at
  once, a failing put of the marker, typing and call events.
- In Engine.IO: packet framing, namespaces, more than one socket of a sid.
- The fan-out of a broadcast in `lib.rs`. In a transcript: the order and limit of
  its rows and the bodies served from R2.
- Wording, parsing, static documents, pushes to FCM and cryptography, for good:
  pure I/O or computation.

## Plan

1. `PaymentObject` composed with `BeefDoor`: the reading that a reclaim runs under,
   and the second key.
2. The broadcast fan-out and its registry of shards.
