--------------------------- MODULE MailboxArchive ---------------------------
(***************************************************************************)
(* The relay's mailbox under HUB_STORE = "sql": senders and recipients     *)
(* call the recipient's hub over a hop that may time out and be repeated   *)
(* (src/message_hub_sql.rs), the hub hands every change of a row to the    *)
(* queue relay-archive, the consumer (src/archive.rs) copies it into D1    *)
(* and tells the hub, and the hub's listings and acknowledgments also read *)
(* and write D1 (the legacy rule).  Every await of the code is a point     *)
(* where the steps of the others interleave.                               *)
(***************************************************************************)
EXTENDS MailboxRows, Sequences

CONSTANTS
    Hubs,           \* recipients: one hub each
    Boxes,          \* message boxes
    BoxOf,          \* the box of an origin
    RetainedBoxes,  \* the boxes of RETAINED_BOX_PREFIXES
    LongBodies,     \* bodies past ARCHIVE_INLINE_MAX, never sent through the queue
    Sends,          \* sends: who, what, and whether paid
    Acks,           \* acknowledgment calls
    Lists,          \* listings
    Consumers,      \* concurrent invocations of the queue's handler
    Endings,        \* what purges, expires and reads whole transcripts
    Workloads,      \* which of them happen together, and whose hop may fail
    MaxBatch        \* max_batch_size

Send == [hub : Hubs, id : Ids, origin : Origins, body : Bodies, paid : BOOLEAN, n : Nat]
Ack  == [hub : Hubs, ids : SUBSET Ids, n : Nat]
List == [hub : Hubs, box : Boxes, n : Nat]

Calls == Sends \cup Acks

Workload == [calls : SUBSET Calls, flaky : SUBSET Calls, lists : SUBSET Lists,
             consumers : SUBSET Consumers, ends : SUBSET Endings]

ASSUME BoxesOfOrigins == BoxOf \in [Origins -> Boxes] /\ RetainedBoxes \subseteq Boxes
ASSUME LongBodiesAreBodies == LongBodies \subseteq Bodies
ASSUME CallsTyped == Sends \subseteq Send /\ Acks \subseteq Ack /\ Lists \subseteq List
ASSUME WorkloadsTyped == Workloads \subseteq Workload
ASSUME MaxBatchPositive == MaxBatch \in Nat \ {0}

VARIABLES
    work,    \* what happens in this behaviour, chosen once
    mail,    \* per hub: its mailbox
    d1,      \* D1's messages table, by message id (UNIQUE)
    queue,   \* archive messages sent and not yet acknowledged to the queue
    pass,    \* per consumer: the batch it works on and how far
    posts,   \* /internal/archive-done calls in flight
    calls,   \* per send and acknowledgment: what its caller knows
    hops,    \* requests in flight to a hub
    legacy,  \* acknowledgments a hub is carrying on in D1
    lists    \* per listing: how far

vars == <<work, mail, d1, queue, pass, posts, calls, hops, legacy, lists>>

-----------------------------------------------------------------------------
(* The queue message of a row's current version, archive_message *)

ArchiveMessage == [hub : Hubs, id : Ids, version : Versions,
                   change : {"insert", "acknowledge"}, origin : Origins,
                   body : Bodies \cup {NoBody}, bodyInHub : BOOLEAN]

MessageOf(r, id, row) ==
    [hub |-> r, id |-> id, version |-> row.version,
     change |-> IF row.state = "live" THEN "insert" ELSE "acknowledge",
     origin |-> row.origin,
     body |-> IF row.body \in LongBodies THEN NoBody ELSE row.body,
     bodyInHub |-> row.body \in LongBodies]

MessagesOf(r, m, ids) == {MessageOf(r, id, m.rows[id]) : id \in ids \cap HeldIds(m)}

\* enqueue_after: handed to the queue once the answer left; any of the sends
\* may fail, and its row stays owed.
Enqueue(msgs) == \E sent \in SUBSET msgs : queue' = queue \cup sent

-----------------------------------------------------------------------------
(* D1's messages table *)

NoCopy == [state |-> "none"]

\* version 0: a row of the D1 path; NoBody: the empty text
Copy == [state : {"live", "acknowledged"}, recipient : Hubs, origin : Origins,
         body : Bodies \cup {NoBody}, version : 0 .. 2]

\* Faulty: no version guard in the upsert.
UpsertAnyVersion(old, m) ==
    LET acked == m.change = "acknowledge" IN
    IF old.state # "none" /\ old.recipient # m.hub THEN old
    ELSE [state |-> IF acked THEN "acknowledged" ELSE "live", recipient |-> m.hub,
          origin |-> m.origin, version |-> m.version,
          body |-> IF m.body = NoBody /\ old.state # "none" THEN old.body ELSE m.body]

\* ARCHIVE_UPSERT_SQL of one message against the row held under its id
Upsert(old, m) ==
    LET acked == m.change = "acknowledge" IN
    IF old.state = "none"
    THEN [state |-> IF acked THEN "acknowledged" ELSE "live", recipient |-> m.hub,
          origin |-> m.origin, body |-> m.body, version |-> m.version]
    ELSE IF m.version > old.version /\ old.recipient = m.hub
    THEN [old EXCEPT !.body = IF m.body # NoBody THEN m.body ELSE @,
                     !.state = IF acked THEN "acknowledged" ELSE @,
                     !.version = m.version]
    ELSE old

LiveInD1(r) == {id \in Ids : d1[id].state = "live" /\ d1[id].recipient = r}

\* Storage::acknowledge_messages: a retained box marks, every other deletes.
AcknowledgedInD1(row, r) ==
    IF row.state = "none" \/ row.recipient # r THEN row
    ELSE IF BoxOf[row.origin] \in RetainedBoxes THEN [row EXCEPT !.state = "acknowledged"]
    ELSE NoCopy

-----------------------------------------------------------------------------
(* The hop to a hub: post_with_retry *)

Hop == [call : Calls, retry : BOOLEAN]

Waiting(hop) == IF hop.retry THEN "retry" ELSE "first"

\* An answer reaches the caller, unless it is late or lost.
Answer(hop, word) ==
    \/ calls' = [calls EXCEPT ![hop.call] = IF @ = Waiting(hop) THEN word ELSE @]
    \/ calls' = calls

Post(c) ==
    /\ calls[c] = "new" /\ c \in work.calls
    /\ c \in Sends => ~c.paid
    /\ calls' = [calls EXCEPT ![c] = "first"]
    /\ hops' = hops \cup {[call |-> c, retry |-> FALSE]}
    /\ UNCHANGED <<work, mail, d1, queue, pass, posts, legacy, lists>>

\* FORWARD_OP_TIMEOUT_MS passes, or the hop fails: one retry, then an error.
\* What was posted may be lost or may still arrive.
HopFails(c) ==
    /\ c \in work.flaky /\ calls[c] \in {"first", "retry"}
    /\ calls' = [calls EXCEPT ![c] = IF @ = "first" THEN "retry" ELSE "failed"]
    /\ \E lost \in SUBSET {h \in hops : h.call = c} :
          hops' = (hops \ lost) \cup
                  (IF calls[c] = "first" THEN {[call |-> c, retry |-> TRUE]} ELSE {})
    /\ UNCHANGED <<work, mail, d1, queue, pass, posts, legacy, lists>>

-----------------------------------------------------------------------------
(* The hub's handlers; each leads with the replay of due rows *)

HandleInsert(hop) ==
    LET s == hop.call
        r == s.hub IN
    /\ hop \in hops /\ s \in Sends
    /\ hops' = hops \ {hop}
    /\ \E T \in Takeable(mail[r]) :
          LET before  == TakeOwedDue(mail[r], T)
              verdict == InsertVerdict(before, s.id, s.origin, s.body, hop.retry)
              after   == Insert(before, s.id, s.origin, s.body, hop.retry)
          IN  /\ mail' = [mail EXCEPT ![r] = after]
              /\ Enqueue(MessagesOf(r, before, T) \cup
                         MessagesOf(r, after, IF verdict = "stored" THEN {s.id} ELSE {}))
              /\ Answer(hop, IF verdict = "retried" THEN "stored" ELSE verdict)
    /\ UNCHANGED <<work, d1, pass, posts, legacy, lists>>

\* The ids the hub does not hold live go on to D1 (legacy), which answers later.
HandleAck(hop) ==
    LET a == hop.call
        r == a.hub IN
    /\ hop \in hops /\ a \in Acks
    /\ hops' = hops \ {hop}
    /\ \E T \in Takeable(mail[r]) :
          LET before  == TakeOwedDue(mail[r], T)
              acked   == Acked(before, a.ids, hop.retry)
              after   == Acknowledge(before, a.ids)
              missing == a.ids \ acked
          IN  /\ mail' = [mail EXCEPT ![r] = after]
              /\ Enqueue(MessagesOf(r, before, T) \cup MessagesOf(r, after, acked))
              /\ IF missing = {}
                 THEN Answer(hop, "answered") /\ UNCHANGED legacy
                 ELSE /\ legacy' = legacy \cup {[hop |-> hop, step |-> "look", ids |-> missing]}
                      /\ UNCHANGED calls
    /\ UNCHANGED <<work, d1, pass, posts, lists>>

\* legacy_acknowledge: of the missing ids, those D1 holds live ...
LegacyLook(l) ==
    LET found == l.ids \cap LiveInD1(l.hop.call.hub) IN
    /\ l \in legacy /\ l.step = "look"
    /\ IF found = {}
       THEN legacy' = legacy \ {l} /\ Answer(l.hop, "answered")
       ELSE /\ legacy' = (legacy \ {l}) \cup {[l EXCEPT !.step = "write", !.ids = found]}
            /\ UNCHANGED calls
    /\ UNCHANGED <<work, mail, d1, queue, pass, posts, hops, lists>>

\* ... are acknowledged there, whatever became of them since the look.
LegacyWrite(l) ==
    /\ l \in legacy /\ l.step = "write"
    /\ d1' = [id \in Ids |-> IF id \in l.ids THEN AcknowledgedInD1(d1[id], l.hop.call.hub)
                                             ELSE d1[id]]
    /\ legacy' = legacy \ {l}
    /\ Answer(l.hop, "answered")
    /\ UNCHANGED <<work, mail, queue, pass, posts, hops, lists>>

\* D1 fails the look or the write (legacy_refusal): the caller's hop fails.
LegacyFails(l) ==
    /\ l \in legacy
    /\ legacy' = legacy \ {l}
    /\ UNCHANGED <<work, mail, d1, queue, pass, posts, calls, hops, lists>>

\* A paid send, or a send of the D1 path before the cutover: INSERT OR IGNORE.
StorePaid(s) ==
    /\ calls[s] = "new" /\ s \in work.calls /\ s.paid
    /\ IF d1[s.id].state = "none"
       THEN /\ d1' = [d1 EXCEPT ![s.id] = [state |-> "live", recipient |-> s.hub,
                                            origin |-> s.origin, body |-> s.body,
                                            version |-> 0]]
            /\ calls' = [calls EXCEPT ![s] = "stored"]
       ELSE /\ calls' = [calls EXCEPT ![s] = "duplicate"]
            /\ UNCHANGED d1
    /\ UNCHANGED <<work, mail, queue, pass, posts, hops, legacy, lists>>

-----------------------------------------------------------------------------
(* A listing: the hub's rows, then D1's across an await, then the merge *)

Entry == [id : Ids, body : Bodies \cup {NoBody}]

ListHub(l) ==
    LET r == l.hub IN
    /\ lists[l].step \in {"new", "answered"} /\ l \in work.lists
    /\ \E T \in Takeable(mail[r]) :
          /\ mail' = [mail EXCEPT ![r] = TakeOwedDue(@, T)]
          /\ Enqueue(MessagesOf(r, mail[r], T))
    /\ lists' = [lists EXCEPT ![l] =
          [step |-> "d1", d1 |-> {},
           rows |-> {[id |-> id, body |-> mail[r].rows[id].body] :
                        id \in {x \in LiveIds(mail[r]) : BoxOf[mail[r].rows[x].origin] = l.box}}]]
    /\ UNCHANGED <<work, d1, pass, posts, calls, hops, legacy>>

\* Storage::list_messages: the recipient's rows with acknowledged_at NULL.
ListD1(l) ==
    /\ lists[l].step = "d1"
    /\ lists' = [lists EXCEPT ![l].step = "merge",
          ![l].d1 = {[id |-> id, body |-> d1[id].body] :
                        id \in {x \in LiveInD1(l.hub) : BoxOf[d1[x].origin] = l.box}}]
    /\ UNCHANGED <<work, mail, d1, queue, pass, posts, calls, hops, legacy>>

\* Faulty: an id D1 also named is left out of both sides.
MergeSeen(fromD1, rows, held) ==
    {e \in fromD1 : e.id \notin held} \cup {e \in rows : \A k \in fromD1 : k.id # e.id}

\* The merge, D1's rows leading: those whose id the hub holds are dropped, and
\* of one id the leading row stands.
Merge(fromD1, rows, held) ==
    LET kept == {e \in fromD1 : e.id \notin held} IN
    kept \cup {e \in rows : \A k \in kept : k.id # e.id}

ListMerge(l) ==
    /\ lists[l].step = "merge"
    /\ lists' = [lists EXCEPT ![l].step = "answered", ![l].d1 = {},
          ![l].rows = Merge(lists[l].d1, lists[l].rows, HeldIds(mail[l.hub]))]
    /\ UNCHANGED <<work, mail, d1, queue, pass, posts, calls, hops, legacy>>

-----------------------------------------------------------------------------
(* The queue's consumer, archive::consume *)

NotHeld == [version |-> -1]
Idle == [step |-> "idle", batch |-> {}, held |-> [id \in {} |-> NotHeld]]

Held(row) == IF row.state = "none" THEN NotHeld
             ELSE [recipient |-> row.recipient, version |-> row.version]

IdsOf(batch) == {m.id : m \in batch}
NeedsBody(m) == m.bodyInHub /\ m.body = NoBody

\* The queue's own message of one whose body was read from the hub.
Raw(m) == IF m.bodyInHub THEN [m EXCEPT !.body = NoBody] ELSE m
Raws(batch) == {Raw(m) : m \in batch}

Take(c) ==
    /\ pass[c].step = "idle" /\ c \in work.consumers
    /\ \E batch \in (SUBSET queue) \ {{}} :
          /\ Cardinality(batch) <= MaxBatch
          /\ pass' = [pass EXCEPT ![c] = [Idle EXCEPT !.step = "bodies", !.batch = batch]]
    /\ UNCHANGED <<work, mail, d1, queue, posts, calls, hops, legacy, lists>>

\* retry(): handed again, or dropped past max_retries.
Retry(msgs) == \E dropped \in SUBSET msgs : queue' = queue \ dropped

\* /internal/archive-read of one hub: a body it no longer holds is "gone",
\* its message acknowledged and left out of the pass.
ReadBodies(c, r) ==
    LET want   == {m \in pass[c].batch : NeedsBody(m) /\ m.hub = r}
        has    == {m \in want : m.id \in HeldIds(mail[r]) /\ mail[r].rows[m.id].body # NoBody}
        filled == {[m EXCEPT !.body = mail[r].rows[m.id].body] : m \in has}
        left   == (pass[c].batch \ want) \cup filled
    IN  /\ pass[c].step = "bodies" /\ want # {}
        /\ pass' = [pass EXCEPT ![c] = IF left = {} THEN Idle
                                       ELSE [pass[c] EXCEPT !.batch = left]]
        /\ queue' = queue \ (want \ has)
        /\ UNCHANGED <<work, mail, d1, posts, calls, hops, legacy, lists>>

BodiesFail(c, r) ==
    LET want == {m \in pass[c].batch : NeedsBody(m) /\ m.hub = r}
        left == pass[c].batch \ want
    IN  /\ pass[c].step = "bodies" /\ want # {}
        /\ pass' = [pass EXCEPT ![c] = IF left = {} THEN Idle
                                       ELSE [pass[c] EXCEPT !.batch = left]]
        /\ Retry(want)
        /\ UNCHANGED <<work, mail, d1, posts, calls, hops, legacy, lists>>

\* The held read of archive_batch.
ReadHeld(c) ==
    /\ pass[c].step = "bodies" /\ \A m \in pass[c].batch : ~NeedsBody(m)
    /\ pass' = [pass EXCEPT ![c].step = "write",
                            ![c].held = [id \in IdsOf(pass[c].batch) |-> Held(d1[id])]]
    /\ UNCHANGED <<work, mail, d1, queue, posts, calls, hops, legacy, lists>>

\* Of the messages naming one id, the batch's own: the highest version, any of
\* equals (the code takes the earliest; a batch comes in any order).
Bests(batch) ==
    {best \in [IdsOf(batch) -> batch] :
        \A id \in IdsOf(batch) :
            best[id].id = id /\ \A m \in batch : m.id = id => m.version <= best[id].version}

\* Faulty: a version one newer than D1's is a repeat.
VerdictOneOff(m, best, held) ==
    LET owner == IF held[m.id] = NotHeld THEN best[m.id].hub ELSE held[m.id].recipient IN
    CASE m.hub # owner -> "collision"
      [] m.hub = owner /\ best[m.id] # m -> "superseded"
      [] m.hub = owner /\ best[m.id] = m /\ held[m.id].version + 1 >= m.version
            /\ held[m.id] # NotHeld -> "repeat"
      [] OTHER -> "apply"

\* archive::plan
Verdict(m, best, held) ==
    LET owner == IF held[m.id] = NotHeld THEN best[m.id].hub ELSE held[m.id].recipient IN
    CASE m.hub # owner -> "collision"
      [] m.hub = owner /\ best[m.id] # m -> "superseded"
      [] m.hub = owner /\ best[m.id] = m /\ held[m.id].version >= m.version -> "repeat"
      [] OTHER -> "apply"

\* One D1 batch() of the applied messages: the guard of the upsert decides
\* again, on the row D1 holds by then.
Written(best, held) ==
    [id \in Ids |-> IF id \in DOMAIN best /\ Verdict(best[id], best, held) = "apply"
                    THEN Upsert(d1[id], best[id]) ELSE d1[id]]

\* done_by_recipient
DonesFor(r, batch, best, held) ==
    {[id |-> m.id, version |-> m.version, collision |-> Verdict(m, best, held) = "collision"] :
        m \in {x \in batch : x.hub = r}}

\* Written: every message acknowledged to the queue (which may hand one again,
\* at least once) and each recipient's hub told.
Write(c) ==
    LET batch == pass[c].batch
        held  == pass[c].held IN
    /\ pass[c].step = "write"
    /\ \E best \in Bests(batch), again \in SUBSET Raws(batch) :
          /\ d1' = Written(best, held)
          /\ queue' = queue \ (Raws(batch) \ again)
          /\ posts' = posts \cup {[hub |-> r, done |-> DonesFor(r, batch, best, held)] :
                                    r \in {m.hub : m \in batch}}
    /\ pass' = [pass EXCEPT ![c] = Idle]
    /\ UNCHANGED <<work, mail, calls, hops, legacy, lists>>

\* D1 fails the read or the write, or the invocation dies: every message of
\* the pass is retried, and a write reported failed may have landed.
PassFails(c) ==
    LET batch == pass[c].batch
        held  == pass[c].held IN
    /\ \/ pass[c].step \in {"bodies", "write"} /\ d1' = d1
       \/ pass[c].step = "write" /\ \E best \in Bests(batch) : d1' = Written(best, held)
    /\ Retry(Raws(batch))
    /\ pass' = [pass EXCEPT ![c] = Idle]
    /\ UNCHANGED <<work, mail, posts, calls, hops, legacy, lists>>

\* Faulty: a confirmed row is deleted whatever became of it since.
TellDeletes(p) ==
    /\ p \in posts
    /\ mail' = [mail EXCEPT ![p.hub].rows =
                    [id \in Ids |-> IF \E d \in p.done : d.id = id THEN NoRow ELSE @[id]]]
    /\ posts' = posts \ {p}
    /\ UNCHANGED <<work, d1, queue, pass, calls, hops, legacy, lists>>

\* tell_hub, delivered (late perhaps) or lost: nothing repeats it.
Tell(p) ==
    /\ p \in posts
    /\ mail' = [mail EXCEPT ![p.hub] = ArchiveDone(@, p.done)]
    /\ posts' = posts \ {p}
    /\ UNCHANGED <<work, d1, queue, pass, calls, hops, legacy, lists>>

TellLost(p) ==
    /\ p \in posts
    /\ posts' = posts \ {p}
    /\ UNCHANGED <<work, mail, d1, queue, pass, calls, hops, legacy, lists>>

Age(r, id) ==
    /\ id \in HeldIds(mail[r]) /\ mail[r].rows[id].owed /\ ~mail[r].rows[id].due
    /\ mail' = [mail EXCEPT ![r] = AgeRow(@, id)]
    /\ UNCHANGED <<work, d1, queue, pass, posts, calls, hops, legacy, lists>>

-----------------------------------------------------------------------------

Init ==
    /\ work \in Workloads
    /\ mail = [r \in Hubs |-> EmptyMailbox]
    /\ d1 = [id \in Ids |-> NoCopy]
    /\ queue = {}
    /\ pass = [c \in Consumers |-> Idle]
    /\ posts = {}
    /\ calls = [c \in Calls |-> "new"]
    /\ hops = {}
    /\ legacy = {}
    /\ lists = [l \in Lists |-> [step |-> "new", rows |-> {}, d1 |-> {}]]

Next ==
    \/ \E c \in Calls : Post(c) \/ HopFails(c)
    \/ \E hop \in hops : HandleInsert(hop) \/ HandleAck(hop)
    \/ \E l \in legacy : LegacyLook(l) \/ LegacyWrite(l) \/ LegacyFails(l)
    \/ \E s \in Sends : StorePaid(s)
    \/ \E l \in Lists : ListHub(l) \/ ListD1(l) \/ ListMerge(l)
    \/ \E c \in Consumers : Take(c) \/ ReadHeld(c) \/ Write(c) \/ PassFails(c)
    \/ \E c \in Consumers, r \in Hubs : ReadBodies(c, r) \/ BodiesFail(c, r)
    \/ \E p \in posts : Tell(p) \/ TellLost(p)
    \/ \E r \in Hubs, id \in Ids : Age(r, id)

Spec == Init /\ [][Next]_vars

\* A replay of something that reaches the queue.
Replayed(r) ==
    LET due == DueIds(mail[r]) IN due # {} /\ MessagesOf(r, mail[r], due) \subseteq queue'

\* The recipient keeps listing, time passes, and nothing fails for ever: a
\* listing's replay reaches the queue, the queue hands over what it holds, the
\* consumer gets through a pass, the hub hears of each version.
Fairness ==
    /\ \A l \in Lists :
          /\ WF_vars(ListHub(l)) /\ WF_vars(ListD1(l)) /\ WF_vars(ListMerge(l))
          /\ SF_vars(ListHub(l) /\ Replayed(l.hub))
    /\ \A r \in Hubs, id \in Ids : WF_vars(Age(r, id))
    /\ \A c \in Consumers :
          /\ SF_vars(Take(c) /\ pass'[c].batch = queue)
          /\ SF_vars(\E r \in Hubs : ReadBodies(c, r))
          /\ SF_vars(ReadHeld(c)) /\ SF_vars(Write(c))
    /\ \A v \in Versions : SF_vars(\E p \in posts : (\E d \in p.done : d.version = v) /\ Tell(p))

FairSpec == Spec /\ Fairness

-----------------------------------------------------------------------------
(* Properties *)

CallSteps == {"new", "first", "retry", "stored", "duplicate", "full", "answered", "failed"}

\* What a pass read of D1: per id, who holds it and at which version.
Helds == UNION {[S -> [recipient : Hubs, version : 0 .. 2] \cup {NotHeld}] : S \in SUBSET Ids}

Pass == [step : {"idle", "bodies", "write"}, batch : SUBSET ArchiveMessage, held : Helds]

LegacyAck == [hop : [call : Acks, retry : BOOLEAN], step : {"look", "write"}, ids : SUBSET Ids]

Listing == [step : {"new", "d1", "merge", "answered"}, rows : SUBSET Entry, d1 : SUBSET Entry]

\* Every piece of state has its type: the hubs' rows, D1's rows, the messages
\* in flight and in a consumer's pass, the confirmations posted.
TypeOK ==
    /\ work \in Workloads
    /\ mail \in [Hubs -> MailboxState]
    /\ d1 \in [Ids -> Copy \cup {NoCopy}]
    /\ queue \subseteq ArchiveMessage
    /\ pass \in [Consumers -> Pass]
    /\ \A c \in Consumers : pass[c].step = "write" => DOMAIN pass[c].held = IdsOf(pass[c].batch)
    /\ posts \subseteq [hub : Hubs, done : SUBSET Done]
    /\ calls \in [Calls -> CallSteps]
    /\ hops \subseteq Hop
    /\ legacy \subseteq LegacyAck
    /\ lists \in [Lists -> Listing]

\* No step of the relay drives a hub's mailbox in a way the abstract Mailbox
\* does not allow, so all that holds of Mailbox holds of every hub here.
Hub(r) == INSTANCE Mailbox WITH mb <- mail[r]
HubsAreMailboxes ==
    /\ \A r \in Hubs : Hub(r)!Init
    /\ [][\A r \in Hubs : Hub(r)!Next \/ mail'[r] = mail[r]]_vars

\* The queue's at-least-once, reordered delivery never moves a D1 row
\* backwards: not to another recipient, an older version, out of
\* acknowledged_at, or from a body to none (ARCHIVE_UPSERT_SQL).
ArchiveMovesForward ==
    [][\A id \in Ids :
          d1[id].state # "none" /\ d1'[id].state # "none" =>
              /\ d1'[id].recipient = d1[id].recipient
              /\ d1'[id].version >= d1[id].version
              /\ d1[id].state = "acknowledged" => d1'[id].state = "acknowledged"
              /\ d1[id].body # NoBody => d1'[id].body # NoBody]_vars

\* A message under this id may be deleted from D1: by its acknowledgment, where
\* its box is not retained, or with its transcript.
Deletable(id) ==
    work.ends # {} \/ \E s \in Sends \cap work.calls : s.id = id /\ BoxOf[s.origin] \notin RetainedBoxes

\* A recipient may acknowledge the id.
AckAsked(id, r) == \E a \in Acks \cap work.calls : a.hub = r /\ id \in a.ids

\* The id goes to two recipients, and archive_batch's verdicts are no longer
\* what D1 holds.  Something else may take the id in D1 between a pass's held
\* read and its write, another pass or a send of the D1 path: the hubs are told
\* by the plan made from that read, not by what the guarded upsert did.  Or one
\* batch carries both recipients' acknowledgments: plan's best is per id and
\* not per recipient, so the message of the recipient D1 holds can be
\* "superseded" by the other's, which is a collision and not written.  Either
\* way a hub can be told "archived" of what D1 does not hold.
Contested(id) ==
    \E s, t \in Sends \cap work.calls :
        /\ s.id = id /\ t.id = id /\ s.hub # t.hub
        /\ \/ s.paid \/ \E c, d \in work.consumers : c # d
           \/ AckAsked(id, s.hub) /\ AckAsked(id, t.hub)

\* What a hub is told of its archive is so: D1 holds the row for this hub at
\* the confirmed version or a newer one, or for another (struct Done), unless
\* an acknowledgment deleted it since, or the id was contested.
DoneIsSo ==
    \A p \in posts : \A d \in p.done :
        \/ Deletable(d.id) \/ Contested(d.id)
        \/ /\ d1[d.id].state # "none"
           /\ IF d.collision THEN d1[d.id].recipient # p.hub
              ELSE d1[d.id].recipient = p.hub /\ d1[d.id].version >= d.version

\* A listing never sees a copy whose hub let go of the row: while D1 holds an
\* archived copy unacknowledged, the hub it belongs to still holds the id, so
\* the merge can drop the copy.  Of the retained boxes, where no acknowledgment
\* deletes the copy and with it the version the upsert's guard compares, and where no hub was
\* wrongly told (Contested).
RetainedCopyIsHeld ==
    \A id \in Ids :
        d1[id].state = "live" /\ d1[id].version > 0 /\ ~Deletable(id) /\ ~Contested(id) =>
            id \in HeldIds(mail[d1[id].recipient])

\* The id names one text in its hub ("a message id's body never changes",
\* body_from_hub); nothing enforces it once the hub let go of the first row.
OneText(s) ==
    \A t \in Sends \cap work.calls :
        t.hub = s.hub /\ t.id = s.id => t.origin = s.origin /\ t.body = s.body

SentElsewhere(s) == \E t \in Sends \cap work.calls : t.id = s.id /\ t.hub # s.hub

\* The recipient asked its hub to acknowledge the id.
AckMade(id, r) == \E a \in Acks : a.hub = r /\ id \in a.ids /\ calls[a] # "new"

\* A stored message is never lost: its text is in the hub, or in D1 for its
\* recipient.  Only once its recipient acknowledged it may it be in neither,
\* and then its box is not retained or its id went to another recipient too
\* (archive.collision); or once it is not live and its transcript was ended.
StoredIsKept ==
    \A s \in Sends :
        calls[s] = "stored" /\ OneText(s) =>
            LET row  == mail[s.hub].rows[s.id]
                copy == d1[s.id]
            IN  \/ row.state # "none" /\ row.origin = s.origin /\ row.body = s.body
                \/ copy.state # "none" /\ copy.recipient = s.hub /\ copy.body = s.body
                \/ /\ row.state # "live" /\ AckMade(s.id, s.hub)
                   /\ BoxOf[s.origin] \notin RetainedBoxes \/ SentElsewhere(s)
                \/ row.state # "live" /\ work.ends # {}

\* A listing misses nothing and says nothing twice: a row of the box live in
\* the hub when the listing began and when it is answered is in the answer
\* with its body, so is a row D1 alone holds for the recipient, and no id is
\* there under two bodies (the three reads of handle_list are at three times).
LiveIsListed ==
    [][\A l \in Lists :
          lists[l].step = "merge" /\ lists'[l].step = "answered" =>
              /\ \A e \in lists[l].rows : e.id \in LiveIds(mail[l.hub]) => e \in lists'[l].rows
              /\ \A e \in lists[l].d1 :
                    e.id \in LiveInD1(l.hub) \ HeldIds(mail[l.hub]) => e \in lists'[l].rows
              /\ \A e, f \in lists'[l].rows : e.id = f.id => e = f]_vars

\* The archive catches up: whatever is lost, refused or repeated on the way, a
\* row the hub owes the archive is confirmed, or deleted, some time later (the
\* replay of E12 against lost queue messages, dropped retries and lost tells).
OwedIsConfirmed ==
    \A r \in Hubs, id \in Ids :
        (id \in HeldIds(mail[r]) /\ mail[r].rows[id].owed)
            ~> ~(id \in HeldIds(mail[r]) /\ mail[r].rows[id].owed)

=============================================================================
