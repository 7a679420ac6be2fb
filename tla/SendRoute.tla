------------------------------ MODULE SendRoute ------------------------------
(***************************************************************************)
(* POST /sendMessage and the WebSocket sendMessage (src/routes/            *)
(* send_message.rs): the fees, the sender's budget (src/send_budget.rs),   *)
(* the payment, then a row per recipient, in D1 or at the recipient's hub  *)
(* (MailboxSendStore of src/message_hub_sql.rs), and after the answer a    *)
(* push per stored row.  Requests interleave at every await.  A write D1   *)
(* or a hop gives up on may land later.                                    *)
(*                                                                         *)
(* What a settled payment's object is owed is PaymentObject's, what a      *)
(* mailbox does with a row MailboxRows': here a settlement is a verdict    *)
(* and a mailbox its rows and its bound.                                   *)
(***************************************************************************)
EXTENDS Permissions

CONSTANTS
    Capacity,   \* the rows a hub's mailbox holds
    Window,     \* window_secs of the send budget
    Budget      \* sends and bytes of one window

ASSUME SendBounds ==
    /\ Window \in Nat \ {0}
    /\ Budget \in [sends : Nat, bytes : Nat]

\* validate_send_message: a send names at least one recipient.
ASSUME SendWorks ==
    \A w \in Works :
        /\ w.ticks \in Nat /\ w.resends \in Nat
        /\ \A q \in DOMAIN w.sends :
               LET to == w.sends[q].to
               IN  /\ w.sends[q].from \in Senders
                   /\ Len(to) \in Nat \ {0} /\ DOMAIN to = 1 .. Len(to)
                   /\ \A n \in DOMAIN to : to[n].who \in Recipients

HopAttempts == 2

VARIABLES
    req,        \* per request of work.sends: how far it is
    asks,       \* context handlers of the hubs that await D1
    rows,       \* the messages table
    held,       \* the mailbox rows of each recipient's hub
    boxes,      \* recipients whose box D1 knows
    late,       \* inserts given up on, which may still land
    spent,      \* send_budget: per sender and window
    owed,       \* pushes owed after the answer
    admitted,   \* history: sends and bytes let through by an answered charge, in an open window
    stored,     \* history: every row ever stored
    pushed      \* history: rows pushed to a recipient's sockets

sendVars == <<req, asks, rows, held, boxes, late, spent, owed, admitted, stored, pushed>>
vars == <<work, permVars, now, sendVars>>

-----------------------------------------------------------------------------
Requests == DOMAIN work.sends
Nothing == [sends |-> 0, bytes |-> 0]
Fresh(again) == [pc |-> "new", n |-> 1, fees |-> <<>>, boxed |-> <<>>, window |-> 0,
                 tries |-> 0, again |-> again]

Send(q) == work.sends[q]
From(q) == Send(q).from
To(q) == Send(q).to[req[q].n]
IsLast(q) == req[q].n = Len(Send(q).to)
At(q, pc) == req[q].pc = pc

Answered == {"invalid", "off", "blocked", "overBudget", "unpaid", "refused", "duplicate",
             "full", "unavailable", "success"}
Answer(q, a) == req' = [req EXCEPT ![q].pc = a]

WindowOf(t) == t - (t % Window)

FeesOf(q) == {req[q].fees[n].fee : n \in DOMAIN req[q].fees}
RequiresPayment(q) == work.delivery > 0 \/ \E fee \in FeesOf(q) : fee > 0

\* A recipient owed a fee gets outputs of the payment.  Its row names the object
\* at rest: the sender's own (beefR2Key), or the spool of an inline payment the
\* delivery fee had judged.  An inline payment nobody judged stays in the row.
NamesObject(q) ==
    /\ req[q].fees[req[q].n].fee > 0
    /\ work.delivery > 0 \/ Send(q).pays = "named"

\* route_outputs_to_recipients: an output tagged with a recipient is that
\* recipient's; the recipients with none take the outputs whose index no tagged
\* one has, in order.  Output 0 is the server's where a delivery fee is due.
Outputs(q) == IF work.delivery > 0 THEN Tail(Send(q).outputs) ELSE Send(q).outputs
OwedFee(q) == {n \in DOMAIN req[q].fees : req[q].fees[n].fee > 0}
Tagged(q, n) == {i \in DOMAIN Outputs(q) : Outputs(q)[i].tag = Send(q).to[n].who}
Untagged(q) == {n \in OwedFee(q) : Tagged(q, n) = {}}
Remaining(q) ==
    LET outs == Outputs(q)
        used == {outs[i].index : i \in {k \in DOMAIN outs : outs[k].tag # None}}
    IN  {i \in DOMAIN outs : outs[i].index = None \/ outs[i].index \notin used}
NthOf(S, n) == CHOOSE x \in S : Cardinality({y \in S : y <= x}) = n
OutputsFor(q, n) ==
    IF Tagged(q, n) # {} THEN Tagged(q, n)
    ELSE {NthOf(Remaining(q), Cardinality({k \in Untagged(q) : k <= n}))}

\* Refused otherwise, before anything is put at rest.
IsCovered(q) ==
    /\ work.delivery > 0 => Send(q).outputs # <<>>
    /\ Cardinality(Untagged(q)) <= Cardinality(Remaining(q))

\* Under HUB_STORE=sql only a row that names an object is D1's.
InD1(q) == ~Sql \/ NamesObject(q)

\* The row of the recipient at hand.  The spool's key is the payment's own
\* digest: the same request again names the same object.
Row(q) == [id |-> To(q).id, to |-> To(q).who, from |-> From(q), text |-> Send(q).text,
           named |-> NamesObject(q),
           outputs |-> IF req[q].n \in OwedFee(q) THEN OutputsFor(q, req[q].n) ELSE {}]

\* outcome_to_outbound: a live sender is acknowledged for a duplicate too.
IsAcked(q) == Send(q).live /\ req[q].pc \in {"success", "duplicate"}

-----------------------------------------------------------------------------
(* The context *)

\* process_send: the box switch, before anything is read.
ProcessSend(q) == Answer(q, IF work.off THEN "off" ELSE "context")

\* handle_send_body, and its validation.
SendArrives(q) ==
    /\ At(q, "new") /\ ~Send(q).live
    /\ IF Send(q).valid THEN ProcessSend(q) ELSE Answer(q, "invalid")
    /\ UNCHANGED <<work, permVars, now, asks, rows, held, boxes, late, spent, owed,
                   admitted, stored, pushed>>

\* A frame on the sender's socket, to one recipient: validate_ws_send.
LiveSendArrives(q) ==
    /\ At(q, "new") /\ Send(q).live
    /\ IF Send(q).valid THEN ProcessSend(q) ELSE Answer(q, "invalid")
    /\ UNCHANGED <<work, permVars, now, asks, rows, held, boxes, late, spent, owed,
                   admitted, stored, pushed>>

\* A recipient's context is known: a blocked recipient ends the send once all
\* were asked, otherwise the budget's window is taken.
Context(q, fee) ==
    LET fees == Append(req[q].fees, [fee |-> fee, at |-> now])
        blocked == \E n \in DOMAIN fees : fees[n].fee < 0
        boxed == Append(req[q].boxed, To(q).who \in boxes)
    IN  req' = [req EXCEPT ![q] =
            IF ~IsLast(q)
            THEN [@ EXCEPT !.fees = fees, !.boxed = boxed, !.n = req[q].n + 1, !.tries = 0,
                           !.pc = "context"]
            ELSE [@ EXCEPT !.fees = fees, !.boxed = boxed, !.n = 1, !.tries = 0,
                           !.window = WindowOf(now),
                           !.pc = IF blocked THEN "blocked" ELSE "charge"]]

\* read_send_context of the D1 store: one batch.
ReadContext(q) ==
    /\ At(q, "context") /\ ~Sql
    /\ Context(q, FeeIn(perms, To(q).who, From(q)))
    /\ UNCHANGED <<work, permVars, now, asks, rows, held, boxes, late, spent, owed,
                   admitted, stored, pushed>>

\* Its three attempts fail.
ContextFails(q) ==
    /\ At(q, "context") /\ ~Sql /\ Can("stall")
    /\ Answer(q, "unavailable")
    /\ UNCHANGED <<work, permVars, now, asks, rows, held, boxes, late, spent, owed,
                   admitted, stored, pushed>>

Ask(q) == [q |-> q, again |-> req[q].again, n |-> req[q].n, try |-> req[q].tries]
IsAttached(a) == At(a.of.q, "asked") /\ a.of = Ask(a.of.q)

\* handle_context at the recipient's hub: a fresh copy answers, else D1 is
\* asked and the time before is kept.
AskHub(q) ==
    /\ At(q, "context") /\ Sql
    /\ IF CopyIsFresh(To(q).who, From(q))
       THEN /\ Context(q, copy[To(q).who][From(q)].fee)
            /\ UNCHANGED asks
       ELSE /\ Answer(q, "asked")
            /\ asks' = asks \cup {[of |-> Ask(q), to |-> To(q).who, from |-> From(q),
                                   stamp |-> now, fee |-> None]}
    /\ UNCHANGED <<work, permVars, now, rows, held, boxes, late, spent, owed,
                   admitted, stored, pushed>>

HubReads(a) ==
    /\ a.fee = None
    /\ asks' = (asks \ {a}) \cup {[a EXCEPT !.fee = FeeIn(perms, a.to, a.from)]}
    /\ UNCHANGED <<work, permVars, now, req, rows, held, boxes, late, spent, owed,
                   admitted, stored, pushed>>

\* The answer is kept and given, if the caller still waits.
HubKeeps(a) ==
    /\ a.fee # None
    /\ Keep(a.to, a.from, a.fee, a.stamp)
    /\ asks' = asks \ {a}
    /\ IF IsAttached(a) THEN Context(a.of.q, a.fee) ELSE UNCHANGED req
    /\ UNCHANGED <<work, perms, setting, dropped, quotes, seen, now, rows, held, boxes, late,
                   spent, owed, admitted, stored, pushed>>

\* post_with_retry: a hop that fails or is given up on is made once more; the
\* hub's handler runs on.
Tried(q, bound, pc) ==
    req' = [req EXCEPT ![q].tries = @ + 1,
                       ![q].pc = IF req[q].tries + 1 = bound THEN "unavailable" ELSE pc]

ContextHopFails(q) ==
    /\ (At(q, "context") \/ At(q, "asked")) /\ Sql /\ Can("ask")
    /\ Tried(q, HopAttempts, "context")
    /\ UNCHANGED <<work, permVars, now, asks, rows, held, boxes, late, spent, owed,
                   admitted, stored, pushed>>

-----------------------------------------------------------------------------
(* The sender's budget, then the payment *)

\* Text no delivery fee judges: the message, and the payment in a free box.
Unjudged(q) ==
    1 + (IF Send(q).pays # "no" /\ work.delivery = 0 THEN 1 ELSE 0)

Charged(q) ==
    [spent EXCEPT ![From(q)][req[q].window] = [sends |-> @.sends + 1,
                                               bytes |-> @.bytes + Unjudged(q)]]

\* A window is spent when it holds more than its bounds after the charge.
IsSpent(window) == window.sends > Budget.sends \/ window.bytes > Budget.bytes

\* Past the budget: what the fees ask for.
AfterCharge(q) ==
    CASE ~RequiresPayment(q) -> "row"
      [] RequiresPayment(q) /\ Send(q).pays = "no" -> "unpaid"
      [] OTHER -> "settle"

\* charge: one upsert that returns what the window holds after.
Charge(q) ==
    /\ At(q, "charge")
    /\ spent' = Charged(q)
    /\ LET w == req[q].window
           refused == IsSpent(spent'[From(q)][w])
           counts == ~refused /\ w = WindowOf(now)
       IN  /\ Answer(q, IF refused THEN "overBudget" ELSE AfterCharge(q))
           /\ admitted' = IF ~counts THEN admitted
                          ELSE [admitted EXCEPT ![From(q)][w] =
                                    [sends |-> @.sends + 1, bytes |-> @.bytes + Unjudged(q)]]
    /\ UNCHANGED <<work, permVars, now, asks, rows, held, boxes, late, owed, stored, pushed>>

\* A store that cannot answer refuses nothing, whether the charge landed or not.
ChargeUnanswered(q) ==
    /\ At(q, "charge") /\ Can("charge")
    /\ spent' \in {spent, Charged(q)}
    /\ Answer(q, AfterCharge(q))
    /\ UNCHANGED <<work, permVars, now, asks, rows, held, boxes, late, owed, admitted,
                   stored, pushed>>

\* Faulty: the open window is forgotten too.
ForgetOpen ==
    /\ \E s \in Senders, w \in 0 .. now : w <= WindowOf(now) /\ spent[s][w] # Nothing
    /\ spent' = [s \in Senders |-> [w \in DOMAIN spent[s] |->
                     IF w <= WindowOf(now) THEN Nothing ELSE spent[s][w]]]
    /\ UNCHANGED <<work, permVars, now, req, asks, rows, held, boxes, late, owed, admitted,
                   stored, pushed>>

\* forget_closed of the scheduled event.
ForgetClosed ==
    /\ \E s \in Senders, w \in 0 .. now : w < WindowOf(now) /\ spent[s][w] # Nothing
    /\ spent' = [s \in Senders |-> [w \in DOMAIN spent[s] |->
                     IF w < WindowOf(now) THEN Nothing ELSE spent[s][w]]]
    /\ UNCHANGED <<work, permVars, now, req, asks, rows, held, boxes, late, owed, admitted,
                   stored, pushed>>

\* process_payment: settled, a refusal of its own, or a reading not finished.
Settle(q) ==
    /\ At(q, "settle")
    /\ \/ IsCovered(q) /\ Answer(q, "row")
       \/ Answer(q, "refused")
       \/ work.delivery > 0 /\ Can("stall") /\ Answer(q, "unavailable")
    /\ UNCHANGED <<work, permVars, now, asks, rows, held, boxes, late, spent, owed,
                   admitted, stored, pushed>>

-----------------------------------------------------------------------------
(* A row per recipient *)

\* The row at hand is durable: its push is owed, and the next recipient's turn.
Accepted(q) ==
    /\ req' = [req EXCEPT ![q] = IF IsLast(q) THEN [@ EXCEPT !.pc = "success"]
                                 ELSE [@ EXCEPT !.n = req[q].n + 1, !.tries = 0, !.pc = "row"]]
    /\ owed' = [owed EXCEPT ![q] = Append(@, Row(q))]

NeedsBox(q) == InD1(q) /\ ~req[q].boxed[req[q].n]

\* get_or_create_message_box: INSERT OR IGNORE, then the id is read.
CreateBox(q) ==
    /\ At(q, "row") /\ NeedsBox(q)
    /\ \/ /\ boxes' = boxes \cup {To(q).who}
          /\ req' = [req EXCEPT ![q].boxed[req[q].n] = TRUE]
       \/ /\ Can("stall")
          /\ boxes' \in {boxes, boxes \cup {To(q).who}}
          /\ Answer(q, "unavailable")
    /\ UNCHANGED <<work, permVars, now, asks, rows, held, late, spent, owed, admitted,
                   stored, pushed>>

IdIsFree(id) == \A row \in rows : row.id # id

\* Faulty: a retried insert that changed nothing is taken as stored.
VerdictUnseen(q, free) ==
    IF free \/ req[q].tries > 0 THEN "stored" ELSE "duplicate"

\* insert_count_verdict
Verdict(q, free) ==
    CASE free -> "stored"
      [] ~free /\ req[q].tries = 0 -> "duplicate"
      [] OTHER -> "readBack"

\* INSERT OR IGNORE on the message id.
Insert(q) ==
    /\ At(q, "row") /\ InD1(q) /\ ~NeedsBox(q)
    /\ LET free == IdIsFree(To(q).id)
           verdict == Verdict(q, free)
       IN  /\ rows' = IF free THEN rows \cup {Row(q)} ELSE rows
           /\ stored' = IF free THEN stored \cup {Row(q)} ELSE stored
           /\ IF verdict = "stored" THEN Accepted(q)
                                    ELSE Answer(q, verdict) /\ UNCHANGED owed
    /\ UNCHANGED <<work, permVars, now, asks, held, boxes, late, spent, admitted, pushed>>

\* retried_row_is_ours; a read that fails is an error.
ReadBack(q) ==
    /\ At(q, "readBack")
    /\ \/ Row(q) \in rows /\ Accepted(q)
       \/ Row(q) \notin rows /\ Answer(q, "duplicate") /\ UNCHANGED owed
       \/ Can("stall") /\ Answer(q, "unavailable") /\ UNCHANGED owed
    /\ UNCHANGED <<work, permVars, now, asks, rows, held, boxes, late, spent, admitted,
                   stored, pushed>>

\* with_d1_write_retry: an attempt past its bound is dropped and made again.
InsertStalls(q) ==
    /\ At(q, "row") /\ InD1(q) /\ ~NeedsBox(q) /\ Can("stall")
    /\ late' = late \cup {[row |-> Row(q), hub |-> FALSE]}
    /\ Tried(q, Attempts, "row")
    /\ UNCHANGED <<work, permVars, now, asks, rows, held, boxes, spent, owed, admitted,
                   stored, pushed>>

\* Mailbox insert: a held id is a duplicate unless a retry finds its own row.
HubInsert(q) ==
    /\ At(q, "row") /\ ~InD1(q)
    /\ LET mine == held[To(q).who]
           taken == \E row \in mine : row.id = To(q).id
           fits == ~taken /\ Cardinality(mine) < Capacity
       IN  /\ held' = IF fits THEN [held EXCEPT ![To(q).who] = @ \cup {Row(q)}] ELSE held
           /\ stored' = IF fits THEN stored \cup {Row(q)} ELSE stored
           /\ IF fits \/ (req[q].tries > 0 /\ Row(q) \in mine)
              THEN Accepted(q)
              ELSE Answer(q, IF taken THEN "duplicate" ELSE "full") /\ UNCHANGED owed
    /\ UNCHANGED <<work, permVars, now, asks, rows, boxes, late, spent, admitted, pushed>>

HubInsertHopFails(q) ==
    /\ At(q, "row") /\ ~InD1(q) /\ Can("hop")
    /\ late' = late \cup {[row |-> Row(q), hub |-> TRUE]}
    /\ Tried(q, HopAttempts, "row")
    /\ UNCHANGED <<work, permVars, now, asks, rows, held, boxes, spent, owed, admitted,
                   stored, pushed>>

\* A dropped insert lands: the same statement, with nobody to hear of it.
LateLands(x) ==
    LET mine == held[x.row.to]
        free == IF x.hub THEN /\ \A row \in mine : row.id # x.row.id
                              /\ Cardinality(mine) < Capacity
                         ELSE IdIsFree(x.row.id)
    IN  /\ late' = late \ {x}
        /\ rows' = IF free /\ ~x.hub THEN rows \cup {x.row} ELSE rows
        /\ held' = IF free /\ x.hub THEN [held EXCEPT ![x.row.to] = @ \cup {x.row}] ELSE held
        /\ stored' = IF free THEN stored \cup {x.row} ELSE stored
        /\ UNCHANGED <<work, permVars, now, req, asks, boxes, spent, owed, admitted, pushed>>

\* acknowledge_messages, or the hub's own: the recipient's rows by that id go.
Acknowledge(row) ==
    /\ work.acks
    /\ \/ rows' = rows \ {row} /\ row \in rows /\ UNCHANGED held
       \/ /\ row \in held[row.to]
          /\ held' = [held EXCEPT ![row.to] = @ \ {row}]
          /\ UNCHANGED rows
    /\ UNCHANGED <<work, permVars, now, req, asks, boxes, late, spent, owed, admitted,
                   stored, pushed>>

-----------------------------------------------------------------------------
(* After the answer *)

\* push_one: the recipient's hub fans the row out to its sockets.
PushOne(row) ==
    \/ pushed' = pushed \cup {row}
    \/ Can("push") /\ UNCHANGED pushed

\* answer_then_defer, emit_then_defer: the sender has its answer first.
IsEmitted(q) == req[q].pc \in Answered

\* fan_out: the pushes of one answer, a recipient's in the order stored; one
\* that fails is left to the next listing.
Push(q) ==
    /\ IsEmitted(q)
    /\ \E n \in DOMAIN owed[q] :
           /\ \A k \in 1 .. n - 1 : owed[q][k].to # owed[q][n].to
           /\ owed' = [owed EXCEPT ![q] = RemoveAt(@, n)]
           /\ PushOne(owed[q][n])
    /\ UNCHANGED <<work, permVars, now, req, asks, rows, held, boxes, late, spent,
                   admitted, stored>>

\* The client sends again what was answered 503.
Resend(q) ==
    /\ At(q, "unavailable") /\ req[q].again < work.resends /\ owed[q] = <<>>
    /\ req' = [req EXCEPT ![q] = Fresh(@.again + 1)]
    /\ UNCHANGED <<work, permVars, now, asks, rows, held, boxes, late, spent, owed,
                   admitted, stored, pushed>>

\* A tick is longer than a hop's bound: no caller waits on a hub through it.
Tick ==
    /\ now < work.ticks
    /\ \A a \in asks : ~IsAttached(a)
    /\ now' = now + 1
    /\ seen' = [seen EXCEPT ![now + 1] = Answers(perms)]
    /\ UNCHANGED <<work, perms, copy, setting, dropped, quotes, sendVars>>

-----------------------------------------------------------------------------
Init ==
    /\ PermissionInit
    /\ req = [q \in Requests |-> Fresh(0)]
    /\ asks = {} /\ rows = {} /\ boxes = {} /\ late = {}
    /\ held = [r \in Recipients |-> {}]
    /\ spent = [s \in Senders |-> [w \in 0 .. work.ticks |-> Nothing]]
    /\ owed = [q \in Requests |-> <<>>]
    /\ admitted = spent
    /\ stored = {} /\ pushed = {}

RequestStep(q) ==
    \/ SendArrives(q) \/ LiveSendArrives(q)
    \/ ReadContext(q) \/ ContextFails(q) \/ AskHub(q) \/ ContextHopFails(q)
    \/ Charge(q) \/ ChargeUnanswered(q) \/ Settle(q)
    \/ CreateBox(q) \/ Insert(q) \/ ReadBack(q) \/ InsertStalls(q)
    \/ HubInsert(q) \/ HubInsertHopFails(q)
    \/ Push(q) \/ Resend(q)

Next ==
    \/ \E q \in Requests : RequestStep(q)
    \/ \E a \in asks : HubReads(a)
    \/ \E a \in asks : HubKeeps(a)
    \/ ForgetClosed
    \/ \E x \in late : LateLands(x)
    \/ \E row \in stored : Acknowledge(row)
    \/ Tick
    \/ PermissionStep /\ UNCHANGED sendVars

Spec == Init /\ [][Next]_vars

-----------------------------------------------------------------------------
\* The shapes of every component's state.
TypeOK ==
    /\ PermissionTypeOK
    /\ \A q \in Requests :
           /\ req[q].pc \in Answered \cup {"new", "context", "asked", "charge", "settle",
                                           "row", "readBack"}
           /\ req[q].n \in DOMAIN Send(q).to
           /\ req[q].again \in 0 .. work.resends
    /\ rows \subseteq stored /\ pushed \subseteq stored
    /\ \A r \in Recipients : held[r] \subseteq stored

\* A send is answered success only when a row of its own sender, recipient and
\* text was stored under each of its ids, with an output of the payment for each
\* recipient owed a fee, whatever stalled, was made again or landed late beside
\* it (insert_message's verdict); a duplicate, which a live sender is
\* acknowledged for, met a row by that id.
AnsweredIsStored ==
    \A q \in Requests :
        /\ At(q, "success") =>
               \A n \in DOMAIN Send(q).to :
                   \E row \in stored :
                       /\ row.id = Send(q).to[n].id /\ row.to = Send(q).to[n].who
                       /\ row.from = From(q) /\ row.text = Send(q).text
                       /\ n \in OwedFee(q) => row.outputs # {}
        /\ At(q, "duplicate") \/ IsAcked(q) => \E row \in stored : row.id = To(q).id

\* A fee a send was judged by is one that D1 itself would have answered less
\* than the copy's TTL ago, however long the hub's own read of D1 took and
\* whether or not a change's forget arrived (handle_context, keep_permissions).
FeeIsRecent ==
    \A q \in Requests : \A n \in DOMAIN req[q].fees :
        LET used == req[q].fees[n]
        IN  \E t \in 0 .. used.at :
                /\ used.at - t < Ttl
                /\ <<Send(q).to[n].who, From(q), used.fee>> \in seen[t]

\* The sends of one identity let through by an answered charge while a window is
\* open never pass the window's bounds, with requests charging at once and closed
\* windows being forgotten beside them (charge, forget_closed).  A send whose
\* charge the store did not answer is let through unbounded ("a store that
\* cannot answer refuses nothing"), and is not among them.
BudgetBinds ==
    \A s \in Senders : \A w \in DOMAIN admitted[s] :
        /\ admitted[s][w].sends <= Budget.sends
        /\ admitted[s][w].bytes <= Budget.bytes
=============================================================================
