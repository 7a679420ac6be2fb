---------------------------- MODULE PaymentObject ----------------------------
(***************************************************************************)
(* Who may delete a payment's bytes.  One R2 key of the relay: the object  *)
(* at rest there, the rows, the deferred fee and the announcement owed     *)
(* that name it (D1), and the tables that remember to look at it again     *)
(* (beef_released, beef_minted, beef_reclaiming).  The processes are sends *)
(* that hand the payment off and store its row (src/handoff.rs hand_off,   *)
(* src/routes/send_message.rs, src/payments.rs) and scheduled events that  *)
(* drain and reclaim (run_fee_drain).  Every read or write of D1 and R2 is *)
(* an await, so each is a step of its own.                                 *)
(***************************************************************************)
EXTENDS Integers, FiniteSets

CONSTANTS
    Etags,      \* what the object may be
    SpoolEtag,  \* and the spool of the one inline payment: its key is the bytes' digest
    Gone,       \* no object
    Sends,      \* sends of the payment
    Crons,      \* scheduled events, which may overlap
    Settings,   \* what is paid how, and who acts
    Ceiling     \* FEE_ATTEMPTS_CEILING

Setting == [spooled : BOOLEAN,      \* the relay's spool of an inline payment, not an upload
            uploads : SUBSET Etags, \* what the sender may PUT
            fee     : SUBSET Sends, \* sends to a box that owes a delivery fee
            row     : SUBSET Sends, \* sends whose recipient is paid: the row carries the key
            crons   : SUBSET Crons,
            fail    : BOOLEAN]      \* D1 and R2 may fail a read or a write, until they recover

ASSUME GoneIsNoEtag == Gone \notin Etags
ASSUME SpoolIsOne == SpoolEtag \in Etags
ASSUME SettingsPay ==
    Settings \subseteq Setting /\ \A w \in Settings : w.spooled => w.row \subseteq w.fee
ASSUME CronsAreNoSends == Crons \cap Sends = {}
ASSUME CeilingPositive == Ceiling \in Nat \ {0}

Procs == Sends \cup Crons

VARIABLES
    setting,    \* chosen once
    object,     \* the etag at rest, or Gone
    early,      \* the minted record's deadline is to come: an upload's URL may
                \* still take a PUT
    rows,       \* per send: its row of messages
    fee,        \* fee_internalize at the key
    announce,   \* announce_owed at the key: the etag, or Gone
    claim,      \* beef_reclaiming holds the key, under five minutes
    released,   \* beef_released holds the key
    minted,     \* beef_minted holds the key
    failing,    \* D1 and R2 may fail a read or a write
    word,       \* the relay's word that wallet-infra cannot read its bucket
    me,         \* per process: its locals, and as history what named the key
                \* since its second look began
    over,       \* history: the etags whose fee was recorded or ended
    met         \* history: the etags whose deferral met another upload's fee

vars == <<setting, object, early, rows, fee, announce, claim, released, minted, word, me,
          failing, over, met>>

tables == <<rows, fee, announce, claim, released, minted, word>>
history == <<over, met>>
rest == <<failing, history>>

-----------------------------------------------------------------------------
Spooled  == setting.spooled
FeeSends == setting.fee
RowSends == setting.row

NoFee == [state |-> "none", etag |-> Gone, attempts |-> 0]

Local(at) == [at |-> at, then |-> "done", round |-> 1, looked |-> Gone, etag |-> Gone,
              told |-> "none", kept |-> FALSE, minter |-> FALSE, attempts |-> 0,
              since |-> {}]

Names ==
    {s \in Sends : rows[s] = "names"}
        \cup (IF fee.state = "owed" THEN {"fee"} ELSE {})
        \cup (IF announce # Gone THEN {"announce"} ELSE {})

At(p, step) == me[p].at = step
Goes(p, step) == me' = [me EXCEPT ![p].at = step]

\* A name written: younger than the second look of everyone who is there.
Named(m, x) ==
    [p \in Procs |-> IF m[p].round = 2 THEN [m[p] EXCEPT !.since = m[p].since \cup {x}] ELSE m[p]]

-----------------------------------------------------------------------------
(* reclaim: claim, look, stamp, look again, stamp again, delete, unclaim *)

\* The step that starts a reclaim; `then` is where its caller goes on.
Reclaiming(l, then) == [l EXCEPT !.at = "claim", !.then = then, !.round = 1]

\* Deleted, gone or still named: the caller goes on all the same.
Finished(l) == [l EXCEPT !.at = "unclaim", !.round = 1, !.looked = Gone, !.since = {}]

\* An error keeps the record a pass came from for a later one.  Faulty: the
\* record is forgotten all the same.
AfterErrorForgets(then) == then

AfterError(then) ==
    CASE then = "forgetMinted" -> "released"
      [] then = "forget" -> "idle"
      [] OTHER -> then

Claim(p) ==
    /\ At(p, "claim")
    /\ claim' = TRUE
    /\ Goes(p, "rows")
    /\ UNCHANGED <<setting, object, early, rows, fee, announce, released, minted, word, rest>>

\* named: a row, then a fee, then an announcement, each its own read.
Look(p) ==
    LET l    == me[p]
        next == CASE l.at = "rows" -> "fees"
                  [] l.at = "fees" -> "announces"
                  [] l.at = "announces" /\ l.round = 1 -> "stamp"
                  [] l.at = "announces" /\ l.round = 2 -> "restamp"
        seen == CASE l.at = "rows" -> \E s \in Sends : rows[s] = "names"
                  [] l.at = "fees" -> fee.state = "owed"
                  [] l.at = "announces" -> announce # Gone
    IN  /\ l.at \in {"rows", "fees", "announces"}
        /\ me' = [me EXCEPT ![p] = IF seen THEN Finished(l) ELSE [l EXCEPT !.at = next]]
        /\ UNCHANGED <<setting, object, early, tables, rest>>

\* Faulty: no second look.
StampOnce(p) ==
    /\ At(p, "stamp")
    /\ me' = [me EXCEPT ![p] = IF object = Gone THEN Finished(me[p])
                               ELSE [me[p] EXCEPT !.at = "restamp", !.round = 2,
                                                  !.looked = object]]
    /\ UNCHANGED <<setting, object, early, tables, rest>>

Stamp(p) ==
    /\ At(p, "stamp")
    /\ me' = [me EXCEPT ![p] = IF object = Gone THEN Finished(me[p])
                               ELSE [me[p] EXCEPT !.at = "rows", !.round = 2, !.looked = object]]
    /\ UNCHANGED <<setting, object, early, tables, rest>>

Restamp(p) ==
    /\ At(p, "restamp")
    /\ me' = [me EXCEPT ![p] = IF object # me[p].looked THEN Finished(me[p])
                               ELSE [me[p] EXCEPT !.at = "clear"]]
    /\ UNCHANGED <<setting, object, early, tables, rest>>

\* R2 deletes by key alone: whatever is there now.
Clear(p) ==
    /\ At(p, "clear")
    /\ object' = Gone
    /\ me' = [me EXCEPT ![p] = Finished(me[p])]
    /\ UNCHANGED <<setting, early, tables, rest>>

\* D1 or R2 fails a step, whose write may have landed: an error, and only a
\* claim known to be written is let go.
ReclaimFails(p) ==
    /\ failing
    /\ me[p].at \in {"claim", "rows", "fees", "announces", "stamp", "restamp", "clear"}
    /\ LET then == AfterError(me[p].then) IN
       me' = [me EXCEPT ![p] = IF At(p, "claim") THEN [me[p] EXCEPT !.at = then, !.then = "done"]
                               ELSE [Finished(me[p]) EXCEPT !.then = then]]
    /\ claim' \in {claim, claim \/ At(p, "claim")}
    /\ object' \in {object, IF At(p, "clear") THEN Gone ELSE object}
    /\ UNCHANGED <<setting, early, rows, fee, announce, released, minted, word, rest>>

\* Best effort; by key, whoever's claim it is.
Unclaim(p) ==
    /\ At(p, "unclaim")
    /\ claim' \in {FALSE, claim}
    /\ me' = [me EXCEPT ![p].at = me[p].then, ![p].then = "done"]
    /\ UNCHANGED <<setting, object, early, rows, fee, announce, released, minted, word, rest>>

Reclaim(p) ==
    Claim(p) \/ Look(p) \/ Stamp(p) \/ Restamp(p) \/ Clear(p) \/ ReclaimFails(p) \/ Unclaim(p)

\* A claim older than five minutes is no claim; no reclaim takes that long.
ClaimExpires ==
    /\ claim /\ \A p \in Procs : me[p].at \notin
          {"rows", "fees", "announces", "stamp", "restamp", "clear", "unclaim"}
    /\ claim' = FALSE
    /\ UNCHANGED <<setting, object, early, rows, fee, announce, released, minted, word, me, rest>>

-----------------------------------------------------------------------------
(* The object's writers *)

\* The sender PUTs to the presigned URL, again if it likes.
Upload(e) ==
    /\ ~Spooled /\ early /\ e \in setting.uploads /\ e # object
    /\ object' = e
    /\ UNCHANGED <<setting, early, tables, me, rest>>

\* No request lives for the day its own mint record waits.
InFlight(s) == me[s].at \notin {"new", "done", "failed"}

DeadlineComes ==
    /\ early /\ \A s \in Sends : InFlight(s) => ~me[s].minter
    /\ early' = FALSE
    /\ UNCHANGED <<setting, object, tables, me, rest>>

\* An inline payment's bytes: at its key already, or minted there and spooled.
Arrive(s) ==
    /\ At(s, "new") /\ s \in FeeSends \cup RowSends
    /\ Goes(s, IF ~Spooled THEN (IF s \in FeeSends THEN "door" ELSE "handoff")
               ELSE IF object = Gone THEN "mint" ELSE "door")
    /\ UNCHANGED <<setting, object, early, tables, rest>>

\* MINT_SQL: INSERT OR IGNORE, a key minted again keeps its first deadline.
Mint(s) ==
    /\ At(s, "mint")
    /\ minted' = TRUE
    /\ early' = (early \/ ~minted)
    /\ me' = [me EXCEPT ![s].at = "spool", ![s].minter = ~minted]
    /\ UNCHANGED <<setting, object, rows, fee, announce, claim, released, word, rest>>

\* inline_spool_key: the key is the bytes' hash, so the etag is always the same.
Spool(s) ==
    /\ At(s, "spool")
    /\ object' = SpoolEtag
    /\ Goes(s, "door")
    /\ UNCHANGED <<setting, early, tables, rest>>

-----------------------------------------------------------------------------
(* A send: the door, the hand-off, the row *)

\* Where a refused send goes: a refused inline payment's spool is reclaimed.
Refused(l) == IF Spooled THEN Reclaiming(l, "done") ELSE [l EXCEPT !.at = "done"]

\* The door reads the object and remembers its stamp; a refusal ends the spool,
\* a reading one request does not finish keeps it for the same request again.
Door(s) ==
    /\ At(s, "door")
    /\ \/ object # Gone /\ me' = [me EXCEPT ![s].at = "handoff", ![s].etag = object]
       \/ me' = [me EXCEPT ![s] = Refused(me[s])]
       \/ Goes(s, "done")
    /\ UNCHANGED <<setting, object, early, tables, rest>>

\* The bytes the door read and no others.  A spool gone meanwhile is put at a
\* key of its own, and the send is done with this one.
HandOff(s) ==
    /\ At(s, "handoff")
    /\ IF object = Gone \/ (s \in FeeSends /\ object # me[s].etag) THEN Goes(s, "done")
       ELSE me' = [me EXCEPT ![s].at = IF s \in FeeSends THEN "announcing" ELSE "insert",
                             ![s].etag = object, ![s].kept = s \in RowSends]
    /\ UNCHANGED <<setting, object, early, tables, rest>>

\* Taken, or no broadcaster named; or not taken, and owed.  INSERT OR IGNORE.
AnnounceTaken(s) ==
    /\ At(s, "announcing")
    /\ Goes(s, "internalize")
    /\ UNCHANGED <<setting, object, early, tables, rest>>

OweAnnounce(s) ==
    /\ At(s, "announcing")
    /\ announce' = IF announce = Gone THEN me[s].etag ELSE announce
    /\ me' = Named([me EXCEPT ![s].at = "internalize", ![s].kept = TRUE], "announce")
    /\ UNCHANGED <<setting, object, early, rows, fee, claim, released, minted, word, rest>>

\* After the fee: a spool nothing will name goes before the row is written.
AfterFee(l, told) ==
    LET kept == l.kept \/ told = "deferred"
        on   == [l EXCEPT !.told = told, !.kept = kept, !.at = "insert"]
    IN  IF Spooled /\ ~kept THEN Reclaiming(on, "insert") ELSE on

\* wallet-infra records it, refuses it, or cannot answer (or the BEEF is large).
Internalize(s) ==
    /\ At(s, "internalize")
    /\ \/ me' = [me EXCEPT ![s] = AfterFee(me[s], "recorded")]
       \/ me' = [me EXCEPT ![s] = Refused(me[s])]
       \/ Goes(s, "defer")
    /\ UNCHANGED <<setting, object, early, tables, rest>>

\* Faulty: a deferral the ledger did not take counts as taken.
DeferUnwritten(s) ==
    /\ At(s, "defer")
    /\ Goes(s, "word")
    /\ UNCHANGED <<setting, object, early, tables, rest>>

\* DEFER_FEE_SQL: INSERT OR IGNORE on the key, whichever upload its row is of.
Defer(s) ==
    /\ At(s, "defer")
    /\ fee' = IF fee = NoFee THEN [state |-> "owed", etag |-> me[s].etag, attempts |-> 0] ELSE fee
    /\ met' = IF fee = NoFee \/ fee.etag = me[s].etag THEN met ELSE met \cup {me[s].etag}
    /\ me' = Named([me EXCEPT ![s].at = "word"], "fee")
    /\ UNCHANGED <<setting, object, early, rows, announce, claim, released, minted, word, failing,
                   over>>

\* While the word stands (and can be read) the fee just deferred ends.
ReadWord(s) ==
    /\ At(s, "word")
    /\ \/ word /\ Goes(s, "endFee")
       \/ (~word \/ failing) /\ me' = [me EXCEPT ![s] = AfterFee(me[s], "deferred")]
    /\ UNCHANGED <<setting, object, early, tables, rest>>

\* END_FEE_SQL, by key
Ended == IF fee.state = "none" THEN fee ELSE [fee EXCEPT !.state = "ended"]

EndFee(s) ==
    /\ At(s, "endFee")
    /\ fee' = Ended
    /\ over' = over \cup ({fee.etag} \ {Gone}) /\ met' = met
    /\ me' = [me EXCEPT ![s] = AfterFee(me[s], "ended")]
    /\ UNCHANGED <<setting, object, early, rows, announce, claim, released, minted, word, failing>>

\* The store or the ledger fails the hand-off, which answers 503; a write that
\* failed and landed is a failure one step later.
HandOffFails(s) ==
    /\ failing
    /\ me[s].at \in {"mint", "spool", "door", "handoff", "announcing", "internalize", "defer",
                     "word", "endFee"}
    /\ Goes(s, "done")
    /\ UNCHANGED <<setting, object, early, tables, rest>>

\* The row, naming the key when the recipient is paid through it.
InsertMessage(s) ==
    /\ At(s, "insert")
    /\ rows' = [rows EXCEPT ![s] = IF s \in RowSends THEN "names" ELSE rows[s]]
    /\ me' = Named([me EXCEPT ![s].at = IF me[s].kept THEN "claimed" ELSE "forget"], s)
    /\ UNCHANGED <<setting, object, early, fee, announce, claim, released, minted, word, rest>>

\* A duplicate, a full mailbox or an error, of a write that may have landed:
\* the relay's own spool goes, a sender's upload stays.
InsertFails(s) ==
    /\ At(s, "insert")
    /\ \/ UNCHANGED rows
       \/ failing /\ s \in RowSends /\ rows' = [rows EXCEPT ![s] = "names"]
    /\ LET l     == me[s]
           after == [me EXCEPT ![s] = IF l.told # "deferred" /\ Spooled /\ l.kept
                                      THEN Reclaiming(l, "failed") ELSE [l EXCEPT !.at = "failed"]]
       IN  me' = IF rows' = rows THEN after ELSE Named(after, s)
    /\ UNCHANGED <<setting, object, early, fee, announce, claim, released, minted, word, rest>>

\* orphaned: a claim read after the row, then the object
ReadClaim(s) ==
    /\ At(s, "claimed")
    /\ Goes(s, IF claim THEN "bytes" ELSE "forget")
    /\ UNCHANGED <<setting, object, early, tables, rest>>

ReadBytes(s) ==
    /\ At(s, "bytes")
    /\ Goes(s, "forget")
    /\ UNCHANGED <<setting, object, early, tables, rest>>

OrphanReadFails(s) ==
    /\ failing
    /\ me[s].at \in {"claimed", "bytes"}
    /\ Goes(s, "forget")
    /\ UNCHANGED <<setting, object, early, tables, rest>>

\* forget_unnamed: what this send left nothing naming is reclaimed.
ForgetUnnamed(s) ==
    /\ At(s, "forget")
    /\ LET l == me[s] IN
       me' = [me EXCEPT ![s] = IF s \in RowSends \/ l.told = "deferred" \/ (Spooled /\ ~l.kept)
                               THEN [l EXCEPT !.at = "done"] ELSE Reclaiming(l, "done")]
    /\ UNCHANGED <<setting, object, early, tables, rest>>

SendStep(s) ==
    \/ Arrive(s) \/ Mint(s) \/ Spool(s) \/ Door(s) \/ HandOff(s)
    \/ AnnounceTaken(s) \/ OweAnnounce(s) \/ Internalize(s) \/ Defer(s) \/ ReadWord(s)
    \/ EndFee(s) \/ HandOffFails(s) \/ InsertMessage(s) \/ InsertFails(s)
    \/ ReadClaim(s) \/ ReadBytes(s) \/ OrphanReadFails(s) \/ ForgetUnnamed(s)

\* The row is deleted or retired: the triggers of migration 0004.
LetGo(s) ==
    /\ rows[s] = "names"
    /\ rows' = [rows EXCEPT ![s] = "gone"]
    /\ released' = TRUE
    /\ UNCHANGED <<setting, object, early, fee, announce, claim, minted, word, me, rest>>

-----------------------------------------------------------------------------
(* The scheduled event: reask_announces, drain_fees, reclaim_minted,       *)
(* reclaim_released, in this order                                         *)

Wake(c) ==
    /\ At(c, "idle") /\ c \in setting.crons
    /\ Goes(c, "reask")
    /\ UNCHANGED <<setting, object, early, tables, rest>>

Passes == [reask        |-> {"reask", "announceDue", "announced"},
           drain        |-> {"drain", "due", "ask", "settle", "putOff", "setWord", "ends",
                             "clearWord"},
           minted       |-> {"minted", "forgetMinted"},
           released     |-> {"released", "forget"}]

PassSteps == Passes.reask \cup Passes.drain \cup Passes.minted \cup Passes.released

\* The pass is over, the next begins.
NextPass(l) ==
    CASE l.at \in Passes.reask -> Local("drain")
      [] l.at \in Passes.drain -> Local("minted")
      [] l.at \in Passes.minted -> Local("released")
      [] l.at \in Passes.released -> Local("idle")

NothingDue(c) ==
    /\ \/ At(c, "reask") /\ announce = Gone
       \/ At(c, "drain") /\ fee.state # "owed"
       \/ At(c, "minted") /\ ~(minted /\ ~early)
       \/ At(c, "released") /\ ~released
    /\ me' = [me EXCEPT ![c] = NextPass(me[c])]
    /\ UNCHANGED <<setting, object, early, tables, rest>>

\* A next_at not yet come, or a reading pending at the door: left for later.
NotYet(c) ==
    /\ \/ At(c, "reask") /\ announce # Gone
       \/ At(c, "drain") /\ fee.state = "owed"
       \/ At(c, "minted") /\ minted /\ ~early
    /\ me' = [me EXCEPT ![c] = NextPass(me[c])]
    /\ UNCHANGED <<setting, object, early, tables, rest>>

\* A ledger that fails ends its pass (`?`).
PassFails(c) ==
    /\ failing
    /\ me[c].at \in PassSteps
    /\ me' = [me EXCEPT ![c] = NextPass(me[c])]
    /\ UNCHANGED <<setting, object, early, tables, rest>>

\* An announcement due: its bytes held to the etag the door verified ...
AnnounceDue(c) ==
    /\ At(c, "reask") /\ announce # Gone
    /\ me' = [me EXCEPT ![c].at = "announceDue", ![c].etag = announce]
    /\ UNCHANGED <<setting, object, early, tables, rest>>

\* ... and asked again: taken, its row goes; anything else is put off, without
\* a ceiling.
Reask(c) ==
    /\ At(c, "announceDue")
    /\ Goes(c, IF object = me[c].etag THEN "announced" ELSE "drain")
    /\ UNCHANGED <<setting, object, early, tables, rest>>

Announced(c) ==
    /\ At(c, "announced")
    /\ announce' = Gone
    /\ me' = [me EXCEPT ![c] = Reclaiming(Local("drain"), "drain")]
    /\ UNCHANGED <<setting, object, early, rows, fee, claim, released, minted, word, rest>>

\* A fee due, as it is now.
FeeDue(c) ==
    /\ At(c, "drain") /\ fee.state = "owed"
    /\ me' = [me EXCEPT ![c].at = "due", ![c].etag = fee.etag, ![c].attempts = fee.attempts]
    /\ UNCHANGED <<setting, object, early, tables, rest>>

\* try_fee: the object held to the upload the door verified ...
FeeStamp(c) ==
    /\ At(c, "due")
    /\ \/ Goes(c, IF object = me[c].etag THEN "ask" ELSE "ends")
       \/ failing /\ Goes(c, "putOff")
    /\ UNCHANGED <<setting, object, early, tables, rest>>

\* ... and wallet-infra handed the reference: recorded, put off, its word that
\* it cannot read the bucket, or another reason that cannot clear by itself.
FeeAsk(c) ==
    /\ At(c, "ask")
    /\ \E step \in {"settle", "putOff", "setWord", "ends"} : Goes(c, step)
    /\ UNCHANGED <<setting, object, early, tables, rest>>

Settle(c) ==
    /\ At(c, "settle")
    /\ fee' = NoFee
    /\ over' = over \cup ({fee.etag} \ {Gone}) /\ met' = met
    /\ me' = [me EXCEPT ![c] = Reclaiming(Local("clearWord"), "clearWord")]
    /\ UNCHANGED <<setting, object, early, rows, announce, claim, released, minted, word, failing>>

ClearWord(c) ==
    /\ At(c, "clearWord")
    /\ word' = FALSE
    /\ me' = [me EXCEPT ![c] = Local("minted")]
    /\ UNCHANGED <<setting, object, early, rows, fee, announce, claim, released, minted, rest>>

\* Faulty: the attempt is not counted.
PutOffUncounted(c) ==
    /\ At(c, "putOff")
    /\ me' = [me EXCEPT ![c] = Local("minted")]
    /\ UNCHANGED <<setting, object, early, tables, rest>>

\* One more attempt than the fee had when it was read; at the ceiling it ends.
PutOff(c) ==
    LET attempts == me[c].attempts + 1 IN
    /\ At(c, "putOff")
    /\ IF attempts >= Ceiling
       THEN fee' = Ended /\ over' = over \cup ({fee.etag} \ {Gone})
       ELSE /\ fee' = IF fee = NoFee THEN fee ELSE [fee EXCEPT !.attempts = attempts]
            /\ UNCHANGED over
    /\ met' = met
    /\ me' = [me EXCEPT ![c] = Local("minted")]
    /\ UNCHANGED <<setting, object, early, rows, announce, claim, released, minted, word, failing>>

SetWord(c) ==
    /\ At(c, "setWord")
    /\ word' = TRUE
    /\ Goes(c, "ends")
    /\ UNCHANGED <<setting, object, early, rows, fee, announce, claim, released, minted, rest>>

FeeEnds(c) ==
    /\ At(c, "ends")
    /\ fee' = Ended
    /\ over' = over \cup ({fee.etag} \ {Gone}) /\ met' = met
    /\ me' = [me EXCEPT ![c] = Local("minted")]
    /\ UNCHANGED <<setting, object, early, rows, announce, claim, released, minted, word, failing>>

\* WALLET_WORD_SECS pass.
WordExpires ==
    /\ word
    /\ word' = FALSE
    /\ UNCHANGED <<setting, object, early, rows, fee, announce, claim, released, minted, me, rest>>

\* A minted key past its deadline (the URL's life and a day, a spool's day),
\* with no reading pending.
MintedDue(c) ==
    /\ At(c, "minted") /\ minted /\ ~early
    /\ me' = [me EXCEPT ![c] = Reclaiming(Local("minted"), "forgetMinted")]
    /\ UNCHANGED <<setting, object, early, tables, rest>>

ForgetMinted(c) ==
    /\ At(c, "forgetMinted")
    /\ minted' = FALSE
    /\ me' = [me EXCEPT ![c] = Local("released")]
    /\ UNCHANGED <<setting, object, early, rows, fee, announce, claim, released, word, rest>>

\* Faulty: the pass reads no keys.
ReleasedDueNone(c) ==
    /\ At(c, "released") /\ released
    /\ me' = [me EXCEPT ![c] = Local("idle")]
    /\ UNCHANGED <<setting, object, early, tables, rest>>

ReleasedDue(c) ==
    /\ At(c, "released") /\ released
    /\ me' = [me EXCEPT ![c] = Reclaiming(Local("released"), "forget")]
    /\ UNCHANGED <<setting, object, early, tables, rest>>

\* Whatever the look came to, the record goes.
Forget(c) ==
    /\ At(c, "forget")
    /\ released' = FALSE
    /\ me' = [me EXCEPT ![c] = Local("idle")]
    /\ UNCHANGED <<setting, object, early, rows, fee, announce, claim, minted, word, rest>>

CronStep(c) ==
    \/ Wake(c) \/ NothingDue(c) \/ NotYet(c) \/ PassFails(c) \/ AnnounceDue(c) \/ Reask(c) \/ Announced(c)
    \/ FeeDue(c) \/ FeeStamp(c) \/ FeeAsk(c) \/ Settle(c) \/ ClearWord(c) \/ PutOff(c)
    \/ SetWord(c) \/ FeeEnds(c) \/ MintedDue(c) \/ ForgetMinted(c) \/ ReleasedDue(c)
    \/ Forget(c)

-----------------------------------------------------------------------------
\* An upload's key is recorded when its URL is minted; a spool's when written.
Init ==
    /\ setting \in Settings
    /\ object = Gone
    /\ early = ~Spooled
    /\ rows = [s \in Sends |-> "none"]
    /\ fee = NoFee
    /\ announce = Gone
    /\ claim = FALSE
    /\ released = FALSE
    /\ minted = ~Spooled
    /\ word = FALSE
    /\ failing = setting.fail
    /\ me = [p \in Procs |-> IF p \in Sends THEN Local("new") ELSE Local("idle")]
    /\ over = {} /\ met = {}

\* The last failure is over.
StoresRecover ==
    /\ failing
    /\ failing' = FALSE
    /\ UNCHANGED <<setting, object, early, tables, me, history>>

Next ==
    \/ \E p \in Procs : Reclaim(p)
    \/ \E s \in Sends : SendStep(s) \/ LetGo(s)
    \/ \E c \in Crons : CronStep(c)
    \/ \E e \in Etags : Upload(e)
    \/ DeadlineComes \/ ClaimExpires \/ WordExpires \/ StoresRecover

Spec == Init /\ [][Next]_vars

\* The scheduled event comes again and again and gets through its steps, a
\* send does too, the stores do not fail for ever, a next_at and a deadline
\* come, and a reading pending at the door ends.
FairSpec ==
    /\ Spec
    /\ \A c \in Crons :
          WF_vars(CronStep(c) \/ Reclaim(c)) /\ SF_vars(FeeDue(c)) /\ SF_vars(MintedDue(c))
    /\ \A s \in Sends : WF_vars(SendStep(s) \/ Reclaim(s))
    /\ WF_vars(StoresRecover) /\ WF_vars(DeadlineComes)

-----------------------------------------------------------------------------
(* Properties *)

Fee == [state : {"none", "owed", "ended"}, etag : Etags \cup {Gone}, attempts : 0 .. Ceiling - 1]

SendSteps == {"new", "mint", "spool", "door", "handoff", "announcing", "internalize", "defer",
              "word", "endFee", "insert", "claimed", "bytes", "done", "failed"}
CronSteps == {"idle"} \cup PassSteps
ReclaimSteps == {"claim", "rows", "fees", "announces", "stamp", "restamp", "clear", "unclaim"}

\* Where a reclaim's caller goes on.
SendThens == {"done", "insert", "failed"}
CronThens == {"drain", "clearWord", "forgetMinted", "released", "forget", "idle"}

Process == [at : SendSteps \cup CronSteps \cup ReclaimSteps, then : SendThens \cup CronThens,
            round : 1 .. 2, looked : Etags \cup {Gone}, etag : Etags \cup {Gone},
            told : {"none", "recorded", "deferred", "ended"}, kept : BOOLEAN, minter : BOOLEAN,
            attempts : 0 .. Ceiling - 1, since : SUBSET (Sends \cup {"fee", "announce"})]

\* Every piece of state has its type; a fee is tried at most Ceiling times.
TypeOK ==
    /\ setting \in Settings
    /\ object \in Etags \cup {Gone} /\ announce \in Etags \cup {Gone}
    /\ rows \in [Sends -> {"none", "names", "gone"}]
    /\ fee \in Fee
    /\ early \in BOOLEAN /\ claim \in BOOLEAN /\ released \in BOOLEAN /\ minted \in BOOLEAN
    /\ word \in BOOLEAN /\ failing \in BOOLEAN
    /\ me \in [Procs -> Process]
    /\ over \subseteq Etags /\ met \subseteq Etags

\* A reclaim about to delete looked at everything that names the key, but for
\* what was written while its second look ran or after it: no row, fee or
\* announcement older than that loses its bytes, whatever other reclaims,
\* sends and passes do meanwhile (reclaim_claimed).
OlderNamesAreSpared ==
    \A p \in Procs : me[p].at \in {"restamp", "clear"} => Names \subseteq me[p].since

\* What the rows let go of the relay comes back to: when every send and pass
\* is over, an object nothing names is on one of the lists the next scheduled
\* event looks at (reclaim_released: "the row's own release ... comes back to
\* it").  Of a key that owes no fee: what a fee or an announcement let go of
\* is reclaimed once or, when the fee ends, not at all, and reclaim_minted may
\* have forgotten the key while they named it.  And of a key one row named: a
\* second row that lets go between a pass's look at it and FORGET_RELEASED_SQL
\* finds the key on the list and is forgotten with the first one's release.
LetGoIsQueued ==
    /\ \A p \in Procs : me[p].at \in {"new", "done", "failed", "idle"}
    /\ object # Gone /\ Names = {} /\ FeeSends = {}
    /\ \A s, t \in Sends : rows[s] = "none" \/ rows[t] = "none" \/ s = t
    => released \/ minted

\* A send told that its fee is deferred has it in the ledger, under the upload
\* the door verified, until that fee was recorded or ended.  But for an upload
\* that replaced one whose fee was still there: its own deferral is ignored
\* (DEFER_FEE_SQL).
DeferredIsOwed ==
    \A s \in Sends :
        me[s].told = "deferred" =>
            \/ fee.state = "owed" /\ fee.etag = me[s].etag
            \/ me[s].etag \in over \cup met

\* Nothing is owed for ever: a deferred fee is recorded or ends, wallet-infra
\* answering or not (FEE_ATTEMPTS_CEILING).
FeeIsOver == (fee.state = "owed") ~> (fee.state # "owed")

\* Nothing rests for ever: once its one row was let go of, the object goes,
\* whichever pass fails on the way, unless another row names it.
LetGoGoes ==
    \A s \in Sends :
        (rows[s] = "gone") ~> (object = Gone \/ \E t \in Sends \ {s} : rows[t] # "none")
=============================================================================
