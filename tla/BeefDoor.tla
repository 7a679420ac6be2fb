------------------------------ MODULE BeefDoor ------------------------------
(***************************************************************************)
(* The door a delivery payment goes through (src/beef_door.rs, called by   *)
(* src/payments.rs): the structure of the BEEF, the output that pays, the  *)
(* scripts, then the merkle roots.  An object at rest is read in slices,   *)
(* one per request, from a cursor saved beside it: requests for one object *)
(* run side by side, the object may be replaced or reclaimed between any   *)
(* two awaits, and a client sends again what was answered 503.             *)
(*                                                                         *)
(* A reading is a number of steps (an element; in the scripts pass also an *)
(* input), of which one may be refused.  A stream once open stays on its   *)
(* upload, so a reading is one step of the model.  A content stands for    *)
(* its own stamp: R2's etag is a digest.  What a settled payment's object  *)
(* is owed is PaymentObject's.                                             *)
(***************************************************************************)
EXTENDS Integers, Sequences, FiniteSets

CONSTANTS
    Lookups,    \* ROOT_LOOKUPS_PER_PASS
    MaxHeight,  \* the last height a header can carry
    None,
    Terms,      \* what a request may ask to be paid
    MostRequests,   \* no workload has more
    Works       \* the workloads

Root == [height : Nat, carried : BOOLEAN]

\* A payment: the steps of its readings, the one refused (0: none), whether and
\* how its subject is there, what it pays, and its merkle roots in order.  What
\* refuses an untimely one is a mining check; the text of a long one is longer
\* than a row holds.
Payment == [steps : [structure : Nat, scripts : Nat], bad : [structure : Nat, scripts : Nat],
            untimely : BOOLEAN, subject : {"none", "loose", "mined"}, pays : SUBSET Terms,
            roots : Seq(Root), long : BOOLEAN]

\* headers: a header service is configured; named: a row names the spool.  A
\* request with no terms carries no wallet payment of its own sender.
Workload == [contents : Seq(Payment), object : Nat, ahead : Seq(Nat), headers : BOOLEAN,
             named : BOOLEAN, faults : Nat,
             requests : Seq([how : {"named", "spooled", "hand", "free"}, terms : Terms \cup {None}])]

ASSUME LookupsAssumption == Lookups \in Nat \ {0} /\ MaxHeight \in Nat
ASSUME WorksAssumption ==
    /\ Works \subseteq Workload
    /\ \A w \in Works :
          /\ Len(w.contents) > 0 /\ Len(w.requests) <= MostRequests
          /\ w.object <= Len(w.contents)
          /\ \A i \in DOMAIN w.ahead : w.ahead[i] <= Len(w.contents)
ASSUME NoneIsNoWord == None \notin {"verified", "refused", "kept", "notFound", "misconfigured",
                                   "pending", "unavailable"}

VARIABLES
    work,       \* the workload
    object,     \* the content at the key; 0: no object
    ahead,      \* what the object is still to become
    saved,      \* the door's state beside the object, or None
    req,        \* per request: how far it is
    faults      \* the failures left

vars == <<work, object, ahead, saved, req, faults>>

-----------------------------------------------------------------------------
Requests == DOMAIN work.requests
How(q) == work.requests[q].how
\* delivery_remittance, delivery_script: the output, the script and the amount
\* asked for; None where the remittance is refused.
TermsOf(q) == work.requests[q].terms
At(q, pc) == req[q].pc = pc

Phases == {"structure", "scripts", "roots"}
Content(c) == work.contents[c]
Steps(c, phase) == Content(c).steps[phase]
BadAt(c, phase) == Content(c).bad[phase]     \* 0: none is refused
Subject(c) == Content(c).subject     \* "none", "loose" or "mined"
IsPaid(c, terms) == Subject(c) # "none" /\ terms \in Content(c).pays
Roots(c) == Content(c).roots

Fresh == [pc |-> "arrives", word |-> None, stamp |-> 0, phase |-> "structure", pos |-> 0,
          asked |-> 0, known |-> FALSE]

\* refusal_word: a mining check that no tip decides is the server's decline, a
\* 503, and no word on the payer's bytes.
Refusal(c) == IF Content(c).untimely THEN "unavailable" ELSE "refused"

\* The words a client sends the same request again for: the 503s.  Every 4xx is
\* "refused", the 422 of a script past its work budget too.
Retried == {"pending", "unavailable"}
Words == Retried \cup {"verified", "refused", "kept", "notFound", "misconfigured"}

Answer(q, word) == req' = [req EXCEPT ![q].pc = "answered", ![q].word = word]

\* The answer of a request whose bytes are at rest.  A refusal, and a failure,
\* end an inline payment's spool; a pending reading keeps it.
Ends(q, word) ==
    req' = [req EXCEPT ![q].word = word,
                       ![q].pc = IF How(q) = "spooled" /\ word \notin {"pending", "verified"}
                                 THEN "forget" ELSE "answered"]

-----------------------------------------------------------------------------
(* The roots *)

Heights(c) == {Roots(c)[i].height : i \in DOMAIN Roots(c)}

\* No root at all, or a height no header can carry.
NoRoots(c) == Roots(c) = <<>> \/ \E h \in Heights(c) : h > MaxHeight

\* The places past `asked` one request reaches, one lookup per height.
Reached(c, asked, most) ==
    {p \in asked + 1 .. Len(Roots(c)) :
        Cardinality({Roots(c)[i].height : i \in asked + 1 .. p}) <= most}

\* Faulty: the retry goes on past the roots whose lookup failed.
StaysPastFailures(asked, reached, lost) == asked + Cardinality(reached)

\* The roots a retry need not ask again: those before the first not answered for.
Stays(asked, reached, lost) ==
    asked + Cardinality({p \in reached : \A l \in lost : p < l})

\* roots_word: a root the header does not carry is refused at once, a lookup
\* that failed is remembered while the rest are asked.  The lookups spent, or
\* a failure, leave `asked` at the first root not answered for.
RootsWord(c, asked, most, failed) ==
    LET reached == Reached(c, asked, most)
        lost == {p \in reached : Roots(c)[p].height \in failed}
        spent == reached # asked + 1 .. Len(Roots(c))
    IN  CASE NoRoots(c) -> [word |-> "refused", asked |-> asked]
          [] ~NoRoots(c) /\ (\E p \in reached \ lost : ~Roots(c)[p].carried) ->
                 [word |-> "refused", asked |-> asked]
          [] ~NoRoots(c) /\ (\A p \in reached \ lost : Roots(c)[p].carried) ->
                 [word |-> CASE spent -> "pending"
                             [] ~spent /\ lost # {} -> "unavailable"
                             [] OTHER -> "verified",
                  asked |-> Stays(asked, reached, lost)]

\* The heights the header service fails to answer for.
HeadersFail(c, failed) ==
    /\ failed \subseteq Heights(c)
    /\ failed = {} \/ faults > 0
    /\ faults' = IF failed = {} THEN faults ELSE faults - 1

-----------------------------------------------------------------------------
(* A request arrives *)

\* judge_output_inline, before anything of an inline payment is put at rest.
PaysInline(q) == BadAt(1, "structure") = 0 /\ IsPaid(1, TermsOf(q))
InlineRefusal == IF BadAt(1, "structure") = 0 THEN "refused" ELSE Refusal(1)

IsClaim(q) == TermsOf(q) # None
IsRead(q) == IsClaim(q) /\ work.headers

\* The remittance first.  No header service is the server's misconfiguration,
\* and no payment is read.
Arrive(q) ==
    /\ At(q, "arrives") /\ How(q) \in {"named", "spooled"}
    /\ CASE ~IsClaim(q) -> Answer(q, "refused")
         [] IsClaim(q) /\ ~work.headers -> Answer(q, "misconfigured")
         [] IsRead(q) /\ How(q) = "named" -> req' = [req EXCEPT ![q].pc = "stamp"]
         [] IsRead(q) /\ How(q) = "spooled" /\ ~PaysInline(q) -> Answer(q, InlineRefusal)
         [] OTHER -> req' = [req EXCEPT ![q].pc = "spool"]
    /\ UNCHANGED <<work, object, ahead, saved, faults>>

\* verify_inline, where no bucket is bound: the whole payment in one request.
VerifyInline(q) ==
    /\ At(q, "arrives") /\ How(q) = "hand"
    /\ \E failed \in SUBSET Heights(1) :
           /\ HeadersFail(1, failed)
           /\ Answer(q, CASE ~IsClaim(q) -> "refused"
                          [] IsClaim(q) /\ ~work.headers -> "misconfigured"
                          [] IsRead(q) /\ ~PaysInline(q) -> InlineRefusal
                          [] IsRead(q) /\ PaysInline(q) /\ BadAt(1, "scripts") # 0 -> Refusal(1)
                          [] OTHER -> RootsWord(1, 0, Len(Roots(1)), failed).word)
    /\ UNCHANGED <<work, object, ahead, saved>>

\* check_unjudged: no delivery fee is owed, and the structure alone is read of a
\* payment its row can hold.
CheckUnjudged(q) ==
    /\ At(q, "arrives") /\ How(q) = "free"
    /\ Answer(q, CASE Content(1).long -> "refused"
                   [] ~Content(1).long /\ BadAt(1, "structure") # 0 -> Refusal(1)
                   [] OTHER -> "kept")
    /\ UNCHANGED <<work, object, ahead, saved, faults>>

\* The spool's key is a digest of the bytes: what is there is the payment.
Spool(q) ==
    /\ At(q, "spool")
    /\ object' = 1
    /\ req' = [req EXCEPT ![q].pc = "stamp"]
    /\ UNCHANGED <<work, ahead, saved, faults>>

-----------------------------------------------------------------------------
(* One slice of an object at rest *)

ReadStamp(q) ==
    /\ At(q, "stamp")
    /\ IF object = 0 THEN Ends(q, "notFound")
       ELSE req' = [req EXCEPT ![q].stamp = object, ![q].pc = "load"]
    /\ UNCHANGED <<work, object, ahead, saved, faults>>

\* A state is taken up only with the upload it was saved for.
Resumes(q) == saved # None /\ saved.stamp = req[q].stamp

Load(q) ==
    /\ At(q, "load")
    /\ req' = [req EXCEPT ![q] =
           IF Resumes(q)
           THEN [req[q] EXCEPT !.phase = saved.phase, !.pos = saved.pos, !.asked = saved.asked,
                               !.pc = IF saved.phase = "roots" THEN "output" ELSE "read"]
           ELSE [req[q] EXCEPT !.pc = "read"]]
    /\ UNCHANGED <<work, object, ahead, saved, faults>>

\* open: another upload's bytes are an error; from the end on there is nothing
\* to fetch, and nothing is looked at.
Opens(q) == req[q].pos = Steps(req[q].stamp, req[q].phase) \/ object = req[q].stamp

\* Faulty: the slice is looked at before the element in hand is finished.
PausesBefore(from, last) == from .. last

\* Where a spent slice leaves the reading: the step in hand is finished.
PausesAt(from, last) == from + 1 .. last

\* Faulty: the scripts run before the output is judged.
AfterReadingScriptsFirst(r) ==
    IF r.phase = "structure" THEN [r EXCEPT !.phase = "scripts", !.pos = 0]
    ELSE [r EXCEPT !.phase = "roots", !.asked = 0, !.pc = "output"]

\* A valid structure: the output, before a script runs.  Valid scripts: the
\* roots, and the output if this request has not judged it.
AfterReading(r) ==
    IF r.phase = "structure" THEN [r EXCEPT !.pc = "output"]
    ELSE [r EXCEPT !.phase = "roots", !.asked = 0,
                   !.pc = IF r.known THEN "roots" ELSE "output"]

\* One reading, of the structure or of the scripts, from the cursor on.
Read(q) ==
    /\ At(q, "read")
    /\ LET r == req[q]
           bad == BadAt(r.stamp, r.phase)
           refused == bad > r.pos
           last == IF refused THEN bad - 1 ELSE Steps(r.stamp, r.phase)
       IN  \/ ~Opens(q) /\ Ends(q, "unavailable")
           \/ /\ Opens(q)
              /\ \E p \in PausesAt(r.pos, last) :
                     req' = [req EXCEPT ![q] = [r EXCEPT !.pos = p, !.word = "pending",
                                                         !.pc = "save"]]
           \/ /\ Opens(q) /\ refused
              /\ req' = [req EXCEPT ![q] = [r EXCEPT !.word = Refusal(r.stamp), !.pc = "clear"]]
           \/ /\ Opens(q) /\ ~refused
              /\ req' = [req EXCEPT ![q] = AfterReading(r)]
    /\ UNCHANGED <<work, object, ahead, saved, faults>>

\* The output word, by this request's own terms.
OutputWord(q) ==
    LET r == req[q]
    IN  CASE ~IsPaid(r.stamp, TermsOf(q)) -> [r EXCEPT !.word = "refused", !.pc = "clear"]
          [] IsPaid(r.stamp, TermsOf(q)) /\ r.phase = "roots" ->
                 [r EXCEPT !.known = TRUE, !.pc = "roots"]
          [] OTHER -> [r EXCEPT !.known = TRUE, !.phase = "scripts", !.pos = 0, !.pc = "read"]

\* paid_by: the subject is opened again ...
JudgeOutput(q) ==
    /\ At(q, "output")
    /\ LET subject == Subject(req[q].stamp)
       IN  CASE subject # "none" /\ object # req[q].stamp -> Ends(q, "unavailable")
             [] subject = "mined" /\ object = req[q].stamp ->
                    req' = [req EXCEPT ![q].pc = "proof"]
             [] OTHER -> req' = [req EXCEPT ![q] = OutputWord(q)]
    /\ UNCHANGED <<work, object, ahead, saved, faults>>

\* ... and a mined subject's BUMP, from the start.
ReadProof(q) ==
    /\ At(q, "proof")
    /\ IF object # req[q].stamp THEN Ends(q, "unavailable")
       ELSE req' = [req EXCEPT ![q] = OutputWord(q)]
    /\ UNCHANGED <<work, object, ahead, saved, faults>>

AskRoots(q) ==
    /\ At(q, "roots")
    /\ LET r == req[q]
       IN  \E failed \in SUBSET Heights(r.stamp) :
               /\ HeadersFail(r.stamp, failed)
               /\ LET said == RootsWord(r.stamp, r.asked, Lookups, failed)
                  IN  req' = [req EXCEPT ![q] =
                          [r EXCEPT !.word = said.word, !.asked = said.asked,
                                    !.pc = IF said.word \in Retried THEN "save" ELSE "clear"]]
    /\ UNCHANGED <<work, object, ahead, saved>>

Rest(q) == [stamp |-> req[q].stamp, phase |-> req[q].phase, pos |-> req[q].pos,
            asked |-> req[q].asked]

\* pause
Save(q) ==
    /\ At(q, "save")
    /\ saved' = Rest(q)
    /\ Ends(q, req[q].word)
    /\ UNCHANGED <<work, object, ahead, faults>>

\* done
Clear(q) ==
    /\ At(q, "clear")
    /\ saved' = None
    /\ Ends(q, req[q].word)
    /\ UNCHANGED <<work, object, ahead, faults>>

\* What a reclaim leaves of a spool: a row of an earlier send may name it.
Reclaimed == IF work.named THEN object ELSE 0

\* The store cannot answer, and what it was asked to write may be written.  The
\* end of a spool is best effort: its failure is nobody's answer.
StoreFails(q) ==
    /\ req[q].pc \in {"spool", "stamp", "load", "read", "output", "proof", "save", "clear",
                      "forget"}
    /\ faults > 0
    /\ faults' = faults - 1
    /\ CASE At(q, "spool") -> Answer(q, "unavailable")
         [] At(q, "forget") -> Answer(q, req[q].word)
         [] OTHER -> Ends(q, "unavailable")
    /\ object' \in CASE At(q, "spool") -> {object, 1}
                     [] At(q, "forget") -> {object, Reclaimed}
                     [] OTHER -> {object}
    /\ saved' \in CASE At(q, "save") -> {saved, Rest(q)}
                    [] At(q, "clear") -> {saved, None}
                    [] OTHER -> {saved}
    /\ UNCHANGED <<work, ahead>>

\* forget_spool
ForgetSpool(q) ==
    /\ At(q, "forget")
    /\ object' = Reclaimed
    /\ Answer(q, req[q].word)
    /\ UNCHANGED <<work, ahead, saved, faults>>

-----------------------------------------------------------------------------
(* The client, and the object under it *)

Retry(q) ==
    /\ At(q, "answered") /\ req[q].word \in Retried
    /\ req' = [req EXCEPT ![q] = Fresh]
    /\ UNCHANGED <<work, object, ahead, saved, faults>>

\* The object is uploaded again, or reclaimed.
Replace ==
    /\ ahead # <<>>
    /\ object' = Head(ahead) /\ ahead' = Tail(ahead)
    /\ UNCHANGED <<work, saved, req, faults>>

-----------------------------------------------------------------------------
Init ==
    /\ work \in Works
    /\ object = work.object /\ ahead = work.ahead
    /\ saved = None
    /\ req = [q \in Requests |-> Fresh]
    /\ faults = work.faults

RequestStep(q) ==
    \/ Arrive(q) \/ VerifyInline(q) \/ CheckUnjudged(q) \/ Spool(q)
    \/ ReadStamp(q) \/ Load(q) \/ Read(q) \/ JudgeOutput(q) \/ ReadProof(q) \/ AskRoots(q)
    \/ Save(q) \/ Clear(q) \/ ForgetSpool(q) \/ Retry(q)

Next ==
    \/ \E q \in Requests : RequestStep(q)
    \/ \E q \in Requests : StoreFails(q)
    \/ Replace

\* A request runs on, and a client sends a 503 again; a store that fails, a
\* header that does not answer and an upload are bounded, and owed to nobody.
Spec ==
    /\ Init /\ [][Next]_vars
    /\ \A q \in 1 .. MostRequests : WF_vars(q \in Requests /\ RequestStep(q))

-----------------------------------------------------------------------------
Uploads == 0 .. Len(work.contents)

Request == [pc : {"arrives", "spool", "stamp", "load", "read", "output", "proof", "roots", "save",
                  "clear", "forget", "answered"},
            word : Words \cup {None}, stamp : Uploads, phase : Phases, pos : Nat, asked : Nat,
            known : BOOLEAN]

Cursor == [stamp : Uploads \ {0}, phase : Phases, pos : Nat, asked : Nat]

\* The shapes of every component's state.
TypeOK ==
    /\ work \in Works
    /\ object \in Uploads /\ ahead \in Seq(Uploads)
    /\ faults \in Nat
    /\ req \in [Requests -> Request]
    /\ saved # None => saved \in Cursor

\* A payment is verified only if the bytes the verdict names are valid, every
\* script and every root of them, and their subject pays what this request
\* itself asks: whatever other requests saved, overwrote or cleared beside it,
\* whichever lookup failed, and whatever was uploaded between two slices
\* (door_at_rest, roots_word).
VerifiedIsSound ==
    \A q \in Requests : req[q].word = "verified" =>
        LET c == IF How(q) = "hand" THEN 1 ELSE req[q].stamp
        IN  /\ BadAt(c, "structure") = 0 /\ BadAt(c, "scripts") = 0
            /\ IsPaid(c, TermsOf(q))
            /\ Roots(c) # <<>>
            /\ \A i \in DOMAIN Roots(c) : Roots(c)[i].carried

\* "A body that pays nothing costs one structural pass and no script": a
\* request is in the scripts or the roots of an upload only when its structure
\* was read to a valid end and its subject pays what some request asks.
ScriptsArePaidFor ==
    \A q \in Requests : req[q].phase \in {"scripts", "roots"} =>
        /\ BadAt(req[q].stamp, "structure") = 0
        /\ \E r \in Requests : IsPaid(req[q].stamp, TermsOf(r))

\* A client that sends a 503 again has a word in the end, however small the
\* slices and with other requests saving older cursors over its own: every
\* reading moves (read), and a failed lookup does not lose the roots before it.
\* An upload that a mining check declines is answered 503 each time.
PaymentIsJudged ==
    \A q \in 1 .. MostRequests :
        <>(q \in Requests /\ (\A c \in DOMAIN work.contents : ~Content(c).untimely)
               => At(q, "answered") /\ req[q].word \notin Retried)
=============================================================================
