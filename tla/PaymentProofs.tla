---------------------------- MODULE PaymentProofs ----------------------------
(***************************************************************************)
(* Proofs about PaymentObject, for any number of sends, scheduled events   *)
(* and uploads and every setting: the state is well typed, a reclaim about *)
(* to delete has looked at all that named the key before its second look,  *)
(* a send told that its fee is deferred has it in the ledger, and what the *)
(* one row of a key without a fee let go of is looked at again.            *)
(*                                                                         *)
(* The inductive invariant Inv has three parts.  The types.  What a        *)
(* reclaim has seen so far in its second look, table by table (Looked):    *)
(* OlderNamesAreSpared only speaks of a look that is over.  And what a     *)
(* send relies on between the deferral and its answer (SendOk), with what  *)
(* the ledger holds at the key (FeeOk).  The last theorem has an invariant *)
(* of its own over Inv, Queued: what each pass has found when it forgets   *)
(* the record it came from.                                                *)
(***************************************************************************)
EXTENDS PaymentObject, TLAPS

Steps == SendSteps \cup CronSteps \cup ReclaimSteps
Thens == SendThens \cup CronThens

\* The second look, as far as it got: what of r, f and a names the key is
\* younger than it.
Looked(l, r, f, a) ==
    /\ l.at \in {"restamp", "clear"} => l.round = 2
    /\ l.round = 2 /\ l.at \in {"fees", "announces", "restamp", "clear"} =>
          \A s \in Sends : r[s] = "names" => s \in l.since
    /\ l.round = 2 /\ l.at \in {"announces", "restamp", "clear"} =>
          (f.state = "owed" => "fee" \in l.since)
    /\ l.round = 2 /\ l.at \in {"restamp", "clear"} =>
          (a # Gone => "announce" \in l.since)

LookedAt == \A p \in Procs : Looked(me[p], rows, fee, announce)

\* Nothing is claimed of what a process here has looked at.
Settled(l) == l.at \notin {"fees", "announces", "restamp", "clear"}

\* The fee of an upload is owed, is over, or was never written.
Owing(f, o, e) == (f.state = "owed" /\ f.etag = e) \/ e \in o

\* The steps of a send up to the answer about its fee.
Asking == {"new", "mint", "spool", "door", "handoff", "announcing", "internalize", "defer", "word",
           "endFee"}

SendOk(l, f, o) ==
    /\ l.then \in SendThens
    /\ l.at \in {"announcing", "internalize", "defer", "word", "endFee"} => l.etag \in Etags
    /\ l.told # "none" => l.at \notin Asking
    /\ l.told = "deferred" \/ l.at = "word" => Owing(f, o, l.etag)

FeeOk(f, o) ==
    /\ f.state = "none" => f = NoFee
    /\ f.state # "none" => f.etag \in Etags
    /\ f.state = "ended" => f.etag \in o

LedgerOk ==
    /\ FeeOk(fee, over)
    /\ \A s \in Sends : SendOk(me[s], fee, over \cup met)

\* The types of what no process keeps, but for the fee.
TablesOK ==
    /\ setting \in Settings
    /\ object \in Etags \cup {Gone} /\ announce \in Etags \cup {Gone}
    /\ rows \in [Sends -> {"none", "names", "gone"}]
    /\ early \in BOOLEAN /\ claim \in BOOLEAN /\ released \in BOOLEAN /\ minted \in BOOLEAN
    /\ word \in BOOLEAN /\ failing \in BOOLEAN

FeesOK == fee \in Fee /\ over \subseteq Etags /\ met \subseteq Etags

Processes == me \in [Procs -> Process]

Inv == TablesOK /\ FeesOK /\ Processes /\ LookedAt /\ LedgerOk

-----------------------------------------------------------------------------
(* The locals of a process *)

\* The steps, and what a reclaim may return to, as sets.
LEMMA StepsAre ==
    /\ Steps = {"new", "mint", "spool", "door", "handoff", "announcing", "internalize", "defer",
                "word", "endFee", "insert", "claimed", "bytes", "done", "failed", "idle", "reask",
                "announceDue", "announced", "drain", "due", "ask", "settle", "putOff", "setWord",
                "ends", "clearWord", "minted", "forgetMinted", "released", "forget", "claim",
                "rows", "fees", "announces", "stamp", "restamp", "clear", "unclaim"}
    /\ Thens = {"done", "insert", "failed", "drain", "clearWord", "forgetMinted", "released",
                "forget", "idle"}
    /\ Thens \subseteq Steps
  <1>1. Steps = {"new", "mint", "spool", "door", "handoff", "announcing", "internalize", "defer",
                "word", "endFee", "insert", "claimed", "bytes", "done", "failed", "idle", "reask",
                "announceDue", "announced", "drain", "due", "ask", "settle", "putOff", "setWord",
                "ends", "clearWord", "minted", "forgetMinted", "released", "forget", "claim",
                "rows", "fees", "announces", "stamp", "restamp", "clear", "unclaim"}
    BY DEF Steps, SendSteps, CronSteps, ReclaimSteps, PassSteps, Passes
  <1>2. Thens = {"done", "insert", "failed", "drain", "clearWord", "forgetMinted", "released",
                "forget", "idle"}
    BY DEF Thens, SendThens, CronThens
  <1> QED BY <1>1, <1>2

\* A process is its step and its locals.
LEMMA ProcessIs ==
    Process = [at : Steps, then : Thens, round : 1 .. 2, looked : Etags \cup {Gone},
               etag : Etags \cup {Gone}, told : {"none", "recorded", "deferred", "ended"},
               kept : BOOLEAN, minter : BOOLEAN, attempts : 0 .. Ceiling - 1,
               since : SUBSET (Sends \cup {"fee", "announce"})]
  BY DEF Process, Steps, Thens

\* A process at the start of a step has no look behind it.
LEMMA LocalType ==
    ASSUME NEW at \in Steps
    PROVE  Local(at) \in Process
  <1>1. 0 \in 0 .. Ceiling - 1 /\ 1 \in 1 .. 2
    BY CeilingPositive
  <1>2. "done" \in Thens
    BY StepsAre
  <1> QED BY <1>1, <1>2, ProcessIs DEF Local

\* The next step of a process.
LEMMA AtType ==
    ASSUME NEW l \in Process, NEW at \in Steps
    PROVE  [l EXCEPT !.at = at] \in Process
  BY ProcessIs

\* A process that begins a reclaim.
LEMMA ReclaimingType ==
    ASSUME NEW l \in Process, NEW then \in Thens
    PROVE  Reclaiming(l, then) \in Process
  <1>1. "claim" \in Steps /\ 1 \in 1 .. 2
    BY StepsAre
  <1> QED BY <1>1, ProcessIs DEF Reclaiming

\* A reclaim that is over but for its claim.
LEMMA FinishedType ==
    ASSUME NEW l \in Process
    PROVE  Finished(l) \in Process
  <1>1. "unclaim" \in Steps /\ 1 \in 1 .. 2
    BY StepsAre
  <1> QED BY <1>1, ProcessIs DEF Finished

\* Where an error in a reclaim returns to.
LEMMA AfterErrorType ==
    ASSUME NEW then \in Thens
    PROVE  AfterError(then) \in Thens
  BY StepsAre DEF AfterError

\* A send told of its fee.
LEMMA AfterFeeType ==
    ASSUME NEW l \in Process, NEW told \in {"recorded", "deferred", "ended"}
    PROVE  AfterFee(l, told) \in Process
  <1> DEFINE kept == l.kept \/ told = "deferred"
             on == [l EXCEPT !.told = told, !.kept = kept, !.at = "insert"]
  <1>1. "insert" \in Steps /\ "insert" \in Thens
    BY StepsAre
  <1>2. kept \in BOOLEAN
    BY ProcessIs
  <1>3. on \in Process
    <2> HIDE DEF kept
    <2> QED BY <1>1, <1>2, ProcessIs
  <1>4. AfterFee(l, told) = IF Spooled /\ ~kept THEN Reclaiming(on, "insert") ELSE on
    BY DEF AfterFee
  <1> HIDE DEF on, kept
  <1> QED BY <1>1, <1>3, <1>4, ReclaimingType

\* The pass after this one.
LEMMA NextPassType ==
    ASSUME NEW l, l.at \in PassSteps
    PROVE  NextPass(l) \in {Local("drain"), Local("minted"), Local("released"), Local("idle")}
  BY DEF NextPass, PassSteps, Passes

-----------------------------------------------------------------------------
(* A name written *)

\* A name written at the key only adds to what is newer than a second look.
LEMMA NamedIs ==
    ASSUME NEW m \in [Procs -> Process], NEW x \in Sends \cup {"fee", "announce"}
    PROVE  /\ Named(m, x) \in [Procs -> Process]
           /\ \A p \in Procs : \A r, f, a :
                 Looked(m[p], r, f, a) => Looked(Named(m, x)[p], r, f, a)
           /\ \A p \in Procs : m[p].round = 2 => x \in Named(m, x)[p].since
           /\ \A p \in Procs : \A f, o : SendOk(m[p], f, o) => SendOk(Named(m, x)[p], f, o)
           /\ \A p \in Procs : Named(m, x)[p].round = m[p].round
           /\ \A p \in Procs : m[p].since \subseteq Named(m, x)[p].since
           /\ \A p \in Procs : Named(m, x)[p].at = m[p].at
  <1> SUFFICES ASSUME NEW p \in Procs
               PROVE  /\ Named(m, x)[p] \in Process
                      /\ \A r, f, a : Looked(m[p], r, f, a) => Looked(Named(m, x)[p], r, f, a)
                      /\ m[p].round = 2 => x \in Named(m, x)[p].since
                      /\ \A f, o : SendOk(m[p], f, o) => SendOk(Named(m, x)[p], f, o)
                      /\ Named(m, x)[p].round = m[p].round
                      /\ m[p].since \subseteq Named(m, x)[p].since
                      /\ Named(m, x)[p].at = m[p].at
    BY DEF Named
  <1> DEFINE l == m[p]
             k == Named(m, x)[p]
  <1>1. l \in Process
    OBVIOUS
  <1>2. k = IF l.round = 2 THEN [l EXCEPT !.since = l.since \cup {x}] ELSE l
    BY DEF Named
  <1> HIDE DEF l, k
  <1>3. k \in Process
    BY <1>1, <1>2, ProcessIs
  <1>4. /\ k.at = l.at /\ k.then = l.then /\ k.round = l.round /\ k.etag = l.etag
        /\ k.told = l.told /\ l.since \subseteq k.since
        /\ l.round = 2 => x \in k.since
    BY <1>1, <1>2, ProcessIs
  <1>5. \A r, f, a : Looked(l, r, f, a) => Looked(k, r, f, a)
    BY <1>4 DEF Looked
  <1>6. \A f, o : SendOk(l, f, o) => SendOk(k, f, o)
    BY <1>4 DEF SendOk
  <1> QED BY <1>3, <1>4, <1>5, <1>6 DEF l, k

-----------------------------------------------------------------------------
(* The steps of one process, by what they change *)

\* No row, fee or announcement begins to name the key, but for x.
NoNameBut(x) ==
    /\ \A s \in Sends : rows'[s] = "names" => rows[s] = "names" \/ s = x
    /\ fee'.state = "owed" => fee.state = "owed" \/ "fee" = x
    /\ announce' # Gone => announce # Gone \/ "announce" = x

NoNewName ==
    /\ \A s \in Sends : rows'[s] = "names" => rows[s] = "names"
    /\ fee'.state = "owed" => fee.state = "owed"
    /\ announce' # Gone => announce # Gone

\* What is owed stays owed or is over.
LedgerKept ==
    /\ FeesOK'
    /\ FeeOk(fee', over')
    /\ \A e : Owing(fee, over \cup met, e) => Owing(fee', over' \cup met', e)

\* The ledger as it was.
LEMMA LedgerSame ==
    ASSUME FeesOK, LedgerOk, UNCHANGED <<fee, over, met>>
    PROVE  LedgerKept
  BY DEF LedgerKept, LedgerOk, FeesOK

\* A process that relies on no look.
LEMMA SettledLooked ==
    ASSUME NEW l, Settled(l)
    PROVE  \A r, f, a : Looked(l, r, f, a)
  BY DEF Settled, Looked

\* One process moves and the others stand.
LEMMA Moves ==
    ASSUME Processes, NEW p \in Procs, NEW l \in Process, me' = [me EXCEPT ![p] = l]
    PROVE  Processes' /\ me'[p] = l /\ \A q \in Procs \ {p} : me'[q] = me[q]
  BY DEF Processes

\* A look stays good while no name appears.
LEMMA LookedFewer ==
    ASSUME NEW l, Looked(l, rows, fee, announce), NoNewName
    PROVE  Looked(l, rows', fee', announce')
  BY DEF Looked, NoNewName

\* What a send was told stays so while the ledger keeps what it owes.
LEMMA SendOkKept ==
    ASSUME NEW l, SendOk(l, fee, over \cup met), LedgerKept
    PROVE  SendOk(l, fee', over' \cup met')
  BY DEF SendOk, LedgerKept

\* One process moves on and nothing begins to name the key.
LEMMA MoveKeeps ==
    ASSUME Inv, TablesOK', LedgerKept, NoNewName,
           NEW p \in Procs, NEW l \in Process, me' = [me EXCEPT ![p] = l],
           Looked(l, rows', fee', announce'),
           p \in Sends => SendOk(l, fee', over' \cup met')
    PROVE  Inv'
  <1>1. Processes' /\ me'[p] = l /\ \A q \in Procs \ {p} : me'[q] = me[q]
    BY Moves DEF Inv
  <1>2. \A q \in Procs : Looked(me'[q], rows', fee', announce')
    BY <1>1, LookedFewer DEF Inv, LookedAt
  <1>3. \A s \in Sends : SendOk(me'[s], fee', over' \cup met')
    <2> SUFFICES ASSUME NEW s \in Sends PROVE SendOk(me'[s], fee', over' \cup met')
      OBVIOUS
    <2>1. CASE s = p
      BY <1>1, <2>1
    <2>2. CASE s # p
      <3>1. me'[s] = me[s] /\ SendOk(me[s], fee, over \cup met)
        BY <1>1, <2>2 DEF Inv, LedgerOk, Procs
      <3> QED BY <3>1, SendOkKept
    <2> QED BY <2>1, <2>2
  <1>4. LookedAt' BY <1>2 DEF LookedAt
  <1>5. LedgerOk' BY <1>3 DEF LedgerOk, LedgerKept
  <1>6. FeesOK' BY DEF LedgerKept
  <1> QED BY <1>1, <1>4, <1>5, <1>6 DEF Inv

\* No process moves.
LEMMA StandKeeps ==
    ASSUME Inv, TablesOK', UNCHANGED <<fee, over, met, me>>, NoNewName
    PROVE  Inv'
  <1>1. LedgerKept
    BY LedgerSame DEF Inv
  <1>2. \A q \in Procs : Looked(me'[q], rows', fee', announce')
    BY LookedFewer DEF Inv, LookedAt
  <1>3. \A s \in Sends : SendOk(me'[s], fee', over' \cup met')
    BY DEF Inv, LedgerOk
  <1>4. LookedAt' BY <1>2 DEF LookedAt
  <1>5. LedgerOk' BY <1>1, <1>3 DEF LedgerOk, LedgerKept
  <1>6. FeesOK' /\ Processes' BY <1>1 DEF LedgerKept, Inv, Processes
  <1> QED BY <1>4, <1>5, <1>6 DEF Inv

\* One process moves on and writes the name x: everyone in a second look has
\* it among the younger ones.
LEMMA NameKeeps ==
    ASSUME Inv, TablesOK', LedgerKept,
           NEW x \in Sends \cup {"fee", "announce"}, NoNameBut(x),
           NEW p \in Procs, NEW l \in Process, me' = Named([me EXCEPT ![p] = l], x),
           Settled(l), p \in Sends, SendOk(l, fee', over' \cup met')
    PROVE  Inv'
  <1> DEFINE m == [me EXCEPT ![p] = l]
  <1>1. m \in [Procs -> Process] /\ m[p] = l /\ \A q \in Procs \ {p} : m[q] = me[q]
    BY DEF Inv, Processes
  <1> HIDE DEF m
  <1>2. me' = Named(m, x)
    BY DEF m
  <1>3. Processes'
    BY <1>1, <1>2, NamedIs DEF Processes
  <1>4. \A q \in Procs : Looked(me'[q], rows', fee', announce')
    <2> SUFFICES ASSUME NEW q \in Procs PROVE Looked(me'[q], rows', fee', announce')
      OBVIOUS
    <2>1. Looked(m[q], rows, fee, announce)
      BY <1>1, SettledLooked DEF Inv, LookedAt
    <2>2. Looked(me'[q], rows, fee, announce)
      BY <1>1, <1>2, <2>1, NamedIs
    <2>3. me'[q].round = 2 => x \in me'[q].since
      BY <1>1, <1>2, NamedIs
    <2> QED BY <2>2, <2>3 DEF Looked, NoNameBut
  <1>5. \A s \in Sends : SendOk(me'[s], fee', over' \cup met')
    <2> SUFFICES ASSUME NEW s \in Sends PROVE SendOk(me'[s], fee', over' \cup met')
      OBVIOUS
    <2>1. s \in Procs
      BY DEF Procs
    <2>2. SendOk(m[s], fee', over' \cup met')
      <3>1. CASE s = p
        BY <1>1, <3>1
      <3>2. CASE s # p
        <4>1. m[s] = me[s] /\ SendOk(me[s], fee, over \cup met)
          BY <1>1, <2>1, <3>2 DEF Inv, LedgerOk
        <4> QED BY <4>1, SendOkKept
      <3> QED BY <3>1, <3>2
    <2> QED BY <1>1, <1>2, <2>1, <2>2, NamedIs
  <1>6. LookedAt' BY <1>4 DEF LookedAt
  <1>7. LedgerOk' BY <1>5 DEF LedgerOk, LedgerKept
  <1>8. FeesOK' BY DEF LedgerKept
  <1> QED BY <1>3, <1>6, <1>7, <1>8 DEF Inv

\* A fee recorded or ended is over.
LEMMA FeeOver ==
    ASSUME Inv, fee' \in {NoFee, Ended}, over' = over \cup ({fee.etag} \ {Gone}), met' = met
    PROVE  LedgerKept /\ fee'.state # "owed"
  <1>1. /\ fee \in Fee /\ FeeOk(fee, over) /\ over \subseteq Etags /\ met \subseteq Etags
    BY DEF Inv, FeesOK, LedgerOk
  <1>2. NoFee \in Fee
    <2>1. 0 \in 0 .. Ceiling - 1 BY CeilingPositive
    <2> QED BY <2>1 DEF NoFee, Fee
  <1>3. CASE fee.state = "none"
    <2>1. fee = NoFee /\ fee' = NoFee /\ over' = over
      BY <1>1, <1>3 DEF FeeOk, NoFee, Ended
    <2> QED BY <1>1, <1>2, <2>1 DEF LedgerKept, FeesOK, FeeOk, NoFee, Owing
  <1>4. CASE fee.state # "none"
    <2>1. fee.etag \in Etags /\ fee.etag \in over'
      BY <1>1, <1>4, GoneIsNoEtag DEF FeeOk
    <2>2. over' \subseteq Etags
      BY <1>1, <2>1
    <2>3. CASE fee' = NoFee
      BY <1>1, <1>2, <2>1, <2>2, <2>3 DEF LedgerKept, FeesOK, FeeOk, NoFee, Owing
    <2>4. CASE fee' = Ended
      <3>1. fee' \in Fee /\ fee'.state = "ended" /\ fee'.etag = fee.etag
        BY <1>1, <1>4, <2>4 DEF Ended, Fee
      <3> QED BY <1>1, <2>1, <2>2, <3>1 DEF LedgerKept, FeesOK, FeeOk, Owing
    <2> QED BY <2>3, <2>4
  <1> QED BY <1>3, <1>4

\* One process moves on, and what names the key and the ledger stay.
LEMMA PlainKeeps ==
    ASSUME Inv, TablesOK', UNCHANGED <<rows, fee, announce, over, met>>,
           NEW p \in Procs, NEW l \in Process, me' = [me EXCEPT ![p] = l],
           Looked(l, rows, fee, announce),
           p \in Sends => SendOk(l, fee, over \cup met)
    PROVE  Inv'
  <1>1. LedgerKept /\ NoNewName
    BY LedgerSame DEF Inv, NoNewName
  <1>2. Looked(l, rows', fee', announce') /\ (p \in Sends => SendOk(l, fee', over' \cup met'))
    OBVIOUS
  <1> QED BY <1>1, <1>2, MoveKeeps

\* A step that only reads.
LEMMA ReadKeeps ==
    ASSUME Inv, UNCHANGED <<setting, object, early, tables, rest>>,
           NEW p \in Procs, NEW l \in Process, me' = [me EXCEPT ![p] = l],
           Looked(l, rows, fee, announce),
           p \in Sends => SendOk(l, fee, over \cup met)
    PROVE  Inv'
  <1>1. UNCHANGED <<rows, fee, announce, over, met>>
    BY DEF tables, rest, history
  <1>2. TablesOK'
    BY DEF Inv, TablesOK, tables, rest
  <1> QED BY <1>1, <1>2, PlainKeeps

\* What Inv says of one process.
LEMMA Mine ==
    ASSUME Inv, NEW p \in Procs
    PROVE  /\ me[p] \in Process /\ Looked(me[p], rows, fee, announce)
           /\ p \in Sends => SendOk(me[p], fee, over \cup met)
  BY DEF Inv, Processes, LookedAt, LedgerOk

\* Going to a step changes nothing else of a process.
LEMMA GoesIs ==
    ASSUME Inv, NEW p \in Procs, NEW at \in Steps, Goes(p, at)
    PROVE  me' = [me EXCEPT ![p] = [me[p] EXCEPT !.at = at]] /\ [me[p] EXCEPT !.at = at] \in Process
  BY Mine, AtType DEF Goes

\* Its other locals.
LEMMA AtFields ==
    ASSUME NEW l \in Process, NEW at
    PROVE  /\ [l EXCEPT !.at = at].at = at
           /\ [l EXCEPT !.at = at].then = l.then /\ [l EXCEPT !.at = at].told = l.told
           /\ [l EXCEPT !.at = at].etag = l.etag /\ [l EXCEPT !.at = at].round = l.round
           /\ [l EXCEPT !.at = at].since = l.since /\ [l EXCEPT !.at = at].kept = l.kept
  BY ProcessIs

\* Steps past the answer about the fee rely on nothing new.
LEMMA AtOk ==
    ASSUME NEW l \in Process, NEW at, at \notin Asking, NEW f, NEW o, SendOk(l, f, o)
    PROVE  SendOk([l EXCEPT !.at = at], f, o)
  BY AtFields DEF SendOk, Asking

\* A reclaim begins with no look, and remembers what to return to.
LEMMA ReclaimingFields ==
    ASSUME NEW l \in Process, NEW then
    PROVE  /\ Reclaiming(l, then).at = "claim" /\ Reclaiming(l, then).then = then
           /\ Reclaiming(l, then).told = l.told /\ Reclaiming(l, then).etag = l.etag
           /\ Settled(Reclaiming(l, then))
  BY ProcessIs DEF Reclaiming, Settled

\* A send that begins a reclaim was told what it was told.
LEMMA ReclaimingOk ==
    ASSUME NEW l \in Process, NEW then \in SendThens, NEW f, NEW o, SendOk(l, f, o)
    PROVE  SendOk(Reclaiming(l, then), f, o)
  BY ReclaimingFields DEF SendOk, Asking

\* A reclaim that ends has only its claim to give up.
LEMMA FinishedFields ==
    ASSUME NEW l \in Process
    PROVE  /\ Finished(l).at = "unclaim" /\ Finished(l).then = l.then
           /\ Finished(l).told = l.told /\ Finished(l).etag = l.etag
           /\ Settled(Finished(l))
  BY ProcessIs DEF Finished, Settled

\* A send whose reclaim ends was told what it was told.
LEMMA FinishedOk ==
    ASSUME NEW l \in Process, NEW f, NEW o, SendOk(l, f, o)
    PROVE  SendOk(Finished(l), f, o)
  BY FinishedFields DEF SendOk, Asking

\* The answer about the fee: of a deferred one, what the ledger holds.
LEMMA AfterFeeOk ==
    ASSUME NEW l \in Process, NEW told \in {"recorded", "deferred", "ended"}, NEW f, NEW o,
           l.then \in SendThens, told = "deferred" => Owing(f, o, l.etag)
    PROVE  SendOk(AfterFee(l, told), f, o) /\ Settled(AfterFee(l, told))
  <1> DEFINE kept == l.kept \/ told = "deferred"
             on == [l EXCEPT !.told = told, !.kept = kept, !.at = "insert"]
  <1>1. kept \in BOOLEAN /\ "insert" \in Steps
    BY ProcessIs, StepsAre
  <1>2. on \in Process /\ on.then = l.then /\ on.told = told /\ on.etag = l.etag /\ on.at = "insert"
    <2> HIDE DEF kept
    <2> QED BY <1>1, ProcessIs
  <1>3. AfterFee(l, told) = IF Spooled /\ ~kept THEN Reclaiming(on, "insert") ELSE on
    BY DEF AfterFee
  <1> HIDE DEF on, kept
  <1>4. SendOk(on, f, o) /\ Settled(on)
    BY <1>2 DEF SendOk, Settled, Asking
  <1>5. SendOk(Reclaiming(on, "insert"), f, o) /\ Settled(Reclaiming(on, "insert"))
    BY <1>2, <1>4, ReclaimingOk, ReclaimingFields DEF SendThens
  <1> QED BY <1>3, <1>4, <1>5

\* A process at the start of a step relies on nothing.
LEMMA LocalSettled ==
    ASSUME NEW at \in Steps, at \notin {"fees", "announces", "restamp", "clear"}
    PROVE  Settled(Local(at))
  BY DEF Local, Settled

-----------------------------------------------------------------------------
(* Reclaims *)

\* The claim of a reclaim keeps the invariant.
LEMMA ClaimKeeps ==
    ASSUME Inv, NEW p \in Procs, Claim(p)
    PROVE  Inv'
  <1> DEFINE l == [me[p] EXCEPT !.at = "rows"]
  <1>1. "rows" \in Steps /\ "rows" \notin Asking
    BY StepsAre DEF Asking
  <1>2. me' = [me EXCEPT ![p] = l] /\ l \in Process
    BY <1>1, GoesIs DEF Claim
  <1>3. p \in Sends => SendOk(l, fee, over \cup met)
    BY <1>1, Mine, AtOk
  <1>4. Settled(l)
    BY Mine, AtFields DEF Settled
  <1>5. UNCHANGED <<rows, fee, announce, over, met>> /\ TablesOK'
    BY DEF Claim, Inv, TablesOK, rest, history
  <1> HIDE DEF l
  <1> QED BY <1>2, <1>3, <1>4, <1>5, SettledLooked, PlainKeeps

\* Each table looked at names nothing, or the look is over; in a second look
\* what comes to name the key later is younger (NameKeeps).
LEMMA LookKeeps ==
    ASSUME Inv, NEW p \in Procs, Look(p)
    PROVE  Inv'
  <1> DEFINE k == me[p]
             next == CASE k.at = "rows" -> "fees"
                       [] k.at = "fees" -> "announces"
                       [] k.at = "announces" /\ k.round = 1 -> "stamp"
                       [] k.at = "announces" /\ k.round = 2 -> "restamp"
             seen == CASE k.at = "rows" -> \E s \in Sends : rows[s] = "names"
                       [] k.at = "fees" -> fee.state = "owed"
                       [] k.at = "announces" -> announce # Gone
             l == IF seen THEN Finished(k) ELSE [k EXCEPT !.at = next]
  <1>1. /\ k \in Process /\ Looked(k, rows, fee, announce)
        /\ p \in Sends => SendOk(k, fee, over \cup met)
        /\ k.at \in {"rows", "fees", "announces"} /\ k.round \in {1, 2}
    <2>1. k \in Process
      BY Mine
    <2>2. k.round \in {1, 2}
      BY <2>1, ProcessIs
    <2> QED BY <2>2, Mine DEF Look
  <1>2. me' = [me EXCEPT ![p] = l] /\ UNCHANGED <<setting, object, early, tables, rest>>
    BY DEF Look
  <1>3. next \in {"fees", "announces", "stamp", "restamp"}
    BY <1>1
  <1>4. ~seen => Looked([k EXCEPT !.at = next], rows, fee, announce)
    <2> DEFINE n == [k EXCEPT !.at = next]
    <2>1. n.at = next /\ n.round = k.round /\ n.since = k.since
      BY <1>1, AtFields
    <2> HIDE DEF n
    <2> SUFFICES ASSUME ~seen PROVE Looked(n, rows, fee, announce)
      BY DEF n
    <2>2. CASE k.at = "rows"
      <3>1. next = "fees" /\ ~\E s \in Sends : rows[s] = "names"
        BY <2>2
      <3> QED BY <2>1, <3>1 DEF Looked
    <2>3. CASE k.at = "fees"
      <3>1. next = "announces" /\ fee.state # "owed"
        BY <2>3
      <3> QED BY <1>1, <2>1, <2>3, <3>1 DEF Looked
    <2>4. CASE k.at = "announces"
      <3>1. announce = Gone /\ next = IF k.round = 1 THEN "stamp" ELSE "restamp"
        BY <1>1, <2>4
      <3> QED BY <1>1, <2>1, <2>4, <3>1 DEF Looked
    <2> QED BY <1>1, <2>2, <2>3, <2>4
  <1> HIDE DEF k, next, seen
  <1>5. l \in Process
    BY <1>1, <1>3, FinishedType, AtType, StepsAre
  <1>6. Looked(l, rows, fee, announce)
    BY <1>1, <1>4, FinishedFields, SettledLooked
  <1>7. p \in Sends => SendOk(l, fee, over \cup met)
    BY <1>1, <1>3, FinishedOk, AtOk DEF Asking
  <1> HIDE DEF l
  <1> QED BY <1>2, <1>5, <1>6, <1>7, ReadKeeps

\* The first stamp: the second look begins, and nothing is older than it.
LEMMA StampKeeps ==
    ASSUME Inv, NEW p \in Procs, Stamp(p)
    PROVE  Inv'
  <1> DEFINE k == me[p]
             n == [k EXCEPT !.at = "rows", !.round = 2, !.looked = object]
             l == IF object = Gone THEN Finished(k) ELSE n
  <1>2. me' = [me EXCEPT ![p] = l] /\ UNCHANGED <<setting, object, early, tables, rest>>
    BY DEF Stamp
  <1>3. k \in Process /\ object \in Etags \cup {Gone} /\ "rows" \in Steps /\ 2 \in 1 .. 2
    BY Mine, StepsAre DEF Inv, TablesOK
  <1> HIDE DEF k
  <1>4. n \in Process /\ n.at = "rows" /\ n.then = k.then /\ n.told = k.told /\ n.etag = k.etag
    BY <1>3, ProcessIs
  <1> HIDE DEF n
  <1>5. l \in Process /\ Settled(l)
    BY <1>3, <1>4, FinishedType, FinishedFields DEF Settled
  <1>6. p \in Sends => SendOk(l, fee, over \cup met)
    <2> SUFFICES ASSUME p \in Sends PROVE SendOk(l, fee, over \cup met)
      OBVIOUS
    <2>1. SendOk(k, fee, over \cup met)
      BY Mine DEF k
    <2>2. SendOk(n, fee, over \cup met)
      BY <1>4, <2>1 DEF SendOk, Asking
    <2> QED BY <1>3, <2>1, <2>2, FinishedOk
  <1> HIDE DEF l
  <1> QED BY <1>2, <1>5, <1>6, SettledLooked, ReadKeeps

\* The second stamp goes on to the delete only if the bytes are the same.
LEMMA RestampKeeps ==
    ASSUME Inv, NEW p \in Procs, Restamp(p)
    PROVE  Inv'
  <1> DEFINE k == me[p]
             n == [k EXCEPT !.at = "clear"]
             l == IF object # k.looked THEN Finished(k) ELSE n
  <1>1. /\ k \in Process /\ Looked(k, rows, fee, announce) /\ k.at = "restamp"
        /\ p \in Sends => SendOk(k, fee, over \cup met)
    BY Mine DEF Restamp, At
  <1>2. me' = [me EXCEPT ![p] = l] /\ UNCHANGED <<setting, object, early, tables, rest>>
    BY DEF Restamp
  <1> HIDE DEF k
  <1>3. "clear" \in Steps /\ "clear" \notin Asking
    BY StepsAre DEF Asking
  <1>4. n \in Process /\ (p \in Sends => SendOk(n, fee, over \cup met))
    BY <1>1, <1>3, AtType, AtOk
  <1>5. Looked(n, rows, fee, announce)
    <2>1. n.at = "clear" /\ n.round = k.round /\ n.since = k.since
      BY <1>1, AtFields
    <2> QED BY <1>1, <2>1 DEF Looked
  <1> HIDE DEF n
  <1>6. /\ l \in Process /\ Looked(l, rows, fee, announce)
        /\ p \in Sends => SendOk(l, fee, over \cup met)
    BY <1>1, <1>4, <1>5, FinishedType, FinishedOk, FinishedFields, SettledLooked
  <1> HIDE DEF l
  <1> QED BY <1>2, <1>6, ReadKeeps

\* The delete takes the object and no name.
LEMMA ClearKeeps ==
    ASSUME Inv, NEW p \in Procs, Clear(p)
    PROVE  Inv'
  <1> DEFINE l == Finished(me[p])
  <1>1. me' = [me EXCEPT ![p] = l]
    BY DEF Clear
  <1>2. l \in Process /\ Settled(l) /\ (p \in Sends => SendOk(l, fee, over \cup met))
    BY Mine, FinishedType, FinishedFields, FinishedOk
  <1>3. UNCHANGED <<rows, fee, announce, over, met>> /\ TablesOK'
    BY DEF Clear, Inv, TablesOK, tables, rest, history
  <1> HIDE DEF l
  <1> QED BY <1>1, <1>2, <1>3, SettledLooked, PlainKeeps

\* Where a send's reclaim goes on after an error is where it goes on.
LEMMA ReclaimFailsKeeps ==
    ASSUME Inv, NEW p \in Procs, ReclaimFails(p)
    PROVE  Inv'
  <1> DEFINE k == me[p]
             then == AfterError(k.then)
             n == [k EXCEPT !.at = then, !.then = "done"]
             m == [Finished(k) EXCEPT !.then = then]
             l == IF At(p, "claim") THEN n ELSE m
  <1>1. k \in Process /\ (p \in Sends => SendOk(k, fee, over \cup met))
    BY Mine
  <1>2. me' = [me EXCEPT ![p] = l]
    BY DEF ReclaimFails
  <1>3. UNCHANGED <<rows, fee, announce, over, met>> /\ TablesOK'
    BY DEF ReclaimFails, Inv, TablesOK, rest, history, At
  <1> HIDE DEF k
  <1>4. then \in Thens /\ (p \in Sends => then \in SendThens)
    <2>1. k.then \in Thens
      BY <1>1, ProcessIs
    <2>2. k.then \in SendThens => then \in SendThens
      BY DEF AfterError, SendThens
    <2> QED BY <1>1, <2>1, <2>2, AfterErrorType DEF SendOk
  <1> HIDE DEF then
  <1>5. /\ n \in Process /\ n.at = then /\ n.then = "done" /\ n.told = k.told /\ n.etag = k.etag
        /\ m \in Process /\ m.at = "unclaim" /\ m.then = then /\ m.told = k.told
        /\ m.etag = k.etag
    <2>1. then \in Steps /\ "done" \in Thens
      BY <1>4, StepsAre
    <2>2. Finished(k) \in Process
      BY <1>1, FinishedType
    <2> QED BY <1>1, <1>4, <2>1, <2>2, ProcessIs, FinishedFields
  <1> HIDE DEF n, m
  <1>6. l \in Process /\ Settled(l)
    BY <1>4, <1>5, StepsAre DEF Settled
  <1>7. p \in Sends => SendOk(l, fee, over \cup met)
    BY <1>1, <1>4, <1>5 DEF SendOk, SendThens, Asking
  <1> HIDE DEF l
  <1> QED BY <1>2, <1>3, <1>6, <1>7, SettledLooked, PlainKeeps

\* The claim is given up and the process goes on where it was.
LEMMA UnclaimKeeps ==
    ASSUME Inv, NEW p \in Procs, Unclaim(p)
    PROVE  Inv'
  <1> DEFINE k == me[p]
             l == [k EXCEPT !.at = k.then, !.then = "done"]
  <1>1. k \in Process /\ (p \in Sends => SendOk(k, fee, over \cup met))
    BY Mine
  <1>2. me' = [me EXCEPT ![p] = l]
    BY DEF Unclaim, Inv, Processes
  <1>3. UNCHANGED <<rows, fee, announce, over, met>> /\ TablesOK'
    BY DEF Unclaim, Inv, TablesOK, rest, history
  <1> HIDE DEF k
  <1>4. k.then \in Thens /\ k.then \in Steps /\ "done" \in Thens
    BY <1>1, StepsAre, ProcessIs
  <1>5. l \in Process /\ l.at = k.then /\ l.then = "done" /\ l.told = k.told /\ l.etag = k.etag
    BY <1>1, <1>4, ProcessIs
  <1> HIDE DEF l
  <1>6. Settled(l)
    BY <1>4, <1>5, StepsAre DEF Settled
  <1>7. p \in Sends => SendOk(l, fee, over \cup met)
    BY <1>1, <1>4, <1>5 DEF SendOk, SendThens, Asking
  <1> QED BY <1>2, <1>3, <1>5, <1>6, <1>7, SettledLooked, PlainKeeps

\* Every step of a reclaim.
LEMMA ReclaimKeeps ==
    ASSUME Inv, NEW p \in Procs, Reclaim(p)
    PROVE  Inv'
  BY ClaimKeeps, LookKeeps, StampKeeps, RestampKeeps, ClearKeeps, ReclaimFailsKeeps, UnclaimKeeps
     DEF Reclaim

-----------------------------------------------------------------------------
(* Sends *)

\* Before the answer about its fee a send has been told nothing.
LEMMA Untold ==
    ASSUME Inv, NEW s \in Sends, me[s].at \in Asking
    PROVE  me[s].told = "none"
  BY Mine DEF Procs, SendOk

\* A send goes on, to a step that relies on no more than it knows.
LEMMA SendGoes ==
    ASSUME Inv, TablesOK', UNCHANGED <<rows, fee, announce, over, met>>,
           NEW s \in Sends, NEW at \in Steps, Goes(s, at),
           at \notin {"fees", "announces", "restamp", "clear", "word"},
           at \in Asking => me[s].at \in Asking,
           at \in {"announcing", "internalize", "defer", "endFee"} => me[s].etag \in Etags
    PROVE  Inv'
  <1> DEFINE l == [me[s] EXCEPT !.at = at]
  <1>1. s \in Procs
    BY DEF Procs
  <1>2. me' = [me EXCEPT ![s] = l] /\ l \in Process
    BY <1>1, GoesIs
  <1>3. me[s] \in Process /\ SendOk(me[s], fee, over \cup met)
    BY <1>1, Mine
  <1>4. l.at = at /\ l.then = me[s].then /\ l.told = me[s].told /\ l.etag = me[s].etag
    BY <1>3, AtFields
  <1> HIDE DEF l
  <1>5. Settled(l)
    BY <1>4 DEF Settled
  <1>6. SendOk(l, fee, over \cup met)
    BY <1>3, <1>4, Untold DEF SendOk
  <1> QED BY <1>1, <1>2, <1>5, <1>6, SettledLooked, PlainKeeps

\* What the steps that only read leave alone.
LEMMA ReadOnly ==
    ASSUME Inv, UNCHANGED <<setting, object, early, tables, rest>>
    PROVE  TablesOK' /\ UNCHANGED <<rows, fee, announce, over, met>>
  BY DEF Inv, TablesOK, tables, rest, history

\* A send arrives.
LEMMA ArriveKeeps ==
    ASSUME Inv, NEW s \in Sends, Arrive(s)
    PROVE  Inv'
  <1>1. PICK at \in {"door", "handoff", "mint"} : Goes(s, at)
    BY DEF Arrive
  <1>2. at \in Steps /\ at \in Asking /\ me[s].at \in Asking
    BY StepsAre DEF Arrive, At, Asking
  <1>3. TablesOK' /\ UNCHANGED <<rows, fee, announce, over, met>>
    BY ReadOnly DEF Arrive
  <1> QED BY <1>1, <1>2, <1>3, SendGoes

\* A spool's minted record is written before its bytes.
LEMMA MintKeeps ==
    ASSUME Inv, NEW s \in Sends, Mint(s)
    PROVE  Inv'
  <1> DEFINE k == me[s]
             l == [k EXCEPT !.at = "spool", !.minter = ~minted]
  <1>1. s \in Procs /\ k \in Process /\ SendOk(k, fee, over \cup met) /\ k.at = "mint"
    BY Mine DEF Procs, Mint, At
  <1>2. me' = [me EXCEPT ![s] = l]
    BY DEF Mint, Inv, Processes
  <1>3. UNCHANGED <<rows, fee, announce, over, met>> /\ TablesOK'
    BY DEF Mint, Inv, TablesOK, rest, history
  <1> HIDE DEF k
  <1>4. l \in Process /\ l.at = "spool" /\ l.then = k.then /\ l.told = k.told /\ l.etag = k.etag
    <2>1. "spool" \in Steps /\ (~minted) \in BOOLEAN
      BY StepsAre DEF Inv, TablesOK
    <2> QED BY <1>1, <2>1, ProcessIs
  <1> HIDE DEF l
  <1>5. Settled(l) /\ SendOk(l, fee, over \cup met)
    BY <1>1, <1>4 DEF Settled, SendOk, Asking
  <1> QED BY <1>1, <1>2, <1>3, <1>4, <1>5, SettledLooked, PlainKeeps

\* The spool of an inline payment.
LEMMA SpoolKeeps ==
    ASSUME Inv, NEW s \in Sends, Spool(s)
    PROVE  Inv'
  <1>1. "door" \in Steps /\ "door" \in Asking /\ me[s].at \in Asking /\ Goes(s, "door")
    BY StepsAre DEF Spool, At, Asking
  <1>2. TablesOK' /\ UNCHANGED <<rows, fee, announce, over, met>>
    BY SpoolIsOne DEF Spool, Inv, TablesOK, tables, rest, history
  <1> QED BY <1>1, <1>2, SendGoes

\* A send refused reclaims what it spooled, or ends.
LEMMA RefusedKeeps ==
    ASSUME Inv, NEW s \in Sends, me' = [me EXCEPT ![s] = Refused(me[s])],
           UNCHANGED <<setting, object, early, tables, rest>>
    PROVE  Inv'
  <1> DEFINE l == Refused(me[s])
  <1>1. s \in Procs /\ me[s] \in Process /\ SendOk(me[s], fee, over \cup met)
    BY Mine DEF Procs
  <1>2. "done" \in Steps /\ "done" \in Thens /\ "done" \in SendThens /\ "done" \notin Asking
    BY StepsAre DEF SendThens, Asking
  <1>3. l \in Process /\ Settled(l)
    BY <1>1, <1>2, ReclaimingType, ReclaimingFields, AtType, AtFields DEF Refused, Settled
  <1>4. SendOk(l, fee, over \cup met)
    BY <1>1, <1>2, ReclaimingOk, AtOk DEF Refused
  <1> HIDE DEF l
  <1>5. me' = [me EXCEPT ![s] = l]
    BY DEF l
  <1> QED BY <1>1, <1>3, <1>4, <1>5, SettledLooked, ReadKeeps

\* A send that ends.
LEMMA DoneKeeps ==
    ASSUME Inv, NEW s \in Sends, Goes(s, "done"), UNCHANGED <<setting, object, early, tables, rest>>
    PROVE  Inv'
  <1>1. "done" \in Steps /\ "done" \notin Asking
    BY StepsAre DEF Asking
  <1>2. TablesOK' /\ UNCHANGED <<rows, fee, announce, over, met>>
    BY ReadOnly
  <1> QED BY <1>1, <1>2, SendGoes

\* The door judges, with any word.
LEMMA DoorKeeps ==
    ASSUME Inv, NEW s \in Sends, Door(s)
    PROVE  Inv'
  <1>1. UNCHANGED <<setting, object, early, tables, rest>>
    BY DEF Door
  <1>2. CASE object # Gone /\ me' = [me EXCEPT ![s].at = "handoff", ![s].etag = object]
    <2> DEFINE k == me[s]
               l == [k EXCEPT !.at = "handoff", !.etag = object]
    <2>1. s \in Procs /\ k \in Process /\ SendOk(k, fee, over \cup met) /\ k.at = "door"
      BY Mine DEF Procs, Door, At
    <2>2. me' = [me EXCEPT ![s] = l]
      BY <1>2 DEF Inv, Processes
    <2> HIDE DEF k
    <2>3. l \in Process /\ l.at = "handoff" /\ l.then = k.then /\ l.told = k.told
      <3>1. "handoff" \in Steps /\ object \in Etags \cup {Gone}
        BY StepsAre DEF Inv, TablesOK
      <3> QED BY <2>1, <3>1, ProcessIs
    <2> HIDE DEF l
    <2>4. Settled(l) /\ SendOk(l, fee, over \cup met)
      BY <2>1, <2>3 DEF Settled, SendOk, Asking
    <2> QED BY <1>1, <2>1, <2>2, <2>3, <2>4, SettledLooked, ReadKeeps
  <1>3. CASE me' = [me EXCEPT ![s] = Refused(me[s])]
    BY <1>1, <1>3, RefusedKeeps
  <1>4. CASE Goes(s, "done")
    BY <1>1, <1>4, DoneKeeps
  <1> QED BY <1>2, <1>3, <1>4 DEF Door

\* The hand-off takes the bytes at the key, and goes by their etag.
LEMMA HandOffKeeps ==
    ASSUME Inv, NEW s \in Sends, HandOff(s)
    PROVE  Inv'
  <1> DEFINE k == me[s]
             at == IF s \in FeeSends THEN "announcing" ELSE "insert"
             kept == s \in RowSends
             l == [k EXCEPT !.at = at, !.etag = object, !.kept = kept]
  <1>1. UNCHANGED <<setting, object, early, tables, rest>>
    BY DEF HandOff
  <1>2. CASE Goes(s, "done")
    BY <1>1, <1>2, DoneKeeps
  <1>3. CASE ~Goes(s, "done")
    <2>1. object # Gone /\ me' = [me EXCEPT ![s].at = at, ![s].etag = object, ![s].kept = kept]
      BY <1>3 DEF HandOff
    <2>2. s \in Procs /\ k \in Process /\ SendOk(k, fee, over \cup met) /\ k.at = "handoff"
      BY Mine DEF Procs, HandOff, At
    <2>3. at \in {"announcing", "insert"} /\ kept \in BOOLEAN /\ object \in Etags
      BY <2>1 DEF Inv, TablesOK
    <2> HIDE DEF at, kept
    <2>4. me' = [me EXCEPT ![s] = l]
      BY <2>1 DEF Inv, Processes
    <2> HIDE DEF k
    <2>5. l \in Process /\ l.at = at /\ l.then = k.then /\ l.told = k.told /\ l.etag = object
      <3>1. at \in Steps
        BY <2>3, StepsAre
      <3> QED BY <2>2, <2>3, <3>1, ProcessIs
    <2> HIDE DEF l
    <2>6. Settled(l) /\ SendOk(l, fee, over \cup met)
      BY <2>2, <2>3, <2>5 DEF Settled, SendOk, Asking
    <2> QED BY <1>1, <2>2, <2>4, <2>5, <2>6, SettledLooked, ReadKeeps
  <1> QED BY <1>2, <1>3

\* An announcement the service took.
LEMMA AnnounceTakenKeeps ==
    ASSUME Inv, NEW s \in Sends, AnnounceTaken(s)
    PROVE  Inv'
  <1>1. "internalize" \in Steps /\ "internalize" \in Asking /\ me[s].at \in Asking
    BY StepsAre DEF AnnounceTaken, At, Asking
  <1>2. me[s].etag \in Etags /\ Goes(s, "internalize")
    BY Mine DEF AnnounceTaken, At, Procs, SendOk
  <1>3. TablesOK' /\ UNCHANGED <<rows, fee, announce, over, met>>
    BY ReadOnly DEF AnnounceTaken
  <1> QED BY <1>1, <1>2, <1>3, SendGoes

\* An announcement owed names the key from now on.
LEMMA OweAnnounceKeeps ==
    ASSUME Inv, NEW s \in Sends, OweAnnounce(s)
    PROVE  Inv'
  <1> DEFINE k == me[s]
             l == [k EXCEPT !.at = "internalize", !.kept = TRUE]
  <1>1. s \in Procs /\ k \in Process /\ SendOk(k, fee, over \cup met) /\ k.at = "announcing"
    BY Mine DEF Procs, OweAnnounce, At
  <1>2. me' = Named([me EXCEPT ![s] = l], "announce")
    <2>1. [me EXCEPT ![s].at = "internalize", ![s].kept = TRUE] = [me EXCEPT ![s] = l]
      BY DEF Inv, Processes
    <2> QED BY <2>1 DEF OweAnnounce
  <1>3. k.etag \in Etags
    BY <1>1 DEF SendOk
  <1>4. UNCHANGED <<rows, fee, over, met>> /\ TablesOK'
    BY <1>3 DEF OweAnnounce, Inv, TablesOK, rest, history
  <1> HIDE DEF k
  <1>5. l \in Process /\ l.at = "internalize" /\ l.then = k.then /\ l.told = k.told
        /\ l.etag = k.etag
    <2>1. "internalize" \in Steps
      BY StepsAre
    <2> QED BY <1>1, <2>1, ProcessIs
  <1> HIDE DEF l
  <1>6. Settled(l) /\ SendOk(l, fee, over \cup met)
    BY <1>1, <1>3, <1>5 DEF Settled, SendOk, Asking
  <1>7. LedgerKept /\ NoNameBut("announce")
    BY <1>4, LedgerSame DEF Inv, NoNameBut
  <1>8. SendOk(l, fee', over' \cup met')
    BY <1>4, <1>6
  <1> QED BY <1>1, <1>2, <1>4, <1>5, <1>6, <1>7, <1>8, NameKeeps

\* wallet-infra answers anything.
LEMMA InternalizeKeeps ==
    ASSUME Inv, NEW s \in Sends, Internalize(s)
    PROVE  Inv'
  <1>1. UNCHANGED <<setting, object, early, tables, rest>>
    BY DEF Internalize
  <1>2. /\ s \in Procs /\ me[s] \in Process /\ SendOk(me[s], fee, over \cup met)
        /\ me[s].at = "internalize"
    BY Mine DEF Procs, Internalize, At
  <1>3. CASE me' = [me EXCEPT ![s] = AfterFee(me[s], "recorded")]
    <2> DEFINE l == AfterFee(me[s], "recorded")
    <2>1. l \in Process /\ SendOk(l, fee, over \cup met) /\ Settled(l)
      BY <1>2, AfterFeeType, AfterFeeOk DEF SendOk
    <2>2. me' = [me EXCEPT ![s] = l]
      BY <1>3
    <2> HIDE DEF l
    <2> QED BY <1>1, <1>2, <2>1, <2>2, SettledLooked, ReadKeeps
  <1>4. CASE me' = [me EXCEPT ![s] = Refused(me[s])]
    BY <1>1, <1>4, RefusedKeeps
  <1>5. CASE Goes(s, "defer")
    <2>1. "defer" \in Steps /\ me[s].at \in Asking /\ me[s].etag \in Etags
      BY <1>2, StepsAre DEF Asking, SendOk
    <2>2. TablesOK' /\ UNCHANGED <<rows, fee, announce, over, met>>
      BY <1>1, ReadOnly
    <2> QED BY <1>5, <2>1, <2>2, SendGoes
  <1> QED BY <1>3, <1>4, <1>5 DEF Internalize

\* The deferral is written, is there already, or met another upload's fee.
LEMMA DeferKeeps ==
    ASSUME Inv, NEW s \in Sends, Defer(s)
    PROVE  Inv'
  <1> DEFINE k == me[s]
             l == [k EXCEPT !.at = "word"]
  <1>1. s \in Procs /\ k \in Process /\ SendOk(k, fee, over \cup met) /\ k.at = "defer"
    BY Mine DEF Procs, Defer, At
  <1>2. me' = Named([me EXCEPT ![s] = l], "fee")
    <2>1. [me EXCEPT ![s].at = "word"] = [me EXCEPT ![s] = l]
      BY DEF Inv, Processes
    <2> QED BY <2>1 DEF Defer
  <1>3. k.etag \in Etags
    BY <1>1 DEF SendOk
  <1>4. /\ fee \in Fee /\ over \subseteq Etags /\ met \subseteq Etags /\ FeeOk(fee, over)
    BY DEF Inv, FeesOK, LedgerOk
  <1>5. UNCHANGED <<rows, announce, over>> /\ TablesOK'
    BY DEF Defer, Inv, TablesOK
  <1>6. fee' = IF fee = NoFee THEN [state |-> "owed", etag |-> k.etag, attempts |-> 0] ELSE fee
    BY DEF Defer
  <1>7. met' = IF fee = NoFee \/ fee.etag = k.etag THEN met ELSE met \cup {k.etag}
    BY DEF Defer
  <1> HIDE DEF k
  <1>8. l \in Process /\ l.at = "word" /\ l.then = k.then /\ l.told = k.told /\ l.etag = k.etag
    <2>1. "word" \in Steps
      BY StepsAre
    <2> QED BY <1>1, <2>1, AtType, AtFields
  <1> HIDE DEF l
  <1>9. /\ LedgerKept /\ Owing(fee', over' \cup met', k.etag) /\ NoNameBut("fee")
    <2>1. CASE fee = NoFee
      <3>1. fee'.state = "owed" /\ fee'.etag = k.etag /\ met' = met /\ fee.state = "none"
        BY <1>6, <1>7, <2>1 DEF NoFee
      <3>2. fee' \in Fee
        <4>1. 0 \in 0 .. Ceiling - 1 BY CeilingPositive
        <4> QED BY <1>3, <1>6, <2>1, <4>1 DEF Fee
      <3> QED BY <1>3, <1>4, <1>5, <3>1, <3>2
              DEF LedgerKept, FeesOK, FeeOk, Owing, NoNameBut
    <2>2. CASE fee # NoFee
      <3>1. fee' = fee /\ fee.state \in {"owed", "ended"}
        BY <1>4, <1>6, <2>2 DEF FeeOk, Fee
      <3>2. met \subseteq met' /\ met' \subseteq Etags /\ (fee.etag # k.etag => k.etag \in met')
        BY <1>3, <1>4, <1>7, <2>2
      <3>3. Owing(fee', over' \cup met', k.etag)
        BY <1>4, <1>5, <3>1, <3>2 DEF Owing, FeeOk
      <3> QED BY <1>4, <1>5, <3>1, <3>2, <3>3 DEF LedgerKept, FeesOK, Owing, NoNameBut
    <2> QED BY <2>1, <2>2
  <1>10. Settled(l) /\ SendOk(l, fee', over' \cup met')
    BY <1>1, <1>3, <1>8, <1>9 DEF Settled, SendOk, Asking
  <1> QED BY <1>1, <1>2, <1>5, <1>8, <1>9, <1>10, NameKeeps

\* The send reads the wallet's word on its deferred fee.
LEMMA ReadWordKeeps ==
    ASSUME Inv, NEW s \in Sends, ReadWord(s)
    PROVE  Inv'
  <1>1. UNCHANGED <<setting, object, early, tables, rest>>
    BY DEF ReadWord
  <1>2. /\ s \in Procs /\ me[s] \in Process /\ SendOk(me[s], fee, over \cup met)
        /\ me[s].at = "word"
    BY Mine DEF Procs, ReadWord, At
  <1>3. CASE Goes(s, "endFee")
    <2>1. "endFee" \in Steps /\ me[s].at \in Asking /\ me[s].etag \in Etags
      BY <1>2, StepsAre DEF Asking, SendOk
    <2>2. TablesOK' /\ UNCHANGED <<rows, fee, announce, over, met>>
      BY <1>1, ReadOnly
    <2> QED BY <1>3, <2>1, <2>2, SendGoes
  <1>4. CASE me' = [me EXCEPT ![s] = AfterFee(me[s], "deferred")]
    <2> DEFINE l == AfterFee(me[s], "deferred")
    <2>1. l \in Process /\ SendOk(l, fee, over \cup met) /\ Settled(l)
      BY <1>2, AfterFeeType, AfterFeeOk DEF SendOk
    <2>2. me' = [me EXCEPT ![s] = l]
      BY <1>4
    <2> HIDE DEF l
    <2> QED BY <1>1, <1>2, <2>1, <2>2, SettledLooked, ReadKeeps
  <1> QED BY <1>3, <1>4 DEF ReadWord

\* While the wallet's word stands, the fee just deferred ends, by key.
LEMMA EndFeeKeeps ==
    ASSUME Inv, NEW s \in Sends, EndFee(s)
    PROVE  Inv'
  <1> DEFINE l == AfterFee(me[s], "ended")
  <1>1. s \in Procs /\ me[s] \in Process /\ SendOk(me[s], fee, over \cup met)
    BY Mine DEF Procs
  <1>2. me' = [me EXCEPT ![s] = l]
    BY DEF EndFee
  <1>3. l \in Process /\ Settled(l) /\ SendOk(l, fee', over' \cup met')
    BY <1>1, AfterFeeType, AfterFeeOk DEF SendOk
  <1>4. LedgerKept /\ fee'.state # "owed"
    BY FeeOver DEF EndFee
  <1>5. TablesOK' /\ UNCHANGED <<rows, announce>>
    BY DEF EndFee, Inv, TablesOK
  <1>6. NoNewName
    BY <1>4, <1>5 DEF NoNewName
  <1> HIDE DEF l
  <1> QED BY <1>1, <1>2, <1>3, <1>4, <1>5, <1>6, SettledLooked, MoveKeeps

\* A hand-off whose store fails.
LEMMA HandOffFailsKeeps ==
    ASSUME Inv, NEW s \in Sends, HandOffFails(s)
    PROVE  Inv'
  BY DoneKeeps DEF HandOffFails

\* The message's row names the key from now on.
LEMMA InsertMessageKeeps ==
    ASSUME Inv, NEW s \in Sends, InsertMessage(s)
    PROVE  Inv'
  <1> DEFINE at == IF me[s].kept THEN "claimed" ELSE "forget"
             l == [me[s] EXCEPT !.at = at]
  <1>1. s \in Procs /\ me[s] \in Process /\ SendOk(me[s], fee, over \cup met)
    BY Mine DEF Procs
  <1>2. at \in Steps /\ at \notin Asking /\ at \in {"claimed", "forget"}
    BY StepsAre DEF Asking
  <1>3. me' = Named([me EXCEPT ![s] = l], s)
    <2>1. [me EXCEPT ![s].at = at] = [me EXCEPT ![s] = l]
      BY DEF Inv, Processes
    <2> QED BY <2>1 DEF InsertMessage
  <1> HIDE DEF at
  <1>4. l \in Process /\ Settled(l) /\ SendOk(l, fee, over \cup met)
    BY <1>1, <1>2, AtType, AtFields, AtOk DEF Settled
  <1>5. UNCHANGED <<fee, announce, over, met>> /\ TablesOK'
    BY DEF InsertMessage, Inv, TablesOK, rest, history
  <1>6. LedgerKept
    BY <1>5, LedgerSame DEF Inv
  <1>7. NoNameBut(s)
    BY <1>5 DEF NoNameBut, InsertMessage, Inv, TablesOK
  <1> HIDE DEF l
  <1>8. SendOk(l, fee', over' \cup met')
    BY <1>4, <1>5
  <1> QED BY <1>1, <1>3, <1>4, <1>5, <1>6, <1>7, <1>8, NameKeeps

\* An insert that fails, whether it landed or not.
LEMMA InsertFailsKeeps ==
    ASSUME Inv, NEW s \in Sends, InsertFails(s)
    PROVE  Inv'
  <1> DEFINE k == me[s]
             l == IF k.told # "deferred" /\ Spooled /\ k.kept
                  THEN Reclaiming(k, "failed") ELSE [k EXCEPT !.at = "failed"]
             after == [me EXCEPT ![s] = l]
  <1>1. s \in Procs /\ k \in Process /\ SendOk(k, fee, over \cup met)
    BY Mine DEF Procs
  <1>2. me' = IF rows' = rows THEN after ELSE Named(after, s)
    BY DEF InsertFails
  <1>3. l \in Process /\ Settled(l) /\ SendOk(l, fee, over \cup met)
    <2>1. "failed" \in Steps /\ "failed" \in Thens /\ "failed" \in SendThens
          /\ "failed" \notin Asking
      BY StepsAre DEF SendThens, Asking
    <2> QED BY <1>1, <2>1, ReclaimingType, ReclaimingFields, ReclaimingOk, AtType, AtFields, AtOk
            DEF Settled
  <1>4. UNCHANGED <<fee, announce, over, met>> /\ TablesOK'
    BY DEF InsertFails, Inv, TablesOK, rest, history
  <1> HIDE DEF l
  <1>5. CASE rows' = rows
    BY <1>1, <1>2, <1>3, <1>4, <1>5, SettledLooked, PlainKeeps
  <1>6. CASE rows' # rows
    <2>1. NoNameBut(s)
      BY <1>4 DEF NoNameBut, InsertFails, Inv, TablesOK
    <2>2. LedgerKept
      BY <1>4, LedgerSame DEF Inv
    <2>3. SendOk(l, fee', over' \cup met')
      BY <1>3, <1>4
    <2>4. me' = Named([me EXCEPT ![s] = l], s)
      BY <1>2, <1>6
    <2> QED BY <1>1, <1>3, <1>4, <2>1, <2>2, <2>3, <2>4, NameKeeps
  <1> QED BY <1>5, <1>6

\* The reads of the claim and of the bytes, for the log only.
LEMMA OrphanKeeps ==
    ASSUME Inv, NEW s \in Sends, ReadClaim(s) \/ ReadBytes(s) \/ OrphanReadFails(s)
    PROVE  Inv'
  <1>1. UNCHANGED <<setting, object, early, tables, rest>>
    BY DEF ReadClaim, ReadBytes, OrphanReadFails
  <1>2. TablesOK' /\ UNCHANGED <<rows, fee, announce, over, met>>
    BY <1>1, ReadOnly
  <1>3. PICK at \in {"bytes", "forget"} : Goes(s, at)
    BY DEF ReadClaim, ReadBytes, OrphanReadFails
  <1>4. at \in Steps /\ at \notin Asking
    BY StepsAre DEF Asking
  <1> QED BY <1>2, <1>3, <1>4, SendGoes

\* The end of a send that no row names.
LEMMA ForgetUnnamedKeeps ==
    ASSUME Inv, NEW s \in Sends, ForgetUnnamed(s)
    PROVE  Inv'
  <1> DEFINE k == me[s]
             l == IF s \in RowSends \/ k.told = "deferred" \/ (Spooled /\ ~k.kept)
                  THEN [k EXCEPT !.at = "done"] ELSE Reclaiming(k, "done")
  <1>1. s \in Procs /\ k \in Process /\ SendOk(k, fee, over \cup met)
    BY Mine DEF Procs
  <1>2. me' = [me EXCEPT ![s] = l] /\ UNCHANGED <<setting, object, early, tables, rest>>
    BY DEF ForgetUnnamed
  <1>3. l \in Process /\ Settled(l) /\ SendOk(l, fee, over \cup met)
    <2>1. "done" \in Steps /\ "done" \in Thens /\ "done" \in SendThens /\ "done" \notin Asking
      BY StepsAre DEF SendThens, Asking
    <2> QED BY <1>1, <2>1, ReclaimingType, ReclaimingFields, ReclaimingOk, AtType, AtFields, AtOk
            DEF Settled
  <1> HIDE DEF l
  <1> QED BY <1>1, <1>2, <1>3, SettledLooked, ReadKeeps

\* A row deleted or retired lets go of the key.
LEMMA LetGoKeeps ==
    ASSUME Inv, NEW s \in Sends, LetGo(s)
    PROVE  Inv'
  <1>1. TablesOK' /\ UNCHANGED <<fee, over, met, me>> /\ NoNewName
    BY DEF LetGo, Inv, TablesOK, rest, history, NoNewName
  <1> QED BY <1>1, StandKeeps

\* Every step of a send.
LEMMA SendKeeps ==
    ASSUME Inv, NEW s \in Sends, SendStep(s) \/ LetGo(s)
    PROVE  Inv'
  BY ArriveKeeps, MintKeeps, SpoolKeeps, DoorKeeps, HandOffKeeps, AnnounceTakenKeeps,
     OweAnnounceKeeps, InternalizeKeeps, DeferKeeps, ReadWordKeeps, EndFeeKeeps,
     HandOffFailsKeeps, InsertMessageKeeps, InsertFailsKeeps, OrphanKeeps, ForgetUnnamedKeeps,
     LetGoKeeps
     DEF SendStep

-----------------------------------------------------------------------------
(* Scheduled events *)

\* A scheduled event is no send: it goes on, and what is told stays.
LEMMA CronGoes ==
    ASSUME Inv, TablesOK', LedgerKept, NoNewName, NEW c \in Crons, NEW l \in Process,
           me' = [me EXCEPT ![c] = l], Settled(l)
    PROVE  Inv'
  <1>1. c \in Procs /\ c \notin Sends
    BY CronsAreNoSends DEF Procs
  <1> QED BY <1>1, SettledLooked, MoveKeeps

\* A scheduled event that writes nothing goes on.
LEMMA CronReads ==
    ASSUME Inv, UNCHANGED <<setting, object, early, tables, rest>>, NEW c \in Crons,
           NEW l \in Process, me' = [me EXCEPT ![c] = l], Settled(l)
    PROVE  Inv'
  <1>1. TablesOK' /\ UNCHANGED <<rows, fee, announce, over, met>>
    BY ReadOnly
  <1>2. LedgerKept /\ NoNewName
    BY <1>1, LedgerSame DEF Inv, NoNewName
  <1> QED BY <1>1, <1>2, CronGoes

\* The step is a move of the scheduled event alone.
LEMMA CronAt ==
    ASSUME Inv, NEW c \in Crons, NEW at \in Steps, Goes(c, at),
           at \notin {"fees", "announces", "restamp", "clear"}
    PROVE  \E l \in Process : me' = [me EXCEPT ![c] = l] /\ Settled(l)
  <1> DEFINE l == [me[c] EXCEPT !.at = at]
  <1>1. me' = [me EXCEPT ![c] = l] /\ l \in Process /\ me[c] \in Process
    BY GoesIs, Mine DEF Procs
  <1>2. Settled(l)
    BY <1>1, AtFields DEF Settled
  <1> HIDE DEF l
  <1> QED BY <1>1, <1>2

\* A pass's next item, or its reclaim.
LEMMA LocalMoves ==
    ASSUME NEW c \in Crons, NEW at \in Steps, NEW then \in Thens,
           at \notin {"fees", "announces", "restamp", "clear"},
           me' = [me EXCEPT ![c] = Local(at)] \/ me' = [me EXCEPT ![c] = Reclaiming(Local(at), then)]
    PROVE  \E l \in Process : me' = [me EXCEPT ![c] = l] /\ Settled(l)
  <1>1. Local(at) \in Process /\ Settled(Local(at))
    BY LocalType, LocalSettled
  <1>2. Reclaiming(Local(at), then) \in Process /\ Settled(Reclaiming(Local(at), then))
    BY <1>1, ReclaimingType, ReclaimingFields
  <1>3. CASE me' = [me EXCEPT ![c] = Local(at)]
    BY <1>1, <1>3
  <1>4. CASE me' = [me EXCEPT ![c] = Reclaiming(Local(at), then)]
    BY <1>2, <1>4
  <1> QED BY <1>3, <1>4

\* A pass that is over gives way to the next.
LEMMA PassEnds ==
    ASSUME NEW c \in Crons, me[c].at \in PassSteps, me' = [me EXCEPT ![c] = NextPass(me[c])]
    PROVE  \E l \in Process : me' = [me EXCEPT ![c] = l] /\ Settled(l)
  <1>1. NextPass(me[c]) \in {Local("drain"), Local("minted"), Local("released"), Local("idle")}
    BY NextPassType
  <1>2. PICK at \in {"drain", "minted", "released", "idle"} : NextPass(me[c]) = Local(at)
    BY <1>1
  <1>3. at \in Steps /\ "done" \in Thens /\ at \notin {"fees", "announces", "restamp", "clear"}
    BY StepsAre
  <1>4. me' = [me EXCEPT ![c] = Local(at)]
    BY <1>2
  <1> QED BY <1>3, <1>4, LocalMoves

\* What a scheduled event does is a move of its own, to a step that claims no
\* look.
LEMMA CronMoves ==
    ASSUME Inv, NEW c \in Crons, CronStep(c)
    PROVE  \E l \in Process : me' = [me EXCEPT ![c] = l] /\ Settled(l)
  <1>1. /\ c \in Procs /\ me[c] \in Process
        /\ object \in Etags \cup {Gone} /\ announce \in Etags \cup {Gone} /\ fee \in Fee
    BY Mine DEF Procs, Inv, TablesOK, FeesOK
  <1>2. ASSUME NEW at \in {"reask", "announced", "drain", "ask", "settle", "putOff", "setWord",
                           "ends"},
               Goes(c, at)
        PROVE  \E l \in Process : me' = [me EXCEPT ![c] = l] /\ Settled(l)
    BY <1>2, StepsAre, CronAt
  <1>3. CASE Wake(c) \/ Reask(c) \/ FeeStamp(c) \/ FeeAsk(c) \/ SetWord(c)
    <2>1. \E at \in {"reask", "announced", "drain", "ask", "settle", "putOff", "setWord", "ends"} :
             Goes(c, at)
      BY <1>3 DEF Wake, Reask, FeeStamp, FeeAsk, SetWord
    <2> QED BY <1>2, <2>1
  <1>4. CASE NothingDue(c) \/ NotYet(c) \/ PassFails(c)
    <2>1. me[c].at \in PassSteps /\ me' = [me EXCEPT ![c] = NextPass(me[c])]
      BY <1>4 DEF NothingDue, NotYet, PassFails, At, PassSteps, Passes
    <2> QED BY <2>1, PassEnds
  <1>5. CASE AnnounceDue(c)
    <2> DEFINE l == [me[c] EXCEPT !.at = "announceDue", !.etag = announce]
    <2>1. me' = [me EXCEPT ![c] = l]
      BY <1>5 DEF AnnounceDue, Inv, Processes
    <2>2. "announceDue" \in Steps
      BY StepsAre
    <2>3. l \in Process /\ l.at = "announceDue"
      BY <1>1, <2>2, ProcessIs
    <2> HIDE DEF l
    <2> QED BY <2>1, <2>3 DEF Settled
  <1>6. CASE FeeDue(c)
    <2> DEFINE l == [me[c] EXCEPT !.at = "due", !.etag = fee.etag, !.attempts = fee.attempts]
    <2>1. me' = [me EXCEPT ![c] = l]
      BY <1>6 DEF FeeDue, Inv, Processes
    <2>2. "due" \in Steps /\ fee.etag \in Etags \cup {Gone} /\ fee.attempts \in 0 .. Ceiling - 1
      BY <1>1, StepsAre DEF Fee
    <2>3. l \in Process /\ l.at = "due"
      BY <1>1, <2>2, ProcessIs
    <2> HIDE DEF l
    <2> QED BY <2>1, <2>3 DEF Settled
  <1>7. CASE \/ Announced(c) \/ Settle(c) \/ ClearWord(c) \/ PutOff(c) \/ FeeEnds(c)
             \/ MintedDue(c) \/ ForgetMinted(c) \/ ReleasedDue(c) \/ Forget(c)
    <2>1. \E at \in {"drain", "clearWord", "minted", "released", "idle"} :
             \E then \in {"drain", "clearWord", "forgetMinted", "forget"} :
                \/ me' = [me EXCEPT ![c] = Local(at)]
                \/ me' = [me EXCEPT ![c] = Reclaiming(Local(at), then)]
      BY <1>7 DEF Announced, Settle, ClearWord, PutOff, FeeEnds, MintedDue, ForgetMinted,
                  ReleasedDue, Forget
    <2>2. PICK at \in {"drain", "clearWord", "minted", "released", "idle"},
               then \in {"drain", "clearWord", "forgetMinted", "forget"} :
                \/ me' = [me EXCEPT ![c] = Local(at)]
                \/ me' = [me EXCEPT ![c] = Reclaiming(Local(at), then)]
      BY <2>1
    <2>3. at \in Steps /\ then \in Thens /\ at \notin {"fees", "announces", "restamp", "clear"}
      BY StepsAre
    <2> QED BY <2>2, <2>3, LocalMoves
  <1> QED BY <1>3, <1>4, <1>5, <1>6, <1>7 DEF CronStep

\* What it does to the tables: a fee counts one more attempt or is over.
LEMMA CronWrites ==
    ASSUME Inv, NEW c \in Crons, CronStep(c)
    PROVE  TablesOK' /\ LedgerKept /\ NoNewName
  <1>1. CASE \/ Wake(c) \/ NothingDue(c) \/ NotYet(c) \/ PassFails(c) \/ AnnounceDue(c) \/ Reask(c)
             \/ FeeDue(c) \/ FeeStamp(c) \/ FeeAsk(c) \/ MintedDue(c) \/ ReleasedDue(c)
    <2>1. UNCHANGED <<setting, object, early, tables, rest>>
      BY <1>1 DEF Wake, NothingDue, NotYet, PassFails, AnnounceDue, Reask, FeeDue, FeeStamp,
                  FeeAsk, MintedDue, ReleasedDue
    <2>2. TablesOK' /\ UNCHANGED <<rows, fee, announce, over, met>>
      BY <2>1, ReadOnly
    <2> QED BY <2>2, LedgerSame DEF Inv, NoNewName
  <1>2. CASE Announced(c) \/ ClearWord(c) \/ SetWord(c) \/ ForgetMinted(c) \/ Forget(c)
    <2>1. /\ TablesOK' /\ UNCHANGED <<rows, fee, over, met>> /\ announce' \in {announce, Gone}
      BY <1>2 DEF Announced, ClearWord, SetWord, ForgetMinted, Forget, Inv, TablesOK, rest, history
    <2> QED BY <2>1, LedgerSame DEF Inv, NoNewName
  <1>3. CASE Settle(c) \/ FeeEnds(c)
    <2>1. TablesOK' /\ UNCHANGED <<rows, announce>>
      BY <1>3 DEF Settle, FeeEnds, Inv, TablesOK
    <2>2. LedgerKept /\ fee'.state # "owed"
      BY <1>3, FeeOver DEF Settle, FeeEnds
    <2> QED BY <2>1, <2>2 DEF NoNewName
  <1>4. CASE PutOff(c)
    <2>1. TablesOK' /\ UNCHANGED <<rows, announce, met>>
      BY <1>4 DEF PutOff, Inv, TablesOK
    <2>2. CASE me[c].attempts + 1 >= Ceiling
      <3>1. fee' = Ended /\ over' = over \cup ({fee.etag} \ {Gone}) /\ met' = met
        BY <1>4, <2>2 DEF PutOff
      <3>2. LedgerKept /\ fee'.state # "owed"
        BY <3>1, FeeOver
      <3> QED BY <2>1, <3>2 DEF NoNewName
    <2>3. CASE ~(me[c].attempts + 1 >= Ceiling)
      <3> DEFINE n == me[c].attempts + 1
      <3>1. n \in 0 .. Ceiling - 1
        <4>1. me[c] \in Process
          BY Mine DEF Procs
        <4>2. me[c].attempts \in 0 .. Ceiling - 1
          BY <4>1, ProcessIs
        <4> QED BY <2>3, <4>2, CeilingPositive
      <3>2. /\ fee' = IF fee = NoFee THEN fee ELSE [fee EXCEPT !.attempts = n]
            /\ over' = over
        BY <1>4, <2>3 DEF PutOff
      <3> HIDE DEF n
      <3>3. /\ fee \in Fee /\ over \subseteq Etags /\ met \subseteq Etags /\ FeeOk(fee, over)
        BY DEF Inv, FeesOK, LedgerOk
      <3>4. /\ fee' \in Fee /\ fee'.state = fee.state /\ fee'.etag = fee.etag
        BY <3>1, <3>2, <3>3 DEF Fee
      <3>5. FeeOk(fee', over')
        BY <3>2, <3>3, <3>4 DEF FeeOk
      <3> QED BY <2>1, <3>2, <3>3, <3>4, <3>5 DEF LedgerKept, FeesOK, Owing, NoNewName
    <2> QED BY <2>2, <2>3
  <1> QED BY <1>1, <1>2, <1>3, <1>4 DEF CronStep

\* Every step of a scheduled event keeps the invariant.
LEMMA CronKeeps ==
    ASSUME Inv, NEW c \in Crons, CronStep(c)
    PROVE  Inv'
  <1>1. PICK l \in Process : me' = [me EXCEPT ![c] = l] /\ Settled(l)
    BY CronMoves
  <1>2. TablesOK' /\ LedgerKept /\ NoNewName
    BY CronWrites
  <1> QED BY <1>1, <1>2, CronGoes

-----------------------------------------------------------------------------
(* The theorems *)

\* The invariant holds at the start.
LEMMA InitInv == Init => Inv
  <1> SUFFICES ASSUME Init PROVE Inv
    OBVIOUS
  <1>1. setting \in Setting
    BY SettingsPay DEF Init
  <1>2. setting.fail \in BOOLEAN /\ setting.spooled \in BOOLEAN
    BY <1>1 DEF Setting
  <1>3. TablesOK
    BY <1>2 DEF Init, TablesOK, Spooled
  <1>4. FeesOK
    <2>1. 0 \in 0 .. Ceiling - 1 BY CeilingPositive
    <2> QED BY <2>1 DEF Init, FeesOK, NoFee, Fee
  <1>5. \A p \in Procs : me[p] \in Process /\ Settled(me[p]) /\ (p \in Sends => me[p] = Local("new"))
    <2>1. "new" \in Steps /\ "idle" \in Steps
      BY StepsAre
    <2> QED BY <2>1, LocalType, LocalSettled DEF Init
  <1>6. Processes
    BY <1>5 DEF Init, Processes
  <1>7. LookedAt
    BY <1>5, SettledLooked DEF LookedAt
  <1>8. LedgerOk
    <2>1. FeeOk(fee, over)
      BY DEF Init, FeeOk, NoFee
    <2>2. \A s \in Sends : me[s] = Local("new")
      BY <1>5 DEF Procs
    <2>3. \A f, o : SendOk(Local("new"), f, o)
      BY DEF SendOk, Local, SendThens
    <2> QED BY <2>1, <2>2, <2>3 DEF LedgerOk
  <1> QED BY <1>3, <1>4, <1>6, <1>7, <1>8 DEF Inv

\* Every step keeps it.
LEMMA NextInv ==
    ASSUME Inv, [Next]_vars
    PROVE  Inv'
  <1>1. CASE \E p \in Procs : Reclaim(p)
    BY <1>1, ReclaimKeeps
  <1>2. CASE \E s \in Sends : SendStep(s) \/ LetGo(s)
    BY <1>2, SendKeeps
  <1>3. CASE \E c \in Crons : CronStep(c)
    BY <1>3, CronKeeps
  <1>4. CASE \/ \E e \in Etags : Upload(e)
             \/ DeadlineComes \/ ClaimExpires \/ WordExpires \/ StoresRecover
             \/ UNCHANGED vars
    <2>1. TablesOK' /\ UNCHANGED <<rows, announce, fee, over, met, me>>
      BY <1>4 DEF Upload, DeadlineComes, ClaimExpires, WordExpires, StoresRecover, vars, tables,
                  rest, history, Inv, TablesOK
    <2> QED BY <2>1, StandKeeps DEF NoNewName
  <1> QED BY <1>1, <1>2, <1>3, <1>4 DEF Next

\* So it always holds.
LEMMA Invariant == Spec => []Inv
  BY InitInv, NextInv, PTL DEF Spec

-----------------------------------------------------------------------------
(* What the rows let go of, where no fee is owed *)

\* At most one send wrote a row; a row names the key; one let go of it.
OneRow == \A s, t \in Sends : rows[s] = "none" \/ rows[t] = "none" \/ s = t
SomeNames == \E s \in Sends : rows[s] = "names"
SomeLetGo == \E s \in Sends : rows[s] = "gone"

\* A scheduled event reclaims for one of its passes: in its second look, or
\* done with it and about to forget the record.
ReclaimsFor(l, then) == l.at \in ReclaimSteps /\ l.then = then
SecondFor(l, then) == ReclaimsFor(l, then) /\ l.round = 2
Forgets(l, then) == l.at = then \/ (l.at = "unclaim" /\ l.then = then)

\* A send of the recipient's payment alone: its row is written once.
RowSendOk(s) ==
    /\ me[s].at \in {"new", "handoff", "insert", "claimed", "bytes", "forget", "done", "failed"}
    /\ me[s].at # "new" => ~Spooled /\ s \in RowSends
    /\ me[s].at \in {"new", "handoff", "insert"} => rows[s] = "none"

\* The release of the one row is still to be taken up, by a pass that will
\* delete what is there now.
ReleaseAhead ==
    /\ released
    /\ \A c \in Crons : /\ ~Forgets(me[c], "forget")
                        /\ SecondFor(me[c], "forget") => me[c].looked = object

\* What a pass has found when it forgets its record.
PassOk(l) ==
    /\ ReclaimsFor(l, "forgetMinted") \/ Forgets(l, "forgetMinted") => ~early
    /\ ReclaimsFor(l, "forget") \/ Forgets(l, "forget") => SomeLetGo
    /\ SecondFor(l, "forgetMinted") => object \in {Gone, l.looked}
    /\ SecondFor(l, "forget") /\ OneRow => object = Gone \/ minted \/ object = l.looked
    /\ Forgets(l, "forgetMinted") /\ OneRow => object = Gone \/ SomeNames \/ ReleaseAhead
    /\ Forgets(l, "forget") /\ OneRow => object = Gone \/ minted

\* Where no send owes a fee: an object at rest of at most one row is named,
\* or on a list.
Queued ==
    /\ fee = NoFee /\ announce = Gone
    /\ early => minted
    /\ released => SomeLetGo
    /\ Spooled => object = Gone
    /\ \A s \in Sends : RowSendOk(s)
    /\ \A c \in Crons : PassOk(me[c])
    /\ OneRow /\ object # Gone => released \/ minted \/ SomeNames

\* A send writes its row once and touches nothing else the passes go by.
LEMMA RowSendQueued ==
    ASSUME Queued, NEW s \in Sends,
           UNCHANGED <<setting, object, early, fee, announce, released, minted>>,
           \A t \in Sends \ {s} : rows'[t] = rows[t] /\ me'[t].at = me[t].at,
           \A c \in Crons : /\ me'[c].at = me[c].at /\ me'[c].then = me[c].then
                            /\ me'[c].round = me[c].round /\ me'[c].looked = me[c].looked,
           rows'[s] = rows[s] \/ (rows[s] = "none" /\ rows'[s] = "names"),
           RowSendOk(s)'
    PROVE  Queued'
  <1>1. (OneRow' => OneRow) /\ (SomeNames => SomeNames') /\ (SomeLetGo => SomeLetGo')
    BY DEF OneRow, SomeNames, SomeLetGo
  <1>2. \A t \in Sends : RowSendOk(t)'
    BY DEF Queued, RowSendOk, Spooled, RowSends
  <1>3. \A c \in Crons, then \in {"forget", "forgetMinted"} :
            /\ ReclaimsFor(me[c], then)' <=> ReclaimsFor(me[c], then)
            /\ SecondFor(me[c], then)' <=> SecondFor(me[c], then)
            /\ Forgets(me[c], then)' <=> Forgets(me[c], then)
    BY DEF ReclaimsFor, SecondFor, Forgets
  <1>4. ReleaseAhead => ReleaseAhead'
    BY <1>3 DEF ReleaseAhead
  <1>5. ASSUME NEW c \in Crons PROVE PassOk(me[c])'
    <2>1. PassOk(me[c])
      BY DEF Queued
    <2> QED BY <1>1, <1>3, <1>4, <2>1 DEF PassOk
  <1> QED BY <1>1, <1>2, <1>5 DEF Queued, Spooled

\* A scheduled event moves to l, and may delete the object on the way.
LEMMA PassQueued ==
    ASSUME Inv, Queued, NEW c \in Crons, NEW l \in Process, me' = [me EXCEPT ![c] = l],
           UNCHANGED <<setting, early, rows, released, minted>>, fee' = NoFee, announce' = Gone,
           object' \in {object, Gone},
           ReclaimsFor(l, "forgetMinted") \/ Forgets(l, "forgetMinted") => ~early,
           ReclaimsFor(l, "forget") \/ Forgets(l, "forget") => SomeLetGo,
           SecondFor(l, "forgetMinted") => object' \in {Gone, l.looked},
           SecondFor(l, "forget") =>
              \/ object' \in {Gone, l.looked}
              \/ SecondFor(me[c], "forget") /\ me[c].looked = l.looked,
           Forgets(l, "forgetMinted") /\ OneRow =>
              object' = Gone \/ SomeNames \/ Forgets(me[c], "forgetMinted"),
           Forgets(l, "forget") /\ OneRow =>
              \/ object' = Gone
              \/ Forgets(me[c], "forget")
              \/ SecondFor(me[c], "forget") /\ me[c].looked # object
    PROVE  Queued'
  <1>1. me'[c] = l /\ \A d \in Procs \ {c} : me'[d] = me[d]
    BY Moves DEF Inv, Procs
  <1>2. (OneRow' <=> OneRow) /\ (SomeNames' <=> SomeNames) /\ (SomeLetGo' <=> SomeLetGo)
    BY DEF OneRow, SomeNames, SomeLetGo
  <1>3. \A s \in Sends : RowSendOk(s)'
    <2>1. \A s \in Sends : me'[s] = me[s]
      BY <1>1, CronsAreNoSends DEF Procs
    <2> QED BY <2>1 DEF Queued, RowSendOk, Spooled, RowSends
  <1>4. PassOk(me[c]) /\ \A d \in Crons : d # c => me'[d] = me[d] /\ PassOk(me[d])
    BY <1>1 DEF Queued, Procs
  <1>5. CASE object' = Gone
    <2>1. \A d \in Crons : PassOk(me[d])'
      BY <1>1, <1>2, <1>4, <1>5 DEF PassOk, ReclaimsFor, Forgets, SecondFor
    <2> QED BY <1>2, <1>3, <1>5, <2>1 DEF Queued, Spooled
  <1>6. CASE object' = object /\ object # Gone
    <2>1. ReleaseAhead /\ OneRow => ReleaseAhead'
      <3> SUFFICES ASSUME ReleaseAhead, OneRow PROVE ReleaseAhead'
        OBVIOUS
      <3>1. ~Forgets(l, "forget")
        BY <1>6 DEF ReleaseAhead
      <3>2. SecondFor(l, "forget") => l.looked = object
        BY <1>6 DEF ReleaseAhead
      <3> QED BY <1>1, <1>4, <1>6, <3>1, <3>2 DEF ReleaseAhead
    <2>2. \A d \in Crons : d # c => PassOk(me[d])'
      BY <1>2, <1>4, <1>6, <2>1 DEF PassOk
    <2>3. PassOk(l)'
      <3>1. SecondFor(l, "forget") /\ OneRow => minted \/ object = l.looked
        BY <1>4, <1>6 DEF PassOk
      <3>2. Forgets(l, "forgetMinted") /\ OneRow => SomeNames \/ ReleaseAhead
        BY <1>4, <1>6 DEF PassOk
      <3>3. Forgets(l, "forget") /\ OneRow => minted
        BY <1>4, <1>6 DEF PassOk
      <3>4. /\ ReclaimsFor(l, "forgetMinted") \/ Forgets(l, "forgetMinted") => ~early'
            /\ ReclaimsFor(l, "forget") \/ Forgets(l, "forget") => SomeLetGo'
            /\ SecondFor(l, "forgetMinted") => object' \in {Gone, l.looked}
        BY <1>2
      <3> QED BY <1>2, <1>6, <2>1, <3>1, <3>2, <3>3, <3>4 DEF PassOk
    <2> QED BY <1>1, <1>2, <1>3, <1>6, <2>2, <2>3 DEF Queued, Spooled
  <1> QED BY <1>5, <1>6

\* What the locals of a reclaim make of a pass.
LEMMA PassSteps1 ==
    ASSUME NEW l \in Process, NEW at, at \in ReclaimSteps \ {"unclaim"}
    PROVE  /\ ~Forgets([l EXCEPT !.at = at], "forget")
           /\ ~Forgets([l EXCEPT !.at = at], "forgetMinted")
           /\ \A then : /\ l.at \in ReclaimSteps =>
                              (ReclaimsFor([l EXCEPT !.at = at], then) <=> ReclaimsFor(l, then))
                        /\ l.at \in ReclaimSteps =>
                              (SecondFor([l EXCEPT !.at = at], then) <=> SecondFor(l, then))
  BY AtFields DEF Forgets, ReclaimsFor, SecondFor, ReclaimSteps

\* A reclaim of a scheduled event: what it forgets a record on is that the
\* object is gone, or that a row names it.
LEMMA ReclaimQueued ==
    ASSUME Inv, Queued, NEW c \in Crons, Reclaim(c)
    PROVE  Queued'
  <1> DEFINE k == me[c]
  <1>0. c \in Procs /\ k \in Process /\ PassOk(k) /\ fee = NoFee /\ announce = Gone
    BY Mine DEF Procs, Queued
  <1>1. k.at \in ReclaimSteps
    BY DEF Reclaim, Claim, Look, Stamp, Restamp, Clear, ReclaimFails, Unclaim, At, ReclaimSteps
  <1>2. /\ UNCHANGED <<setting, early, rows, released, minted>> /\ fee' = NoFee /\ announce' = Gone
    BY <1>0 DEF Reclaim, Claim, Look, Stamp, Restamp, Clear, ReclaimFails, Unclaim, tables
  <1> HIDE DEF k
  <1>3. SecondFor(k, "forget") /\ OneRow => ~SomeNames
    BY <1>0 DEF PassOk, SecondFor, SomeLetGo, SomeNames, OneRow
  <1>a. ReclaimsFor(k, "forget") /\ OneRow => ~SomeNames
    BY <1>0 DEF PassOk, SomeLetGo, SomeNames, OneRow
  <1>4. Finished(k) \in Process /\ Finished(k).at = "unclaim" /\ Finished(k).then = k.then
        /\ Finished(k).round = 1
    BY <1>0, FinishedType, FinishedFields, ProcessIs DEF Finished
  \* What a reclaim that ends relies on.
  <1>5. ASSUME me' = [me EXCEPT ![c] = Finished(k)], object' \in {object, Gone},
               \/ object' = Gone
               \/ SomeNames
               \/ SecondFor(k, k.then) /\ k.looked # object
        PROVE  Queued'
    <2>1. /\ ReclaimsFor(Finished(k), "forgetMinted") \/ Forgets(Finished(k), "forgetMinted") => ~early
          /\ ReclaimsFor(Finished(k), "forget") \/ Forgets(Finished(k), "forget") => SomeLetGo
      BY <1>0, <1>1, <1>4 DEF PassOk, ReclaimsFor, Forgets
    <2>2. ~SecondFor(Finished(k), "forgetMinted") /\ ~SecondFor(Finished(k), "forget")
      BY <1>4 DEF SecondFor
    <2>3. Forgets(Finished(k), "forgetMinted") => object' = Gone \/ SomeNames
      <3> SUFFICES ASSUME k.then = "forgetMinted", SecondFor(k, k.then) /\ k.looked # object
                   PROVE  object' = Gone
        BY <1>4, <1>5 DEF Forgets
      <3> QED BY <1>0, <1>5 DEF PassOk
    <2>4. Forgets(Finished(k), "forget") /\ OneRow =>
             object' = Gone \/ (SecondFor(k, "forget") /\ k.looked # object)
      <3> SUFFICES ASSUME k.then = "forget", OneRow
                   PROVE  object' = Gone \/ (SecondFor(k, "forget") /\ k.looked # object)
        BY <1>4 DEF Forgets
      <3>1. ReclaimsFor(k, "forget")
        BY <1>1 DEF ReclaimsFor
      <3> QED BY <1>5, <1>a, <3>1
    <2> QED BY <1>2, <1>4, <1>5, <2>1, <2>2, <2>3, <2>4, PassQueued DEF k
  \* What a reclaim that goes on relies on.
  <1>6. ASSUME NEW at \in ReclaimSteps \ {"unclaim"}, object' = object,
               me' = [me EXCEPT ![c] = [k EXCEPT !.at = at]]
        PROVE  Queued'
    <2> DEFINE l == [k EXCEPT !.at = at]
    <2>1. l \in Process /\ l.looked = k.looked
      BY <1>0, ProcessIs DEF Steps
    <2>2. /\ ~Forgets(l, "forget") /\ ~Forgets(l, "forgetMinted")
          /\ \A then : /\ ReclaimsFor(l, then) <=> ReclaimsFor(k, then)
                       /\ SecondFor(l, then) <=> SecondFor(k, then)
      BY <1>0, <1>1, PassSteps1
    <2> HIDE DEF l
    <2>3. me' = [me EXCEPT ![c] = l]
      BY <1>6 DEF l
    <2>4. ReclaimsFor(l, "forgetMinted") \/ Forgets(l, "forgetMinted") => ~early
      BY <1>0, <2>2 DEF PassOk
    <2>5. ReclaimsFor(l, "forget") \/ Forgets(l, "forget") => SomeLetGo
      BY <1>0, <2>2 DEF PassOk
    <2>6. SecondFor(l, "forgetMinted") => object' \in {Gone, l.looked}
      BY <1>0, <1>6, <2>1, <2>2 DEF PassOk
    <2>7. SecondFor(l, "forget") => SecondFor(me[c], "forget") /\ me[c].looked = l.looked
      BY <2>1, <2>2 DEF k
    <2> QED BY <1>2, <1>6, <2>1, <2>2, <2>3, <2>4, <2>5, <2>6, <2>7, PassQueued
  <1>7. CASE Claim(c)
    <2>1. me' = [me EXCEPT ![c] = [k EXCEPT !.at = "rows"]] /\ object' = object
      BY <1>7 DEF Claim, Goes, k, Inv, Processes
    <2> QED BY <1>6, <2>1 DEF ReclaimSteps
  <1>8. CASE Look(c)
    <2>1. object' = object
      BY <1>8 DEF Look
    <2>2. \/ me' = [me EXCEPT ![c] = Finished(k)] /\ SomeNames
          \/ \E at \in {"fees", "announces", "stamp", "restamp"} :
                me' = [me EXCEPT ![c] = [k EXCEPT !.at = at]]
      <3>1. k.at \in {"rows", "fees", "announces"} /\ k.round \in {1, 2}
        BY <1>0, <1>8, ProcessIs DEF Look, k
      <3>2. CASE k.at = "rows"
        BY <1>8, <3>2 DEF Look, k, SomeNames
      <3>3. CASE k.at = "fees"
        BY <1>0, <1>8, <3>3 DEF Look, k, NoFee
      <3>4. CASE k.at = "announces"
        <4>1. CASE k.round = 1
          BY <1>0, <1>8, <3>4, <4>1 DEF Look, k
        <4>2. CASE k.round = 2
          BY <1>0, <1>8, <3>4, <4>2 DEF Look, k
        <4> QED BY <3>1, <4>1, <4>2
      <3> QED BY <3>1, <3>2, <3>3, <3>4
    <2> QED BY <1>5, <1>6, <2>1, <2>2 DEF ReclaimSteps
  <1>9. CASE Stamp(c)
    <2>1. CASE object = Gone
      BY <1>5, <1>9, <2>1 DEF Stamp, k
    <2>2. CASE object # Gone
      <3> DEFINE l == [k EXCEPT !.at = "rows", !.round = 2, !.looked = object]
      <3>1. me' = [me EXCEPT ![c] = l] /\ object' = object
        BY <1>9, <2>2 DEF Stamp, k
      <3>2. "rows" \in Steps /\ object \in Etags \cup {Gone} /\ 2 \in 1 .. 2
        BY StepsAre DEF Inv, TablesOK
      <3>3. l \in Process /\ l.at = "rows" /\ l.looked = object /\ l.then = k.then
        BY <1>0, <3>2, ProcessIs
      <3> HIDE DEF l
      <3>4. /\ ~Forgets(l, "forget") /\ ~Forgets(l, "forgetMinted")
            /\ \A then : ReclaimsFor(l, then) => ReclaimsFor(k, then)
        BY <1>1, <3>3 DEF Forgets, ReclaimsFor
      <3>5. /\ ReclaimsFor(l, "forgetMinted") => ~early
            /\ ReclaimsFor(l, "forget") => SomeLetGo
        BY <1>0, <3>4 DEF PassOk
      <3> QED BY <1>2, <3>1, <3>3, <3>4, <3>5, PassQueued
    <2> QED BY <2>1, <2>2
  <1>10. CASE Restamp(c)
    <2>1. object' = object /\ k.at = "restamp" /\ k.round = 2
      BY <1>0, <1>10, Mine DEF Restamp, At, k, Looked
    <2>2. CASE object # k.looked
      <3>1. SecondFor(k, k.then)
        BY <1>1, <2>1 DEF SecondFor, ReclaimsFor
      <3> QED BY <1>5, <1>10, <2>1, <2>2, <3>1 DEF Restamp, k
    <2>3. CASE object = k.looked
      <3>1. me' = [me EXCEPT ![c] = [k EXCEPT !.at = "clear"]]
        BY <1>10, <2>3 DEF Restamp, k
      <3> QED BY <1>6, <2>1, <3>1 DEF ReclaimSteps
    <2> QED BY <2>2, <2>3
  <1>11. CASE Clear(c)
    BY <1>5, <1>11 DEF Clear, k
  <1>12. CASE ReclaimFails(c)
    <2>0. object' \in {object, Gone}
      BY <1>12 DEF ReclaimFails
    <2> DEFINE then == AfterError(k.then)
               l == IF k.at = "claim" THEN [k EXCEPT !.at = then, !.then = "done"]
                    ELSE [Finished(k) EXCEPT !.then = then]
    <2>1. me' = [me EXCEPT ![c] = l]
      BY <1>12 DEF ReclaimFails, At, k
    <2>2. k.then \in Thens /\ then \in Thens /\ then \in Steps /\ "done" \in Thens
      BY <1>0, AfterErrorType, StepsAre, ProcessIs
    <2>3. then \notin {"forget", "forgetMinted"} /\ then \notin ReclaimSteps
      BY <2>2, StepsAre DEF AfterError, ReclaimSteps
    <2> HIDE DEF then
    <2>4. l \in Process /\ ~ReclaimsFor(l, "forget") /\ ~ReclaimsFor(l, "forgetMinted")
          /\ ~Forgets(l, "forget") /\ ~Forgets(l, "forgetMinted")
      <3>1. CASE k.at = "claim"
        BY <1>0, <2>2, <2>3, <3>1, ProcessIs DEF ReclaimsFor, Forgets
      <3>2. CASE k.at # "claim"
        BY <1>4, <2>2, <2>3, <3>2, ProcessIs DEF ReclaimsFor, Forgets
      <3> QED BY <3>1, <3>2
    <2> HIDE DEF l
    <2> QED BY <1>2, <2>0, <2>1, <2>4, PassQueued DEF SecondFor
  <1>13. CASE Unclaim(c)
    <2> DEFINE l == [k EXCEPT !.at = k.then, !.then = "done"]
    <2>1. me' = [me EXCEPT ![c] = l] /\ object' = object /\ k.at = "unclaim"
      BY <1>13 DEF Unclaim, At, k, Inv, Processes
    <2>2. k.then \in Thens /\ k.then \in Steps /\ "done" \in Thens /\ k.then \notin ReclaimSteps
      BY <1>0, ProcessIs, StepsAre DEF ReclaimSteps
    <2>3. l \in Process /\ l.at = k.then /\ l.then = "done"
      BY <1>0, <2>2, ProcessIs
    <2> HIDE DEF l
    <2>4. /\ ~ReclaimsFor(l, "forget") /\ ~ReclaimsFor(l, "forgetMinted")
          /\ Forgets(l, "forget") => Forgets(k, "forget")
          /\ Forgets(l, "forgetMinted") => Forgets(k, "forgetMinted")
      BY <2>1, <2>2, <2>3 DEF ReclaimsFor, Forgets, ReclaimSteps
    <2>5. /\ Forgets(l, "forgetMinted") => ~early
          /\ Forgets(l, "forget") => SomeLetGo
      BY <1>0, <2>4 DEF PassOk
    <2> QED BY <1>2, <2>1, <2>3, <2>4, <2>5, PassQueued DEF SecondFor, k
  <1> QED BY <1>7, <1>8, <1>9, <1>10, <1>11, <1>12, <1>13 DEF Reclaim

\* A pass that neither looks for a record nor forgets one.
LEMMA OtherQueued ==
    ASSUME Inv, Queued, NEW c \in Crons, NEW l \in Process, me' = [me EXCEPT ![c] = l],
           UNCHANGED <<setting, object, early, rows, released, minted>>,
           fee' = NoFee, announce' = Gone,
           l.at \notin {"forget", "forgetMinted"},
           l.at \in ReclaimSteps => l.then \notin {"forget", "forgetMinted"}
    PROVE  Queued'
  <1>1. /\ ~ReclaimsFor(l, "forget") /\ ~ReclaimsFor(l, "forgetMinted")
        /\ ~Forgets(l, "forget") /\ ~Forgets(l, "forgetMinted")
    BY DEF ReclaimsFor, Forgets, ReclaimSteps
  <1> QED BY <1>1, PassQueued DEF SecondFor

\* The steps of a scheduled event outside its reclaims.
LEMMA CronQueued ==
    ASSUME Inv, Queued, NEW c \in Crons, CronStep(c)
    PROVE  Queued'
  <1>1. c \in Procs /\ me[c] \in Process /\ PassOk(me[c]) /\ fee = NoFee /\ announce = Gone
    BY Mine DEF Procs, Queued
  <1>2. NoFee.state = "none" /\ Ended = NoFee
    BY <1>1 DEF NoFee, Ended
  <1>3. ASSUME NEW at \in {"reask", "announced", "drain", "ask", "settle", "putOff", "setWord",
                           "ends"},
               me' = [me EXCEPT ![c] = [me[c] EXCEPT !.at = at]],
               UNCHANGED <<setting, object, early, rows, fee, announce, released, minted>>
        PROVE  Queued'
    <2>1. at \in Steps /\ at \notin ReclaimSteps
      BY StepsAre DEF ReclaimSteps
    <2>2. [me[c] EXCEPT !.at = at] \in Process /\ [me[c] EXCEPT !.at = at].at = at
      BY <1>1, <2>1, AtType, AtFields
    <2> QED BY <1>1, <1>3, <2>1, <2>2, OtherQueued
  <1>4. ASSUME NEW at \in {"drain", "minted", "released", "idle"}, me' = [me EXCEPT ![c] = Local(at)],
               UNCHANGED <<setting, object, early, rows, released, minted>>,
               fee' = NoFee, announce' = Gone
        PROVE  Queued'
    <2>1. at \in Steps /\ at \notin ReclaimSteps
      BY StepsAre DEF ReclaimSteps
    <2>2. Local(at) \in Process /\ Local(at).at = at
      BY <2>1, LocalType DEF Local
    <2> QED BY <1>4, <2>1, <2>2, OtherQueued
  <1>5. CASE Wake(c) \/ Reask(c) \/ FeeStamp(c) \/ FeeAsk(c) \/ SetWord(c)
    <2>1. \E at \in {"reask", "announced", "drain", "ask", "settle", "putOff", "setWord", "ends"} :
             me' = [me EXCEPT ![c] = [me[c] EXCEPT !.at = at]]
      BY <1>1, <1>5 DEF Wake, Reask, FeeStamp, FeeAsk, SetWord, Goes, Inv, Processes
    <2>2. UNCHANGED <<setting, object, early, rows, fee, announce, released, minted>>
      BY <1>5 DEF Wake, Reask, FeeStamp, FeeAsk, SetWord, tables
    <2> QED BY <1>3, <2>1, <2>2
  <1>6. CASE NothingDue(c) \/ NotYet(c) \/ PassFails(c)
    <2>1. me[c].at \in PassSteps /\ me' = [me EXCEPT ![c] = NextPass(me[c])]
      BY <1>6 DEF NothingDue, NotYet, PassFails, At, PassSteps, Passes
    <2>2. UNCHANGED <<setting, object, early, rows, fee, announce, released, minted>>
      BY <1>6 DEF NothingDue, NotYet, PassFails, tables
    <2>3. \E at \in {"drain", "minted", "released", "idle"} : me' = [me EXCEPT ![c] = Local(at)]
      BY <2>1, NextPassType
    <2> QED BY <1>1, <1>4, <2>2, <2>3
  <1>7. CASE AnnounceDue(c) \/ FeeDue(c)
    BY <1>1, <1>2, <1>7 DEF AnnounceDue, FeeDue
  <1>8. CASE Announced(c) \/ Settle(c)
    <2>1. PICK at \in {"drain", "clearWord"} : me' = [me EXCEPT ![c] = Reclaiming(Local(at), at)]
      BY <1>8 DEF Announced, Settle
    <2>2. /\ UNCHANGED <<setting, object, early, rows, released, minted>>
          /\ fee' = NoFee /\ announce' = Gone
      BY <1>1, <1>8 DEF Announced, Settle
    <2>3. at \in Steps /\ at \in Thens
      BY StepsAre
    <2>4. /\ Reclaiming(Local(at), at) \in Process
          /\ Reclaiming(Local(at), at).at = "claim" /\ Reclaiming(Local(at), at).then = at
      BY <2>3, LocalType, ReclaimingType, ReclaimingFields
    <2> QED BY <2>1, <2>2, <2>4, OtherQueued
  <1>9. CASE ClearWord(c) \/ PutOff(c) \/ FeeEnds(c)
    <2>1. me' = [me EXCEPT ![c] = Local("minted")]
      BY <1>9 DEF ClearWord, PutOff, FeeEnds
    <2>2. fee' = NoFee
      BY <1>1, <1>2, <1>9 DEF ClearWord, PutOff, FeeEnds
    <2>3. UNCHANGED <<setting, object, early, rows, released, minted>> /\ announce' = Gone
      BY <1>1, <1>9 DEF ClearWord, PutOff, FeeEnds
    <2> QED BY <1>4, <2>1, <2>2, <2>3
  <1>10. CASE MintedDue(c) \/ ReleasedDue(c)
    <2>1. PICK at \in {"minted", "released"}, then \in {"forgetMinted", "forget"} :
            /\ me' = [me EXCEPT ![c] = Reclaiming(Local(at), then)]
            /\ then = "forgetMinted" => ~early
            /\ then = "forget" => released
      BY <1>10 DEF MintedDue, ReleasedDue
    <2> DEFINE l == Reclaiming(Local(at), then)
    <2>2. at \in Steps /\ then \in Thens
      BY StepsAre
    <2>3. l \in Process /\ l.at = "claim" /\ l.then = then /\ l.round = 1
      <3>1. Local(at) \in Process
        BY <2>2, LocalType
      <3>2. l \in Process /\ l.at = "claim" /\ l.then = then
        BY <2>2, <3>1, ReclaimingType, ReclaimingFields
      <3>3. l.round = 1
        BY DEF Reclaiming, Local
      <3> QED BY <3>2, <3>3
    <2>4. UNCHANGED <<setting, object, early, rows, fee, announce, released, minted>>
      BY <1>10 DEF MintedDue, ReleasedDue, tables
    <2>5. me' = [me EXCEPT ![c] = l]
      BY <2>1
    <2> HIDE DEF l
    <2>6. /\ ~Forgets(l, "forget") /\ ~Forgets(l, "forgetMinted")
          /\ ~SecondFor(l, "forget") /\ ~SecondFor(l, "forgetMinted")
      BY <2>3 DEF Forgets, SecondFor
    <2>7. /\ ReclaimsFor(l, "forgetMinted") => ~early
          /\ ReclaimsFor(l, "forget") => SomeLetGo
      BY <2>1, <2>3 DEF ReclaimsFor, Queued
    <2> QED BY <1>1, <2>3, <2>4, <2>5, <2>6, <2>7, PassQueued
  <1>11. CASE ForgetMinted(c) \/ Forget(c)
    <2>1. /\ UNCHANGED <<setting, object, early, rows, fee, announce>>
          /\ \/ At(c, "forgetMinted") /\ minted' = FALSE /\ released' = released
             \/ At(c, "forget") /\ released' = FALSE /\ minted' = minted
      BY <1>11 DEF ForgetMinted, Forget
    <2>2. PICK l \in Process : me' = [me EXCEPT ![c] = l] /\ l.at \in {"released", "idle"}
      <3>1. \A at \in {"released", "idle"} : Local(at) \in Process /\ Local(at).at = at
        BY StepsAre, LocalType DEF Local
      <3>2. \E at \in {"released", "idle"} : me' = [me EXCEPT ![c] = Local(at)]
        BY <1>11 DEF ForgetMinted, Forget
      <3> QED BY <3>1, <3>2
    <2>3. /\ ~ReclaimsFor(l, "forget") /\ ~ReclaimsFor(l, "forgetMinted")
          /\ ~Forgets(l, "forget") /\ ~Forgets(l, "forgetMinted")
          /\ ~SecondFor(l, "forget") /\ ~SecondFor(l, "forgetMinted")
      BY <2>2 DEF ReclaimsFor, SecondFor, Forgets, ReclaimSteps
    <2>4. me'[c] = l /\ \A d \in Procs \ {c} : me'[d] = me[d]
      BY <2>2, Moves DEF Inv, Procs
    <2>5. (OneRow' <=> OneRow) /\ (SomeNames' <=> SomeNames) /\ (SomeLetGo' <=> SomeLetGo)
      BY <2>1 DEF OneRow, SomeNames, SomeLetGo
    <2>6. \A s \in Sends : RowSendOk(s)'
      <3>1. \A s \in Sends : me'[s] = me[s]
        BY <2>4, CronsAreNoSends DEF Procs
      <3> QED BY <2>1, <3>1 DEF Queued, RowSendOk, Spooled, RowSends
    <2>7. PassOk(me[c])'
      BY <2>3, <2>4 DEF PassOk
    <2>8. SomeLetGo /\ OneRow => ~SomeNames
      BY DEF SomeLetGo, OneRow, SomeNames
    <2>9. CASE At(c, "forgetMinted") /\ minted' = FALSE /\ released' = released
      <3>1. ~early /\ (OneRow => object = Gone \/ SomeNames \/ ReleaseAhead)
        BY <1>1, <2>9 DEF PassOk, Forgets, At
      <3>2. ReleaseAhead => ReleaseAhead'
        BY <2>1, <2>3, <2>4, <2>9 DEF ReleaseAhead, Procs
      <3>3. ASSUME NEW d \in Crons, d # c PROVE PassOk(me[d])'
        <4>1. me'[d] = me[d] /\ PassOk(me[d])
          BY <2>4, <3>3 DEF Queued, Procs
        <4>2. SecondFor(me[d], "forget") /\ OneRow => object \in {Gone, me[d].looked}
          BY <2>8, <3>1, <4>1 DEF PassOk, ReleaseAhead, SecondFor
        <4>3. Forgets(me[d], "forget") /\ OneRow => object = Gone
          BY <2>8, <3>1, <4>1 DEF PassOk, ReleaseAhead
        <4> QED BY <2>1, <2>5, <3>2, <4>1, <4>2, <4>3 DEF PassOk
      <3>4. \A d \in Crons : PassOk(me[d])'
        BY <2>7, <3>3
      <3> QED BY <1>1, <2>1, <2>5, <2>6, <2>9, <3>1, <3>4 DEF Queued, Spooled, ReleaseAhead
    <2>10. CASE At(c, "forget") /\ released' = FALSE /\ minted' = minted
      <3>1. SomeLetGo /\ (OneRow => object = Gone \/ minted) /\ ~ReleaseAhead
        BY <1>1, <2>10 DEF PassOk, Forgets, At, ReleaseAhead
      <3>2. ASSUME NEW d \in Crons, d # c PROVE PassOk(me[d])'
        <4>1. me'[d] = me[d] /\ PassOk(me[d])
          BY <2>4, <3>2 DEF Queued, Procs
        <4> QED BY <2>1, <2>5, <2>10, <3>1, <4>1 DEF PassOk
      <3>3. \A d \in Crons : PassOk(me[d])'
        BY <2>7, <3>2
      <3> QED BY <1>1, <2>1, <2>5, <2>6, <2>10, <3>1, <3>3 DEF Queued, Spooled
    <2> QED BY <2>1, <2>9, <2>10
  <1> QED BY <1>5, <1>6, <1>7, <1>8, <1>9, <1>10, <1>11 DEF CronStep

\* A send that moves to l, naming the key or not, leaves every other process
\* where it is.
LEMMA RowSendMoves ==
    ASSUME Inv, NEW s \in Sends, NEW l \in Process,
           me' \in {[me EXCEPT ![s] = l], Named([me EXCEPT ![s] = l], s)}
    PROVE  /\ me'[s].at = l.at
           /\ \A p \in Procs \ {s} : /\ me'[p].at = me[p].at /\ me'[p].then = me[p].then
                                     /\ me'[p].round = me[p].round /\ me'[p].looked = me[p].looked
  <1>1. s \in Procs /\ me \in [Procs -> Process]
    BY DEF Procs, Inv, Processes
  <1>2. ASSUME NEW m \in [Procs -> Process], NEW p \in Procs
        PROVE  /\ Named(m, s)[p].at = m[p].at /\ Named(m, s)[p].then = m[p].then
               /\ Named(m, s)[p].round = m[p].round /\ Named(m, s)[p].looked = m[p].looked
    <2>1. m[p] \in Process
      OBVIOUS
    <2> QED BY <2>1, ProcessIs DEF Named
  <1>3. CASE me' = [me EXCEPT ![s] = l]
    BY <1>1, <1>3
  <1>4. CASE me' = Named([me EXCEPT ![s] = l], s)
    <2> DEFINE m == [me EXCEPT ![s] = l]
    <2>1. m \in [Procs -> Process] /\ m[s] = l /\ \A p \in Procs \ {s} : m[p] = me[p]
      BY <1>1
    <2>2. me' = Named(m, s)
      BY <1>4
    <2> HIDE DEF m
    <2> QED BY <1>1, <1>2, <2>1, <2>2
  <1> QED BY <1>3, <1>4

\* The steps of a send, where none owes a fee.
LEMMA SendQueued ==
    ASSUME Inv, Queued, FeeSends = {}, NEW s \in Sends, SendStep(s)
    PROVE  Queued'
  <1>1. s \in Procs /\ me[s] \in Process /\ RowSendOk(s)
    BY Mine DEF Procs, Queued
  <1>2. ASSUME NEW l \in Process, me' \in {[me EXCEPT ![s] = l], Named([me EXCEPT ![s] = l], s)},
               UNCHANGED <<setting, object, early, fee, announce, released, minted>>,
               rows' \in {rows, [rows EXCEPT ![s] = "names"]},
               l.at \in {"handoff", "insert", "claimed", "bytes", "forget", "done", "failed"},
               ~Spooled, s \in RowSends,
               l.at \in {"handoff", "insert"} => rows' = rows,
               me[s].at \in {"new", "handoff", "insert"} \/ (l.at \notin {"handoff", "insert"} /\ rows' = rows)
        PROVE  Queued'
    <2>1. /\ me'[s].at = l.at
          /\ \A p \in Procs \ {s} : /\ me'[p].at = me[p].at /\ me'[p].then = me[p].then
                                    /\ me'[p].round = me[p].round /\ me'[p].looked = me[p].looked
      BY <1>2, RowSendMoves
    <2>2. rows \in [Sends -> {"none", "names", "gone"}]
      BY DEF Inv, TablesOK
    <2>3. /\ \A t \in Sends \ {s} : rows'[t] = rows[t]
          /\ rows'[s] = rows[s] \/ (rows[s] = "none" /\ rows'[s] = "names")
      BY <1>1, <1>2, <2>2 DEF RowSendOk
    <2>4. RowSendOk(s)'
      BY <1>1, <1>2, <2>1 DEF RowSendOk, Spooled, RowSends
    <2>5. \A t \in Sends \ {s} : t \in Procs \ {s}
      BY DEF Procs
    <2>6. \A c \in Crons : c \in Procs \ {s}
      BY CronsAreNoSends DEF Procs
    <2> QED BY <1>2, <2>1, <2>3, <2>4, <2>5, <2>6, RowSendQueued
  <1>3. ASSUME NEW at \in {"handoff", "done", "claimed", "bytes", "forget", "failed"}
        PROVE  [me[s] EXCEPT !.at = at] \in Process /\ [me[s] EXCEPT !.at = at].at = at
    <2>1. at \in Steps
      BY StepsAre
    <2>2. PICK l \in Process : l = me[s]
      BY <1>1
    <2>3. [l EXCEPT !.at = at] \in Process
      BY <2>1, AtType
    <2>4. [l EXCEPT !.at = at].at = at
      BY AtFields
    <2> QED BY <2>2, <2>3, <2>4
  <1>4. ASSUME NEW at \in {"handoff", "done", "bytes", "forget"},
               me' = [me EXCEPT ![s] = [me[s] EXCEPT !.at = at]],
               UNCHANGED <<setting, object, early, rows, fee, announce, released, minted>>,
               ~Spooled, s \in RowSends, at = "handoff" => At(s, "new")
        PROVE  Queued'
    <2> DEFINE l == [me[s] EXCEPT !.at = at]
    <2>1. l \in Process /\ l.at = at /\ me' = [me EXCEPT ![s] = l]
      BY <1>3, <1>4
    <2> HIDE DEF l
    <2> QED BY <1>2, <1>4, <2>1 DEF At
  <1>5. CASE Arrive(s)
    <2>1. s \in RowSends /\ At(s, "new") /\ setting \in Settings
      BY <1>5 DEF Arrive, Inv, TablesOK
    <2>2. ~Spooled
      BY <2>1, SettingsPay DEF Spooled, RowSends, FeeSends
    <2>3. me' = [me EXCEPT ![s] = [me[s] EXCEPT !.at = "handoff"]]
      BY <1>5, <2>2 DEF Arrive, Goes
    <2> QED BY <1>4, <1>5, <2>1, <2>2, <2>3 DEF Arrive, tables
  <1>6. CASE ~At(s, "new")
    <2>1. ~Spooled /\ s \in RowSends
      BY <1>1, <1>6 DEF RowSendOk, At
    <2>2. CASE HandOff(s)
      <3>1. UNCHANGED <<setting, object, early, rows, fee, announce, released, minted>> /\ At(s, "handoff")
        BY <2>2 DEF HandOff, tables
      <3>2. CASE Goes(s, "done")
        BY <1>4, <2>1, <3>1, <3>2 DEF Goes
      <3>3. CASE me' = [me EXCEPT ![s].at = "insert", ![s].etag = object, ![s].kept = TRUE]
        <4> DEFINE l == [me[s] EXCEPT !.at = "insert", !.etag = object, !.kept = TRUE]
        <4>1. object \in Etags \cup {Gone} /\ "insert" \in Steps
          BY StepsAre DEF Inv, TablesOK
        <4>2. l \in Process /\ l.at = "insert"
          BY <1>1, <4>1, ProcessIs
        <4>3. me' = [me EXCEPT ![s] = l]
          BY <3>3
        <4> HIDE DEF l
        <4> QED BY <1>2, <2>1, <3>1, <4>2, <4>3 DEF At
      <3> QED BY <2>1, <2>2, <3>2, <3>3 DEF HandOff
    <2>3. CASE HandOffFails(s) \/ ReadClaim(s) \/ ReadBytes(s) \/ OrphanReadFails(s)
      <3>1. UNCHANGED <<setting, object, early, rows, fee, announce, released, minted>>
        BY <2>3 DEF HandOffFails, ReadClaim, ReadBytes, OrphanReadFails, tables
      <3>2. \E at \in {"done", "bytes", "forget"} : me' = [me EXCEPT ![s] = [me[s] EXCEPT !.at = at]]
        BY <2>3 DEF HandOffFails, ReadClaim, ReadBytes, OrphanReadFails, Goes
      <3> QED BY <1>4, <2>1, <3>1, <3>2
    <2>4. CASE ForgetUnnamed(s)
      <3>1. me' = [me EXCEPT ![s] = [me[s] EXCEPT !.at = "done"]]
        BY <2>1, <2>4 DEF ForgetUnnamed
      <3> QED BY <1>4, <2>1, <2>4, <3>1 DEF ForgetUnnamed, tables
    <2>5. CASE InsertMessage(s)
      <3>1. PICK at \in {"claimed", "forget"} :
              me' = Named([me EXCEPT ![s] = [me[s] EXCEPT !.at = at]], s)
        BY <2>5 DEF InsertMessage
      <3> DEFINE l == [me[s] EXCEPT !.at = at]
      <3>2. l \in Process /\ l.at = at /\ me' = Named([me EXCEPT ![s] = l], s)
        BY <1>3, <3>1
      <3>3. rows' = [rows EXCEPT ![s] = "names"] /\ At(s, "insert")
        BY <2>1, <2>5 DEF InsertMessage
      <3> HIDE DEF l
      <3> QED BY <1>2, <2>1, <2>5, <3>2, <3>3 DEF InsertMessage, At
    <2>6. CASE InsertFails(s)
      <3> DEFINE l == [me[s] EXCEPT !.at = "failed"]
      <3>1. me' \in {[me EXCEPT ![s] = l], Named([me EXCEPT ![s] = l], s)}
        BY <2>1, <2>6 DEF InsertFails
      <3>2. l \in Process /\ l.at = "failed"
        BY <1>3
      <3>3. rows' \in {rows, [rows EXCEPT ![s] = "names"]} /\ At(s, "insert")
        BY <2>6 DEF InsertFails
      <3> HIDE DEF l
      <3> QED BY <1>2, <2>1, <2>6, <3>1, <3>2, <3>3 DEF InsertFails, At
    <2> QED BY <1>1, <1>5, <1>6, <2>2, <2>3, <2>4, <2>5, <2>6
         DEF SendStep, RowSendOk, At, Arrive, Mint, Spool, Door, AnnounceTaken, OweAnnounce,
             Internalize, Defer, ReadWord, EndFee
  <1> QED BY <1>5, <1>6 DEF SendStep, At, Mint, Spool, Door, HandOff, AnnounceTaken, OweAnnounce,
             Internalize, Defer, ReadWord, EndFee, HandOffFails, InsertMessage, InsertFails,
             ReadClaim, ReadBytes, OrphanReadFails, ForgetUnnamed

\* A row let go of is put on the list of the released.
LEMMA LetGoQueued ==
    ASSUME Inv, Queued, NEW s \in Sends, LetGo(s)
    PROVE  Queued'
  <1>1. rows \in [Sends -> {"none", "names", "gone"}]
    BY DEF Inv, TablesOK
  <1>2. /\ UNCHANGED <<setting, object, early, fee, announce, minted, me>> /\ released'
        /\ rows[s] = "names" /\ rows' = [rows EXCEPT ![s] = "gone"]
    BY DEF LetGo
  <1>3. SomeNames /\ SomeLetGo' /\ (OneRow' => OneRow)
    BY <1>1, <1>2 DEF OneRow, SomeNames, SomeLetGo
  <1>4. OneRow => ~SomeLetGo
    BY <1>2 DEF OneRow, SomeLetGo
  <1>5. \A t \in Sends : RowSendOk(t)'
    BY <1>1, <1>2 DEF Queued, RowSendOk, Spooled, RowSends
  <1>6. OneRow' => ReleaseAhead'
    <2> SUFFICES ASSUME OneRow', NEW c \in Crons
                 PROVE  ~Forgets(me[c], "forget") /\ ~SecondFor(me[c], "forget")
      BY <1>2 DEF ReleaseAhead
    <2>1. PassOk(me[c])
      BY DEF Queued
    <2> QED BY <1>3, <1>4, <2>1 DEF PassOk, SecondFor
  <1>7. ASSUME NEW c \in Crons PROVE PassOk(me[c])'
    <2>1. PassOk(me[c])
      BY DEF Queued
    <2> QED BY <1>2, <1>3, <1>4, <1>6, <2>1 DEF PassOk, SecondFor
  <1> QED BY <1>2, <1>3, <1>5, <1>7 DEF Queued, Spooled

\* An upload comes while its record is kept, and before any pass may take it.
LEMMA UploadQueued ==
    ASSUME Inv, Queued, NEW e \in Etags, Upload(e)
    PROVE  Queued'
  <1>1. ~Spooled /\ early /\ minted /\ object' = e
        /\ UNCHANGED <<setting, early, rows, fee, announce, released, minted, me>>
    BY DEF Upload, tables, Queued
  <1>2. (OneRow' <=> OneRow) /\ (SomeNames' <=> SomeNames) /\ (SomeLetGo' <=> SomeLetGo)
    BY <1>1 DEF OneRow, SomeNames, SomeLetGo
  <1>3. \A t \in Sends : RowSendOk(t)'
    BY <1>1 DEF Queued, RowSendOk, Spooled, RowSends
  <1>4. ASSUME NEW c \in Crons PROVE PassOk(me[c])'
    <2>1. PassOk(me[c])
      BY DEF Queued
    <2> QED BY <1>1, <1>2, <2>1 DEF PassOk, SecondFor
  <1> QED BY <1>1, <1>2, <1>3, <1>4 DEF Queued, Spooled

\* The rest leaves what the passes go by as it is.
LEMMA StandQueued ==
    ASSUME Queued, UNCHANGED <<setting, object, rows, fee, announce, released, minted, me>>,
           early' \in {early, FALSE}
    PROVE  Queued'
  <1>1. /\ (OneRow' <=> OneRow) /\ (SomeNames' <=> SomeNames) /\ (SomeLetGo' <=> SomeLetGo)
        /\ (ReleaseAhead' <=> ReleaseAhead)
    BY DEF OneRow, SomeNames, SomeLetGo, ReleaseAhead
  <1>2. early' => early
    OBVIOUS
  <1>3. \A t \in Sends : RowSendOk(t)'
    BY DEF Queued, RowSendOk, Spooled, RowSends
  <1>4. ASSUME NEW c \in Crons PROVE PassOk(me[c])'
    <2>1. PassOk(me[c])
      BY DEF Queued
    <2>2. ASSUME NEW then \in {"forget", "forgetMinted"}
          PROVE  /\ ReclaimsFor(me[c], then)' <=> ReclaimsFor(me[c], then)
                 /\ SecondFor(me[c], then)' <=> SecondFor(me[c], then)
                 /\ Forgets(me[c], then)' <=> Forgets(me[c], then)
      BY DEF ReclaimsFor, SecondFor, Forgets
    <2> QED BY <1>1, <1>2, <2>1, <2>2 DEF PassOk
  <1> QED BY <1>1, <1>3, <1>4, <1>2 DEF Queued, Spooled

\* The setting is chosen once.
LEMMA SettingStays ==
    ASSUME [Next]_vars
    PROVE  setting' = setting
  <1>1. ASSUME NEW p \in Procs, Reclaim(p) PROVE setting' = setting
    BY <1>1 DEF Reclaim, Claim, Look, Stamp, Restamp, Clear, ReclaimFails, Unclaim
  <1>2. ASSUME NEW s \in Sends, SendStep(s) \/ LetGo(s) PROVE setting' = setting
    BY <1>2 DEF SendStep, Arrive, Mint, Spool, Door, HandOff, AnnounceTaken, OweAnnounce,
             Internalize, Defer, ReadWord, EndFee, HandOffFails, InsertMessage, InsertFails,
             ReadClaim, ReadBytes, OrphanReadFails, ForgetUnnamed, LetGo
  <1>3. ASSUME NEW c \in Crons, CronStep(c) PROVE setting' = setting
    BY <1>3 DEF CronStep, Wake, NothingDue, NotYet, PassFails, AnnounceDue, Reask, Announced,
             FeeDue, FeeStamp, FeeAsk, Settle, ClearWord, PutOff, SetWord, FeeEnds, MintedDue,
             ForgetMinted, ReleasedDue, Forget
  <1> QED BY <1>1, <1>2, <1>3 DEF Next, vars, Upload, DeadlineComes, ClaimExpires, WordExpires,
             StoresRecover

\* Every step keeps what is queued, where no send owes a fee.
LEMMA NextQueued ==
    ASSUME Inv, FeeSends = {} => Queued, [Next]_vars
    PROVE  (FeeSends = {} => Queued)'
  <1> SUFFICES ASSUME FeeSends = {} PROVE Queued'
    BY SettingStays DEF FeeSends
  <1>1. CASE \E p \in Procs : Reclaim(p)
    <2>1. PICK p \in Procs : Reclaim(p)
      BY <1>1
    <2>2. p \notin Sends
      <3>1. me[p].at \in ReclaimSteps
        BY <2>1 DEF Reclaim, Claim, Look, Stamp, Restamp, Clear, ReclaimFails, Unclaim, At,
                    ReclaimSteps
      <3> QED BY <3>1 DEF Queued, RowSendOk, ReclaimSteps
    <2> QED BY <2>1, <2>2, ReclaimQueued DEF Procs
  <1>2. CASE \E s \in Sends : SendStep(s) \/ LetGo(s)
    BY <1>2, SendQueued, LetGoQueued
  <1>3. CASE \E c \in Crons : CronStep(c)
    BY <1>3, CronQueued
  <1>4. CASE \E e \in Etags : Upload(e)
    BY <1>4, UploadQueued
  <1>5. CASE DeadlineComes \/ ClaimExpires \/ WordExpires \/ StoresRecover \/ UNCHANGED vars
    <2>1. /\ UNCHANGED <<setting, object, rows, fee, announce, released, minted, me>>
          /\ early' \in {early, FALSE}
      BY <1>5 DEF DeadlineComes, ClaimExpires, WordExpires, StoresRecover, vars, tables
    <2> QED BY <2>1, StandQueued
  <1> QED BY <1>1, <1>2, <1>3, <1>4, <1>5 DEF Next

\* At the start nothing is at rest.
LEMMA InitQueued == Init => Queued
  <1> SUFFICES ASSUME Init PROVE Queued
    OBVIOUS
  <1>1. \A s \in Sends : rows[s] = "none" /\ me[s].at = "new"
    BY DEF Init, Procs, Local
  <1>2. \A c \in Crons : me[c].at = "idle"
    BY CronsAreNoSends DEF Init, Procs, Local
  <1>3. \A c \in Crons : PassOk(me[c])
    BY <1>2 DEF PassOk, ReclaimsFor, SecondFor, Forgets, ReclaimSteps
  <1> QED BY <1>1, <1>3 DEF Init, Queued, RowSendOk

\* Whatever the sends, the scheduled events, the uploads and failing stores
\* do, the tables and the locals of every process keep their types, and no
\* fee counts as many attempts as FEE_ATTEMPTS_CEILING.
THEOREM TypeCorrect == Spec => []TypeOK
  <1>1. Inv => TypeOK
    BY DEF Inv, TablesOK, FeesOK, Processes, TypeOK
  <1> QED BY <1>1, Invariant, PTL

\* reclaim deletes only what it has looked at: a row, a fee or an announcement
\* that names the key when the delete comes was written after the second look
\* began, with any number of reclaims at one key.
THEOREM OlderNamesSpared == Spec => []OlderNamesAreSpared
  <1>1. Inv => OlderNamesAreSpared
    <2> SUFFICES ASSUME Inv, NEW p \in Procs, me[p].at \in {"restamp", "clear"}
                 PROVE  Names \subseteq me[p].since
      BY DEF OlderNamesAreSpared
    <2>1. Looked(me[p], rows, fee, announce)
      BY Mine
    <2> QED BY <2>1 DEF Looked, Names
  <1> QED BY <1>1, Invariant, PTL

\* A send told "deferred" has its fee in fee_internalize until the drain or
\* the wallet's word is done with it, whatever else is sent with the key: but
\* for an upload that met another one's fee there.
THEOREM DeferredFeesAreOwed == Spec => []DeferredIsOwed
  <1>1. Inv => DeferredIsOwed
    BY DEF Inv, LedgerOk, SendOk, Owing, DeferredIsOwed
  <1> QED BY <1>1, Invariant, PTL

\* What the one row of a key that owes no fee let go of stays on a list the
\* scheduled event looks at, whatever passes overlap, whichever step of theirs
\* fails and however late an upload comes: no object is left that nothing
\* names and nothing will look at.
THEOREM LetGoStaysQueued == Spec => []LetGoIsQueued
  <1>1. Inv /\ (FeeSends = {} => Queued) => LetGoIsQueued
    BY DEF LetGoIsQueued, Queued, OneRow, SomeNames, Names
  <1>2. Init => (FeeSends = {} => Queued)
    BY InitQueued
  <1>3. Inv /\ (FeeSends = {} => Queued) /\ [Next]_vars => (FeeSends = {} => Queued)'
    BY NextQueued
  <1> QED BY <1>1, <1>2, <1>3, Invariant, PTL DEF Spec
=============================================================================
