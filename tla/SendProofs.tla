----------------------------- MODULE SendProofs -----------------------------
(***************************************************************************)
(* Proofs about SendRoute, for any senders, recipients, fees, windows and  *)
(* workloads.  A send that is answered success has its rows stored         *)
(* (StoredInv), the fee it was judged by is recent (FeeInv), and what is   *)
(* let through in an open window is within the budget (BudgetInv).         *)
(*                                                                         *)
(* The first needs where a request is between its recipients, the second   *)
(* since when D1 gave each answer that a hub's copy, an unfinished read of *)
(* a hub or a request holds, and that a hub's late answer is never taken   *)
(* for the one a caller waits for, the third that an open window holds at  *)
(* least what was let through in it.                                       *)
(***************************************************************************)
EXTENDS SendRoute, SequenceTheorems, TLAPS

-----------------------------------------------------------------------------
(* The shapes *)

Pcs == Answered \cup {"new", "context", "asked", "charge", "settle", "row", "readBack"}
Asking == {"new", "context", "asked"}

PermRow == [by : [Senders -> Int], wide : Seq(Int)]
Copies == [Recipients -> [Senders -> [fee : Int, at : Int]]]
UsedFee == [fee : Int, at : Nat]
ReqRow == [pc : Pcs, n : Nat, fees : Seq(UsedFee), boxed : Seq(BOOLEAN), window : Nat,
           tries : Nat, again : Nat]
Windows == [Senders -> [0 .. work.ticks -> [sends : Nat, bytes : Nat]]]

\* The permissions, the hubs' copies of them and the clock.
PermTyped ==
    /\ work \in Works /\ now \in 0 .. work.ticks
    /\ perms \in [Recipients -> PermRow]
    /\ copy \in Copies
    /\ setting \in [n : Nat, pc : {"write", "forget", "answered", "failed"}, tries : Nat]
    /\ setting.pc \in {"write", "forget"} => setting.n \in DOMAIN work.sets
    /\ setting.n <= Len(work.sets)
    /\ dropped \subseteq DOMAIN work.sets
    /\ DOMAIN seen = 0 .. work.ticks /\ seen = [t \in 0 .. work.ticks |-> seen[t]]

\* A request is at one of its recipients, with the fees of those it asked for.
RequestInStep(q) ==
    LET r == req[q]
    IN  /\ r.n \in DOMAIN Send(q).to
        /\ r.window \in 0 .. work.ticks
        /\ r.pc \in Asking => Len(r.fees) = r.n - 1 /\ Len(r.boxed) = r.n - 1
        /\ r.pc \in {"charge", "settle"} => r.n = 1
        /\ r.pc \in {"charge", "settle", "row", "readBack"} => Len(r.boxed) = Len(Send(q).to)

RequestsTyped ==
    /\ req \in [Requests -> ReqRow]
    /\ \A q \in Requests : RequestInStep(q)

-----------------------------------------------------------------------------
(* Permissions *)

\* A setting keeps the shape of the table.
LEMMA UpsertedTyped ==
    ASSUME NEW p \in [Recipients -> PermRow], NEW x, x.fee \in Int
    PROVE  Upserted(p, x) \in [Recipients -> PermRow]
<1>1. CASE x.from = Anyone
  <2>1. Upserted(p, x) = [p EXCEPT ![x.to] = [p[x.to] EXCEPT !.wide = Append(p[x.to].wide, x.fee)]]
    BY <1>1 DEF Upserted
  <2>2. x.to \in Recipients => [p[x.to] EXCEPT !.wide = Append(p[x.to].wide, x.fee)] \in PermRow
    <3>1. x.to \in Recipients => p[x.to] \in PermRow /\ Append(p[x.to].wide, x.fee) \in Seq(Int)
      BY AppendProperties DEF PermRow
    <3> QED
      BY <3>1 DEF PermRow
  <2> QED
    BY <2>1, <2>2
<1>2. CASE x.from # Anyone
  <2>1. Upserted(p, x) = [p EXCEPT ![x.to] = [p[x.to] EXCEPT !.by = [p[x.to].by EXCEPT ![x.from] = x.fee]]]
    BY <1>2 DEF Upserted
  <2>2. x.to \in Recipients => [p[x.to] EXCEPT !.by = [p[x.to].by EXCEPT ![x.from] = x.fee]] \in PermRow
    <3>1. x.to \in Recipients => p[x.to] \in PermRow /\ [p[x.to].by EXCEPT ![x.from] = x.fee] \in [Senders -> Int]
      BY DEF PermRow
    <3> QED
      BY <3>1 DEF PermRow
  <2> QED
    BY <2>1, <2>2
<1> QED
  BY <1>1, <1>2

\* What D1 answers is a fee.
LEMMA FeeInTyped ==
    ASSUME NEW p \in [Recipients -> PermRow], NEW r \in Recipients, NEW s \in Senders
    PROVE  FeeIn(p, r, s) \in Int /\ <<r, s, FeeIn(p, r, s)>> \in Answers(p)
<1>1. p[r].by[s] \in Int /\ p[r].wide \in Seq(Int) /\ DefaultFee \in Int
  BY PermissionBounds DEF PermRow
<1>2. p[r].wide # <<>> => Head(p[r].wide) \in Int
  BY <1>1, HeadTailProperties
<1>3. FeeIn(p, r, s) \in Int
  BY <1>1, <1>2 DEF FeeIn
<1>4. <<r, s, FeeIn(p, r, s)>> \in Answers(p)
  BY DEF Answers
<1> QED
  BY <1>3, <1>4

\* The settings and the defaults a quote writes are fees.
LEMMA SettingsTyped ==
    ASSUME PermTyped
    PROVE  /\ setting.pc \in {"write", "forget"} => Setting.fee \in Int
           /\ \A n \in DOMAIN work.sets : work.sets[n].fee \in Int
           /\ DefaultFee \in Int /\ Len(work.sets) \in Nat /\ DOMAIN work.sets = 1 .. Len(work.sets)
BY PermissionWorks, PermissionBounds DEF PermTyped, Setting

\* What D1 could answer in this tick grows by what a change brings.
LEMMA SeenGrows ==
    ASSUME PermTyped, NEW p, seen' = SeenNow(p), work' = work
    PROVE  /\ DOMAIN seen' = 0 .. work.ticks /\ seen' = [t \in 0 .. work.ticks |-> seen'[t]]
           /\ seen'[now] = seen[now] \cup Answers(p)
           /\ \A t \in 0 .. work.ticks : seen[t] \subseteq seen'[t]
<1>1. now \in 0 .. work.ticks /\ DOMAIN seen = 0 .. work.ticks /\ seen = [t \in 0 .. work.ticks |-> seen[t]]
  BY DEF PermTyped
<1>2. seen' = [seen EXCEPT ![now] = seen[now] \cup Answers(p)]
  BY DEF SeenNow
<1>3. seen' = [t \in 0 .. work.ticks |-> IF t = now THEN seen[now] \cup Answers(p) ELSE seen[t]]
  BY <1>1, <1>2
<1> QED
  BY <1>1, <1>3

\* A step at the permissions: the shapes stay, D1's answers of this tick grow with
\* every change, and a hub's copies stay or go.
PermissionDoes ==
    /\ PermTyped' /\ work' = work /\ now' = now
    /\ \A t \in 0 .. work.ticks : seen[t] \subseteq seen'[t]
    /\ perms' = perms \/ Answers(perms') \subseteq seen'[now]
    /\ \A r \in Recipients, s \in Senders : copy'[r][s] = copy[r][s] \/ copy'[r][s] = NoCopy

\* A change of the table.
LEMMA TableChanges ==
    ASSUME PermTyped, NEW x, x.fee \in Int, perms' = Upserted(perms, x), seen' = SeenNow(perms'),
           UNCHANGED <<work, copy, now>>,
           setting' \in [n : Nat, pc : {"write", "forget", "answered", "failed"}, tries : Nat],
           setting'.pc \in {"write", "forget"} => setting'.n \in DOMAIN work.sets,
           setting'.n <= Len(work.sets), dropped' \subseteq DOMAIN work.sets
    PROVE  PermissionDoes
<1>1. perms' \in [Recipients -> PermRow]
  BY UpsertedTyped DEF PermTyped
<1>2. /\ DOMAIN seen' = 0 .. work.ticks /\ seen' = [t \in 0 .. work.ticks |-> seen'[t]]
      /\ seen'[now] = seen[now] \cup Answers(perms')
      /\ \A t \in 0 .. work.ticks : seen[t] \subseteq seen'[t]
  <2>1. PICK p : p = perms'
    OBVIOUS
  <2>2. seen' = SeenNow(p)
    BY <2>1
  <2> QED
    BY <2>1, <2>2, SeenGrows DEF Answers, FeeIn
<1>3. PermTyped'
  BY <1>1, <1>2 DEF PermTyped, Copies
<1> QED
  BY <1>2, <1>3 DEF PermissionDoes

\* A step that leaves the table and what was seen of it.
LEMMA TableStays ==
    ASSUME PermTyped, UNCHANGED <<work, perms, now, seen>>,
           copy' \in Copies,
           \A r \in Recipients, s \in Senders : copy'[r][s] = copy[r][s] \/ copy'[r][s] = NoCopy,
           setting' \in [n : Nat, pc : {"write", "forget", "answered", "failed"}, tries : Nat],
           setting'.pc \in {"write", "forget"} => setting'.n \in DOMAIN work.sets,
           setting'.n <= Len(work.sets), dropped' \subseteq DOMAIN work.sets
    PROVE  PermissionDoes
BY DEF PermTyped, PermissionDoes, Copies

\* Every step at the permissions.
LEMMA PermissionsMove == ASSUME PermTyped, PermissionStep PROVE PermissionDoes
<1> DEFINE Set == [n : Nat, pc : {"write", "forget", "answered", "failed"}, tries : Nat]
<1>1. /\ setting \in Set /\ setting.n <= Len(work.sets) /\ dropped \subseteq DOMAIN work.sets
      /\ setting.pc \in {"write", "forget"} => setting.n \in DOMAIN work.sets
      /\ copy \in Copies
  BY DEF PermTyped
<1>2. /\ setting.pc \in {"write", "forget"} => Setting.fee \in Int
      /\ \A n \in DOMAIN work.sets : work.sets[n].fee \in Int
      /\ DefaultFee \in Int /\ Len(work.sets) \in Nat /\ DOMAIN work.sets = 1 .. Len(work.sets)
  BY SettingsTyped
<1>3. CASE SetArrives
  <2>1. setting' = [n |-> setting.n + 1, pc |-> "write", tries |-> 0] /\ setting.n + 1 \in 1 .. Len(work.sets)
    BY <1>1, <1>2, <1>3 DEF SetArrives
  <2>2. setting' \in Set /\ setting'.n \in DOMAIN work.sets /\ setting'.n <= Len(work.sets)
    BY <1>2, <2>1
  <2> QED
    BY <1>1, <1>3, <2>2, TableStays DEF SetArrives
<1>4. CASE SetPermission
  <2>1. setting.pc = "write" /\ setting' = [setting EXCEPT !.pc = IF Sql THEN "forget" ELSE "answered"]
    BY <1>4 DEF SetPermission
  <2>2. setting' \in Set /\ setting'.n = setting.n
    BY <1>1, <2>1
  <2>3. PICK x : x = Setting
    OBVIOUS
  <2>4. x.fee \in Int /\ perms' = Upserted(perms, x)
    BY <1>2, <1>4, <2>1, <2>3 DEF SetPermission
  <2> QED
    BY <1>1, <1>4, <2>1, <2>2, <2>4, TableChanges DEF SetPermission
<1>5. CASE SetStalls
  <2>1. /\ setting.pc = "write" /\ dropped' = dropped \cup {setting.n}
        /\ setting' = [setting EXCEPT !.tries = setting.tries + 1,
                                      !.pc = IF setting.tries + 1 = Attempts THEN "failed" ELSE setting.pc]
    BY <1>5 DEF SetStalls
  <2>2. setting.tries + 1 \in Nat
    BY <1>1
  <2>3. setting' \in Set /\ setting'.n = setting.n
    BY <1>1, <2>1, <2>2
  <2>4. dropped' \subseteq DOMAIN work.sets /\ setting.n \in DOMAIN work.sets
    BY <1>1, <2>1
  <2> QED
    BY <1>1, <1>5, <2>3, <2>4, TableStays DEF SetStalls
<1>6. ASSUME NEW n \in DOMAIN work.sets, DroppedSetLands(n) PROVE PermissionDoes
  <2>1. PICK x : x = work.sets[n]
    OBVIOUS
  <2>2. x.fee \in Int /\ perms' = Upserted(perms, x) /\ dropped' \subseteq DOMAIN work.sets
    BY <1>1, <1>2, <1>6, <2>1 DEF DroppedSetLands
  <2> QED
    BY <1>1, <1>6, <2>2, TableChanges DEF DroppedSetLands
<1>7. CASE ForgetPermissions
  <2>1. setting.pc = "forget" /\ setting' = [setting EXCEPT !.pc = "answered"]
    BY <1>7 DEF ForgetPermissions
  <2>2. setting' \in Set /\ setting'.n = setting.n /\ setting'.pc = "answered"
    BY <1>1, <2>1
  <2>3. /\ copy' \in Copies
        /\ \A r \in Recipients, s \in Senders : copy'[r][s] = copy[r][s] \/ copy'[r][s] = NoCopy
    <3>1. NoCopy \in [fee : Int, at : Int]
      BY DEF NoCopy, None, Never
    <3>2. PICK none : none = [s \in Senders |-> NoCopy]
      OBVIOUS
    <3>3. none \in [Senders -> [fee : Int, at : Int]] /\ \A s \in Senders : none[s] = NoCopy
      BY <3>1, <3>2
    <3>4. copy' = copy \/ copy' = [copy EXCEPT ![Setting.to] = none]
      BY <1>7, <3>2 DEF ForgetPermissions
    <3> QED
      BY <1>1, <3>3, <3>4 DEF Copies
  <2> QED
    BY <1>1, <1>7, <2>2, <2>3, TableStays DEF ForgetPermissions
<1>8. ASSUME NEW n \in DOMAIN work.quotes, QuoteReadsOwn(n) \/ QuoteReadsWide(n) PROVE PermissionDoes
  BY <1>1, <1>8, TableStays DEF QuoteReadsOwn, QuoteReadsWide
<1>9. ASSUME NEW n \in DOMAIN work.quotes, QuoteCreatesDefault(n) PROVE PermissionDoes
  <2>1. PICK x : x = [to |-> work.quotes[n].to, from |-> Anyone, fee |-> DefaultFee]
    OBVIOUS
  <2>2. x.fee \in Int /\ perms' = Upserted(perms, x)
    BY <1>2, <1>9, <2>1 DEF QuoteCreatesDefault
  <2> QED
    BY <1>1, <1>9, <2>2, TableChanges DEF QuoteCreatesDefault
<1> QED
  BY <1>3, <1>4, <1>5, <1>6, <1>7, <1>8, <1>9 DEF PermissionStep

-----------------------------------------------------------------------------
(* How a request moves *)

\* The windows of the budget.
LEMMA WindowsInTime ==
    ASSUME NEW t \in Nat
    PROVE  WindowOf(t) \in 0 .. t /\ WindowOf(t) <= WindowOf(t + 1)
<1> DEFINE d == t \div Window
           e == (t + 1) \div Window
<1>1. d \in Int /\ e \in Int
  BY SendBounds
<1>2. /\ t % Window \in 0 .. Window - 1 /\ t = Window * d + (t % Window)
      /\ (t + 1) % Window \in 0 .. Window - 1 /\ t + 1 = Window * e + ((t + 1) % Window)
  BY SendBounds
<1>3. Window * d \in Int /\ Window * e \in Int
  BY <1>1, SendBounds
<1>4. WindowOf(t) = Window * d /\ WindowOf(t + 1) = Window * e
  BY <1>2, <1>3, SendBounds DEF WindowOf
<1>5. t % Window <= t
  BY SendBounds
<1>6. WindowOf(t) \in 0 .. t
  BY <1>2, <1>5, SendBounds DEF WindowOf
<1> HIDE DEF d, e
<1>7. CASE e >= d
  BY <1>1, <1>4, <1>6, <1>7, SendBounds
<1>8. CASE e <= d - 1
  <2>1. Window * e <= Window * (d - 1)
    BY <1>1, <1>8, SendBounds
  <2>2. Window * (d - 1) = Window * d - Window
    BY <1>1, SendBounds
  <2> QED
    BY <1>1, <1>2, <1>3, <2>1, <2>2, SendBounds
<1> QED
  BY <1>1, <1>6, <1>7, <1>8

\* A step moves one request.
Moved(q) ==
    /\ req' \in [Requests -> ReqRow]
    /\ \A p \in Requests : p # q => req'[p] = req[p]
\* What it found out and which try of the client it is stay.
Keeps(q) ==
    /\ req'[q].fees = req[q].fees /\ req'[q].window = req[q].window
    /\ req'[q].again = req[q].again

\* It is answered, or goes on to the next part, at the same recipient.
Turns(q, pc) ==
    /\ Moved(q) /\ Keeps(q)
    /\ req'[q].pc = pc /\ req'[q].n = req[q].n /\ req'[q].tries = req[q].tries
    /\ req'[q].boxed = req[q].boxed

\* One recipient's context is known.
Learns(q, fee) ==
    /\ Moved(q)
    /\ req'[q].fees = Append(req[q].fees, [fee |-> fee, at |-> now])
    /\ Len(req'[q].boxed) = Len(req[q].boxed) + 1
    /\ req'[q].again = req[q].again /\ req'[q].tries = 0
    /\ \/ /\ ~IsLast(q) /\ req'[q].pc = "context"
          /\ req'[q].n = req[q].n + 1 /\ req'[q].window = req[q].window
       \/ /\ IsLast(q) /\ req'[q].pc \in {"blocked", "charge"}
          /\ req'[q].n = 1 /\ req'[q].window = WindowOf(now)

\* It tries again, or gives up.
Retries(q, pc) ==
    /\ Moved(q) /\ Keeps(q)
    /\ req'[q].pc \in {pc, "unavailable"} /\ req'[q].n = req[q].n
    /\ req'[q].tries = req[q].tries + 1 /\ req'[q].boxed = req[q].boxed

\* The row at hand is stored.
Stores(q) ==
    /\ Moved(q) /\ Keeps(q) /\ req'[q].boxed = req[q].boxed
    /\ \/ IsLast(q) /\ req'[q].pc = "success" /\ req'[q].n = req[q].n
       \/ ~IsLast(q) /\ req'[q].pc = "row" /\ req'[q].n = req[q].n + 1

\* Its recipient's box is there.
Boxes(q) ==
    /\ Moved(q) /\ Keeps(q)
    /\ req'[q].pc = req[q].pc /\ req'[q].n = req[q].n /\ req'[q].tries = req[q].tries
    /\ Len(req'[q].boxed) = Len(req[q].boxed)

\* The client sends it again.
Restarts(q) ==
    /\ Moved(q)
    /\ req'[q] = Fresh(req[q].again + 1)

\* One request takes a new record, the others keep theirs.
LEMMA ReqMoves ==
    ASSUME RequestsTyped, NEW q \in Requests, NEW r \in ReqRow, req' = [req EXCEPT ![q] = r]
    PROVE  Moved(q) /\ req'[q] = r
BY DEF RequestsTyped, Moved

\* Answer
LEMMA AnswerDoes ==
    ASSUME RequestsTyped, NEW q \in Requests, NEW pc \in Pcs, Answer(q, pc)
    PROVE  Turns(q, pc)
<1>1. req[q] \in ReqRow
  BY DEF RequestsTyped
<1>2. PICK r : r = [req[q] EXCEPT !.pc = pc]
  OBVIOUS
<1>3. /\ r \in ReqRow /\ r.pc = pc /\ r.n = req[q].n /\ r.tries = req[q].tries /\ r.boxed = req[q].boxed
      /\ r.fees = req[q].fees /\ r.window = req[q].window /\ r.again = req[q].again
  BY <1>1, <1>2 DEF ReqRow
<1>4. req' = [req EXCEPT ![q] = r]
  BY <1>2 DEF Answer
<1> QED
  BY <1>3, <1>4, ReqMoves DEF Turns, Keeps

\* Context
LEMMA ContextDoes ==
    ASSUME PermTyped, RequestsTyped, NEW q \in Requests, NEW fee \in Int, Context(q, fee)
    PROVE  Learns(q, fee)
<1>1. req[q] \in ReqRow /\ now \in Nat
  BY SendWorks DEF RequestsTyped, PermTyped
<1>2. req[q].fees \in Seq(UsedFee) /\ req[q].boxed \in Seq(BOOLEAN) /\ req[q].n \in Nat /\ req[q].n + 1 \in Nat
  BY <1>1 DEF ReqRow
<1>3. PICK fees : fees = Append(req[q].fees, [fee |-> fee, at |-> now])
  OBVIOUS
<1>4. fees \in Seq(UsedFee)
  <2>1. [fee |-> fee, at |-> now] \in UsedFee
    BY <1>1 DEF UsedFee
  <2> QED
    BY <1>2, <1>3, <2>1, AppendProperties
<1>5. PICK boxed : boxed = Append(req[q].boxed, To(q).who \in boxes)
  OBVIOUS
<1>6. boxed \in Seq(BOOLEAN) /\ Len(boxed) = Len(req[q].boxed) + 1
  <2>1. (To(q).who \in boxes) \in BOOLEAN
    OBVIOUS
  <2> QED
    BY <1>2, <1>5, <2>1, AppendProperties
<1>7. PICK pc : pc = IF \E n \in DOMAIN fees : fees[n].fee < 0 THEN "blocked" ELSE "charge"
  OBVIOUS
<1>8. pc \in {"blocked", "charge"} /\ pc \in Pcs /\ "context" \in Pcs
  BY <1>7 DEF Pcs, Answered
<1>9. WindowOf(now) \in Nat
  BY <1>1, WindowsInTime
<1>10. CASE ~IsLast(q)
  <2>1. PICK r : r = [req[q] EXCEPT !.fees = fees, !.boxed = boxed, !.n = req[q].n + 1, !.tries = 0, !.pc = "context"]
    OBVIOUS
  <2>2. /\ r \in ReqRow /\ r.fees = fees /\ r.boxed = boxed /\ r.n = req[q].n + 1 /\ r.tries = 0
        /\ r.pc = "context" /\ r.again = req[q].again /\ r.window = req[q].window
    BY <1>1, <1>2, <1>4, <1>6, <1>8, <2>1 DEF ReqRow
  <2>3. req' = [req EXCEPT ![q] = r]
    BY <1>3, <1>5, <1>10, <2>1 DEF Context
  <2> QED
    BY <1>3, <1>6, <1>10, <2>2, <2>3, ReqMoves DEF Learns
<1>11. CASE IsLast(q)
  <2>1. PICK r : r = [req[q] EXCEPT !.fees = fees, !.boxed = boxed, !.n = 1, !.tries = 0,
                                    !.window = WindowOf(now), !.pc = pc]
    OBVIOUS
  <2>2. /\ r \in ReqRow /\ r.fees = fees /\ r.boxed = boxed /\ r.n = 1 /\ r.tries = 0
        /\ r.pc = pc /\ r.again = req[q].again /\ r.window = WindowOf(now)
    BY <1>1, <1>4, <1>6, <1>8, <1>9, <2>1 DEF ReqRow
  <2>3. req' = [req EXCEPT ![q] = r]
    BY <1>3, <1>5, <1>7, <1>11, <2>1 DEF Context
  <2> QED
    BY <1>3, <1>6, <1>8, <1>11, <2>2, <2>3, ReqMoves DEF Learns
<1> QED
  BY <1>10, <1>11

\* post_with_retry and with_d1_write_retry
LEMMA TriedDoes ==
    ASSUME RequestsTyped, NEW q \in Requests, NEW bound, NEW pc \in Pcs, Tried(q, bound, pc)
    PROVE  Retries(q, pc)
<1>1. req[q] \in ReqRow /\ req[q].tries + 1 \in Nat
  BY DEF RequestsTyped, ReqRow
<1>2. PICK next : next = IF req[q].tries + 1 = bound THEN "unavailable" ELSE pc
  OBVIOUS
<1>3. next \in {pc, "unavailable"} /\ next \in Pcs
  BY <1>2 DEF Pcs, Answered
<1>4. PICK r : r = [req[q] EXCEPT !.tries = req[q].tries + 1, !.pc = next]
  OBVIOUS
<1>5. /\ r \in ReqRow /\ r.pc = next /\ r.n = req[q].n /\ r.tries = req[q].tries + 1 /\ r.boxed = req[q].boxed
      /\ r.fees = req[q].fees /\ r.window = req[q].window /\ r.again = req[q].again
  BY <1>1, <1>3, <1>4 DEF ReqRow
<1>6. req' = [req EXCEPT ![q] = r]
  BY <1>2, <1>4 DEF Tried, RequestsTyped
<1> QED
  BY <1>3, <1>5, <1>6, ReqMoves DEF Retries, Keeps

\* Accepted
LEMMA AcceptedDoes ==
    ASSUME RequestsTyped, NEW q \in Requests, Accepted(q)
    PROVE  Stores(q)
<1>1. req[q] \in ReqRow /\ req[q].n + 1 \in Nat
  BY DEF RequestsTyped, ReqRow
<1>2. CASE IsLast(q)
  <2>1. PICK r : r = [req[q] EXCEPT !.pc = "success"]
    OBVIOUS
  <2>2. /\ r \in ReqRow /\ r.pc = "success" /\ r.n = req[q].n /\ r.boxed = req[q].boxed
        /\ r.fees = req[q].fees /\ r.window = req[q].window /\ r.again = req[q].again
    BY <1>1, <2>1 DEF ReqRow, Pcs, Answered
  <2>3. req' = [req EXCEPT ![q] = r]
    BY <1>2, <2>1 DEF Accepted
  <2> QED
    BY <1>2, <2>2, <2>3, ReqMoves DEF Stores, Keeps
<1>3. CASE ~IsLast(q)
  <2>1. PICK r : r = [req[q] EXCEPT !.n = req[q].n + 1, !.tries = 0, !.pc = "row"]
    OBVIOUS
  <2>2. /\ r \in ReqRow /\ r.pc = "row" /\ r.n = req[q].n + 1 /\ r.boxed = req[q].boxed
        /\ r.fees = req[q].fees /\ r.window = req[q].window /\ r.again = req[q].again
    BY <1>1, <2>1 DEF ReqRow, Pcs
  <2>3. req' = [req EXCEPT ![q] = r]
    BY <1>3, <2>1 DEF Accepted
  <2> QED
    BY <1>3, <2>2, <2>3, ReqMoves DEF Stores, Keeps
<1> QED
  BY <1>2, <1>3

\* get_or_create_message_box
LEMMA BoxDoes ==
    ASSUME RequestsTyped, NEW q \in Requests, req[q].pc = "row",
           req' = [req EXCEPT ![q].boxed[req[q].n] = TRUE]
    PROVE  Boxes(q)
<1>1. /\ req[q] \in ReqRow /\ req[q].boxed \in Seq(BOOLEAN) /\ Len(req[q].boxed) = Len(Send(q).to)
      /\ req[q].n \in DOMAIN Send(q).to
  BY DEF RequestsTyped, ReqRow, RequestInStep
<1>2. PICK b : b = [req[q].boxed EXCEPT ![req[q].n] = TRUE]
  OBVIOUS
<1>3. b \in Seq(BOOLEAN) /\ Len(b) = Len(req[q].boxed)
  <2>1. PICK k : k = req[q].n
    OBVIOUS
  <2>2. CASE k \in 1 .. Len(req[q].boxed)
    BY <1>1, <1>2, <2>1, <2>2, ExceptSeq
  <2>3. CASE k \notin 1 .. Len(req[q].boxed)
    <3>1. b = req[q].boxed
      BY <1>1, <1>2, <2>1, <2>3, LenProperties
    <3> QED
      BY <1>1, <3>1
  <2> QED
    BY <2>2, <2>3
<1>4. PICK r : r = [req[q] EXCEPT !.boxed = b]
  OBVIOUS
<1>5. /\ r \in ReqRow /\ r.pc = req[q].pc /\ r.n = req[q].n /\ r.tries = req[q].tries /\ r.boxed = b
      /\ r.fees = req[q].fees /\ r.window = req[q].window /\ r.again = req[q].again
  BY <1>1, <1>3, <1>4 DEF ReqRow
<1>6. req' = [req EXCEPT ![q] = r]
  BY <1>2, <1>4
<1> QED
  BY <1>3, <1>5, <1>6, ReqMoves DEF Boxes, Keeps

\* Resend
LEMMA ResendDoes ==
    ASSUME RequestsTyped, NEW q \in Requests, req' = [req EXCEPT ![q] = Fresh(req[q].again + 1)]
    PROVE  Restarts(q)
<1>1. req[q].again + 1 \in Nat
  BY DEF RequestsTyped, ReqRow
<1>2. PICK r : r = Fresh(req[q].again + 1)
  OBVIOUS
<1>3. r \in ReqRow
  <2>1. <<>> \in Seq(UsedFee) /\ <<>> \in Seq(BOOLEAN)
    BY EmptySeq
  <2> QED
    BY <1>1, <1>2, <2>1 DEF Fresh, ReqRow, Pcs
<1> QED
  BY <1>2, <1>3, ReqMoves DEF Restarts

\* Where an answer or a next part may follow.
Follows(from, pc) ==
    \/ pc \in Answered \ {"success", "duplicate"}
    \/ from \in {"row", "readBack"} /\ pc = "duplicate"
    \/ from = "new" /\ pc = "context"
    \/ from = "context" /\ pc = "asked"
    \/ from = "charge" /\ pc \in {"settle", "row"}
    \/ from = "settle" /\ pc = "row"
    \/ from = "row" /\ pc = "readBack"

\* Every way a request moves.
Goes(q) ==
    \/ req' = req
    \/ \E pc \in Pcs : Follows(req[q].pc, pc) /\ Turns(q, pc)
    \/ req[q].pc \in {"context", "asked"} /\ \E fee \in Int : Learns(q, fee)
    \/ req[q].pc \in {"context", "asked"} /\ Retries(q, "context")
    \/ req[q].pc = "row" /\ Retries(q, "row")
    \/ req[q].pc \in {"row", "readBack"} /\ Stores(q)
    \/ req[q].pc = "row" /\ Boxes(q)
    \/ req[q].pc = "unavailable" /\ req[q].again < work.resends /\ Restarts(q)

\* The recipient and the sender of a request.
LEMMA SendFacts ==
    ASSUME PermTyped, RequestsTyped, NEW q \in Requests
    PROVE  /\ From(q) \in Senders /\ To(q).who \in Recipients
           /\ Len(Send(q).to) \in Nat \ {0} /\ DOMAIN Send(q).to = 1 .. Len(Send(q).to)
           /\ req[q].n \in 1 .. Len(Send(q).to) /\ work.ticks \in Nat
           /\ \A n \in DOMAIN Send(q).to : Send(q).to[n].who \in Recipients
<1>1. work \in Works /\ q \in DOMAIN work.sends
  BY DEF PermTyped, Requests
<1>2. req[q].n \in DOMAIN Send(q).to
  BY DEF RequestsTyped, RequestInStep
<1>3. /\ Send(q).from \in Senders /\ Len(Send(q).to) \in Nat \ {0} /\ DOMAIN Send(q).to = 1 .. Len(Send(q).to)
      /\ \A n \in DOMAIN Send(q).to : Send(q).to[n].who \in Recipients
      /\ work.ticks \in Nat
  BY <1>1, SendWorks DEF Send
<1> QED
  BY <1>2, <1>3 DEF From, To

\* Each step of a request is one of these.
LEMMA RequestGoes ==
    ASSUME PermTyped, RequestsTyped, NEW q \in Requests, RequestStep(q)
    PROVE  Goes(q) /\ UNCHANGED <<work, permVars, now>>
<1>1. /\ Answered \subseteq Pcs
      /\ {"new", "context", "asked", "charge", "settle", "row", "readBack"} \subseteq Pcs
      /\ {"invalid", "off", "unavailable", "overBudget", "unpaid", "refused", "full"}
             \subseteq Answered \ {"success", "duplicate"}
      /\ "duplicate" \in Answered
  BY DEF Pcs, Answered
<1>2. ASSUME NEW pc \in Pcs, Answer(q, pc), Follows(req[q].pc, pc) PROVE Goes(q)
  BY <1>2, AnswerDoes DEF Goes
<1>3. CASE SendArrives(q) \/ LiveSendArrives(q)
  <2>1. PICK pc \in {"invalid", "off", "context"} : Answer(q, pc) /\ req[q].pc = "new"
    BY <1>3 DEF SendArrives, LiveSendArrives, ProcessSend, At
  <2>2. pc \in Pcs /\ Follows(req[q].pc, pc)
    BY <1>1, <2>1 DEF Follows
  <2> QED
    BY <1>2, <1>3, <2>1, <2>2 DEF SendArrives, LiveSendArrives
<1>4. CASE ReadContext(q)
  <2>1. FeeIn(perms, To(q).who, From(q)) \in Int
    BY SendFacts, FeeInTyped DEF PermTyped
  <2>2. PICK fee \in Int : Context(q, fee)
    BY <1>4, <2>1 DEF ReadContext
  <2> QED
    BY <1>4, <2>2, ContextDoes DEF Goes, ReadContext, At
<1>5. CASE ContextFails(q)
  <2>1. Follows(req[q].pc, "unavailable") /\ "unavailable" \in Pcs
    BY <1>1 DEF Follows
  <2> QED
    BY <1>2, <1>5, <2>1 DEF ContextFails
<1>6. CASE AskHub(q)
  <2>1. copy[To(q).who][From(q)].fee \in Int
    BY SendFacts DEF PermTyped, Copies
  <2>2. req[q].pc = "context"
    BY <1>6 DEF AskHub, At
  <2>3. CASE Context(q, copy[To(q).who][From(q)].fee)
    <3>1. PICK fee \in Int : Context(q, fee)
      BY <2>1, <2>3
    <3> QED
      BY <1>6, <2>2, <3>1, ContextDoes DEF Goes, AskHub
  <2>4. CASE Answer(q, "asked")
    BY <1>1, <1>2, <1>6, <2>2, <2>4 DEF Follows, AskHub
  <2> QED
    BY <1>6, <2>3, <2>4 DEF AskHub
<1>7. CASE ContextHopFails(q)
  BY <1>1, <1>7, TriedDoes DEF ContextHopFails, At, Goes
<1>8. CASE Charge(q) \/ ChargeUnanswered(q)
  <2>1. PICK pc \in {"overBudget", "row", "unpaid", "settle"} : Answer(q, pc) /\ req[q].pc = "charge"
    <3>1. AfterCharge(q) \in {"row", "unpaid", "settle"}
      BY DEF AfterCharge
    <3>2. PICK pc : /\ pc = AfterCharge(q) \/ pc = "overBudget"
                    /\ Answer(q, pc) /\ req[q].pc = "charge"
      BY <1>8 DEF Charge, ChargeUnanswered, At
    <3> QED
      BY <3>1, <3>2
  <2>2. pc \in Pcs /\ Follows(req[q].pc, pc)
    BY <1>1, <2>1 DEF Follows
  <2> QED
    BY <1>2, <1>8, <2>1, <2>2 DEF Charge, ChargeUnanswered
<1>9. CASE Settle(q)
  <2>1. PICK pc \in {"row", "refused", "unavailable"} : Answer(q, pc) /\ req[q].pc = "settle"
    BY <1>9 DEF Settle, At
  <2>2. pc \in Pcs /\ Follows(req[q].pc, pc)
    BY <1>1, <2>1 DEF Follows
  <2> QED
    BY <1>2, <1>9, <2>1, <2>2 DEF Settle
<1>10. CASE CreateBox(q)
  <2>1. CASE req' = [req EXCEPT ![q].boxed[req[q].n] = TRUE]
    BY <1>10, <2>1, BoxDoes DEF CreateBox, At, Goes
  <2>2. CASE Answer(q, "unavailable")
    BY <1>1, <1>2, <1>10, <2>2 DEF CreateBox, Follows
  <2> QED
    BY <1>10, <2>1, <2>2 DEF CreateBox
<1>11. CASE Insert(q)
  <2>1. req[q].pc = "row"
    BY <1>11 DEF Insert, At
  <2>2. CASE Accepted(q)
    BY <1>11, <2>1, <2>2, AcceptedDoes DEF Insert, Goes
  <2>3. CASE \E pc \in {"duplicate", "readBack"} : Answer(q, pc)
    <3>1. PICK pc \in {"duplicate", "readBack"} : Answer(q, pc)
      BY <2>3
    <3>2. pc \in Pcs /\ Follows(req[q].pc, pc)
      BY <1>1, <2>1, <3>1 DEF Follows
    <3> QED
      BY <1>2, <1>11, <3>1, <3>2 DEF Insert
  <2> QED
    BY <1>11, <2>2, <2>3 DEF Insert, Verdict
<1>12. CASE ReadBack(q)
  <2>1. req[q].pc = "readBack"
    BY <1>12 DEF ReadBack, At
  <2>2. CASE Accepted(q)
    BY <1>12, <2>1, <2>2, AcceptedDoes DEF ReadBack, Goes
  <2>3. CASE \E pc \in {"duplicate", "unavailable"} : Answer(q, pc)
    <3>1. PICK pc \in {"duplicate", "unavailable"} : Answer(q, pc)
      BY <2>3
    <3>2. pc \in Pcs /\ Follows(req[q].pc, pc)
      BY <1>1, <2>1, <3>1 DEF Follows
    <3> QED
      BY <1>2, <1>12, <3>1, <3>2 DEF ReadBack
  <2> QED
    BY <1>12, <2>2, <2>3 DEF ReadBack
<1>13. CASE InsertStalls(q) \/ HubInsertHopFails(q)
  BY <1>1, <1>13, TriedDoes DEF InsertStalls, HubInsertHopFails, At, Goes
<1>14. CASE HubInsert(q)
  <2>1. req[q].pc = "row"
    BY <1>14 DEF HubInsert, At
  <2>2. CASE Accepted(q)
    BY <1>14, <2>1, <2>2, AcceptedDoes DEF HubInsert, Goes
  <2>3. CASE \E pc \in {"duplicate", "full"} : Answer(q, pc)
    <3>1. PICK pc \in {"duplicate", "full"} : Answer(q, pc)
      BY <2>3
    <3>2. pc \in Pcs /\ Follows(req[q].pc, pc)
      BY <1>1, <2>1, <3>1 DEF Follows
    <3> QED
      BY <1>2, <1>14, <3>1, <3>2 DEF HubInsert
  <2> QED
    BY <1>14, <2>2, <2>3 DEF HubInsert
<1>15. CASE Push(q)
  BY <1>15 DEF Push, Goes
<1>16. CASE Resend(q)
  BY <1>16, ResendDoes DEF Resend, Goes, At
<1> QED
  BY <1>3, <1>4, <1>5, <1>6, <1>7, <1>8, <1>9, <1>10, <1>11, <1>12, <1>13, <1>14, <1>15, <1>16
     DEF RequestStep

\* However a request moves, it is at one of its recipients.
LEMMA GoesTyped ==
    ASSUME PermTyped, RequestsTyped, NEW q \in Requests, Goes(q), work' = work
    PROVE  RequestsTyped'
<1>1. /\ req[q] \in ReqRow /\ RequestInStep(q)
      /\ req[q].n \in Nat /\ req[q].fees \in Seq(UsedFee) /\ now \in 0 .. work.ticks
  BY DEF RequestsTyped, ReqRow, PermTyped
<1>2. /\ Len(Send(q).to) \in Nat \ {0} /\ DOMAIN Send(q).to = 1 .. Len(Send(q).to)
      /\ req[q].n \in 1 .. Len(Send(q).to) /\ work.ticks \in Nat
  BY SendFacts
<1>3. Requests' = Requests /\ Send(q)' = Send(q)
  BY DEF Requests, Send
<1>4. ASSUME Moved(q), RequestInStep(q)' PROVE RequestsTyped'
  <2>1. ASSUME NEW p \in Requests, p # q PROVE RequestInStep(p)'
    <3>1. req'[p] = req[p] /\ RequestInStep(p) /\ Send(p)' = Send(p)
      BY <1>4, <2>1 DEF Moved, RequestsTyped, Send
    <3> QED
      BY <3>1 DEF RequestInStep
  <2> QED
    BY <1>3, <1>4, <2>1 DEF RequestsTyped, Moved
<1>5. CASE req' = req
  BY <1>5 DEF RequestsTyped, RequestInStep, Requests, Send
<1>6. ASSUME NEW pc \in Pcs, Follows(req[q].pc, pc), Turns(q, pc) PROVE RequestsTyped'
  <2>1. /\ req'[q].pc = pc /\ req'[q].n = req[q].n /\ req'[q].boxed = req[q].boxed
        /\ req'[q].fees = req[q].fees /\ req'[q].window = req[q].window /\ Moved(q)
    BY <1>6 DEF Turns, Keeps
  <2>2. pc \in Asking => req[q].pc \in Asking
    BY <1>6 DEF Follows, Asking, Answered
  <2>3. pc \in {"charge", "settle"} => req[q].pc = "charge"
    BY <1>6 DEF Follows, Answered
  <2>4. pc \in {"row", "readBack"} => req[q].pc \in {"charge", "settle", "row"}
    BY <1>6 DEF Follows, Answered
  <2>5. RequestInStep(q)'
    BY <1>1, <1>3, <2>1, <2>2, <2>3, <2>4 DEF RequestInStep
  <2> QED
    BY <1>4, <2>1, <2>5
<1>7. ASSUME req[q].pc \in {"context", "asked"}, NEW fee \in Int, Learns(q, fee) PROVE RequestsTyped'
  <2>1. Len(req[q].fees) = req[q].n - 1 /\ Len(req[q].boxed) = req[q].n - 1 /\ req[q].window \in 0 .. work.ticks
    BY <1>1, <1>7 DEF RequestInStep, Asking
  <2>2. Len(req'[q].fees) = req[q].n /\ Len(req'[q].boxed) = req[q].n
    <3>1. [fee |-> fee, at |-> now] \in UsedFee
      BY <1>1, <1>2 DEF UsedFee
    <3>2. req'[q].fees = Append(req[q].fees, [fee |-> fee, at |-> now])
      BY <1>7 DEF Learns
    <3>3. Len(req'[q].fees) = Len(req[q].fees) + 1
      BY <1>1, <3>1, <3>2, AppendProperties
    <3>4. Len(req'[q].boxed) = Len(req[q].boxed) + 1
      BY <1>7 DEF Learns
    <3> QED
      BY <1>2, <2>1, <3>3, <3>4
  <2>3. CASE IsLast(q)
    <3>1. req'[q].pc \in {"blocked", "charge"} /\ req'[q].n = 1 /\ req'[q].window = WindowOf(now)
      BY <1>7, <2>3 DEF Learns
    <3>2. req[q].n = Len(Send(q).to)
      BY <2>3 DEF IsLast
    <3>3. WindowOf(now) \in 0 .. work.ticks
      BY <1>1, <1>2, WindowsInTime
    <3>4. RequestInStep(q)'
      BY <1>2, <1>3, <2>2, <3>1, <3>2, <3>3 DEF RequestInStep, Asking
    <3> QED
      BY <1>4, <1>7, <3>4 DEF Learns
  <2>4. CASE ~IsLast(q)
    <3>1. req'[q].pc = "context" /\ req'[q].n = req[q].n + 1 /\ req'[q].window = req[q].window
      BY <1>7, <2>4 DEF Learns
    <3>2. req[q].n + 1 \in 1 .. Len(Send(q).to) /\ (req[q].n + 1) - 1 = req[q].n
      BY <1>2, <2>4 DEF IsLast
    <3>3. RequestInStep(q)'
      BY <1>2, <1>3, <2>1, <2>2, <3>1, <3>2 DEF RequestInStep, Asking
    <3> QED
      BY <1>4, <1>7, <3>3 DEF Learns
  <2> QED
    BY <2>3, <2>4
<1>8. CASE /\ \/ req[q].pc \in {"context", "asked"} /\ Retries(q, "context")
              \/ req[q].pc = "row" /\ Retries(q, "row")
  <2>1. /\ Moved(q) /\ req'[q].n = req[q].n /\ req'[q].boxed = req[q].boxed
        /\ req'[q].fees = req[q].fees /\ req'[q].window = req[q].window
        /\ req'[q].pc = "unavailable" \/ req'[q].pc = req[q].pc
           \/ (req[q].pc = "asked" /\ req'[q].pc = "context")
    BY <1>8 DEF Retries, Keeps
  <2>2. RequestInStep(q)'
    BY <1>1, <1>3, <2>1 DEF RequestInStep, Asking
  <2> QED
    BY <1>4, <2>1, <2>2
<1>9. CASE req[q].pc \in {"row", "readBack"} /\ Stores(q)
  <2>1. /\ Moved(q) /\ req'[q].boxed = req[q].boxed /\ req'[q].window = req[q].window
        /\ \/ IsLast(q) /\ req'[q].pc = "success" /\ req'[q].n = req[q].n
           \/ ~IsLast(q) /\ req'[q].pc = "row" /\ req'[q].n = req[q].n + 1
    BY <1>9 DEF Stores, Keeps
  <2>2. ~IsLast(q) => req[q].n + 1 \in 1 .. Len(Send(q).to)
    BY <1>2 DEF IsLast
  <2>3. RequestInStep(q)'
    BY <1>1, <1>2, <1>3, <1>9, <2>1, <2>2 DEF RequestInStep, Asking
  <2> QED
    BY <1>4, <2>1, <2>3
<1>10. CASE req[q].pc = "row" /\ Boxes(q)
  <2>1. /\ Moved(q) /\ Len(req'[q].boxed) = Len(req[q].boxed) /\ req'[q].window = req[q].window
        /\ req'[q].pc = "row" /\ req'[q].n = req[q].n
    BY <1>10 DEF Boxes, Keeps
  <2>2. RequestInStep(q)'
    BY <1>1, <1>3, <1>10, <2>1 DEF RequestInStep, Asking
  <2> QED
    BY <1>4, <2>1, <2>2
<1>11. CASE Restarts(q)
  <2>1. /\ Moved(q) /\ req'[q].n = 1 /\ req'[q].window = 0 /\ req'[q].pc = "new"
        /\ req'[q].fees = <<>> /\ req'[q].boxed = <<>>
    BY <1>11 DEF Restarts, Fresh
  <2>2. RequestInStep(q)'
    BY <1>2, <1>3, <2>1 DEF RequestInStep, Asking
  <2> QED
    BY <1>4, <2>1, <2>2
<1> QED
  BY <1>5, <1>6, <1>7, <1>8, <1>9, <1>10, <1>11 DEF Goes

-----------------------------------------------------------------------------
(* The shapes are kept *)

AskRow == [of : [q : Requests, again : Nat, n : Nat, try : Nat], to : Recipients, from : Senders,
           stamp : Nat, fee : Int]

Shapes == PermTyped /\ RequestsTyped /\ asks \subseteq AskRow

\* What a request asks of a hub, and what the hub's handler reads.
LEMMA AskTyped ==
    ASSUME PermTyped, RequestsTyped, NEW q \in Requests
    PROVE  [of |-> Ask(q), to |-> To(q).who, from |-> From(q), stamp |-> now, fee |-> None] \in AskRow
<1>1. req[q].again \in Nat /\ req[q].n \in Nat /\ req[q].tries \in Nat
  BY DEF RequestsTyped, ReqRow
<1>2. Ask(q) \in [q : Requests, again : Nat, n : Nat, try : Nat]
  BY <1>1 DEF Ask
<1>3. now \in Nat /\ None \in Int
  BY SendFacts DEF PermTyped, None
<1> QED
  BY <1>2, <1>3, SendFacts DEF AskRow

\* What the steps of a hub's handlers and of a tick do.
LEMMA HubReadsDoes ==
    ASSUME Shapes, NEW a \in asks, HubReads(a)
    PROVE  /\ a \in AskRow
           /\ \E b \in AskRow :
                  /\ asks' = (asks \ {a}) \cup {b}
                  /\ b.of = a.of /\ b.to = a.to /\ b.from = a.from /\ b.stamp = a.stamp
                  /\ b.fee = FeeIn(perms, a.to, a.from)
           /\ UNCHANGED <<work, permVars, now, req>>
<1>1. a \in AskRow
  BY DEF Shapes
<1>2. FeeIn(perms, a.to, a.from) \in Int
  <2>1. a.to \in Recipients /\ a.from \in Senders
    BY <1>1 DEF AskRow
  <2> QED
    BY <2>1, FeeInTyped DEF Shapes, PermTyped
<1>3. PICK b : b = [a EXCEPT !.fee = FeeIn(perms, a.to, a.from)]
  OBVIOUS
<1>4. /\ b \in AskRow /\ b.of = a.of /\ b.to = a.to /\ b.from = a.from /\ b.stamp = a.stamp
      /\ b.fee = FeeIn(perms, a.to, a.from)
  BY <1>1, <1>2, <1>3 DEF AskRow
<1>5. asks' = (asks \ {a}) \cup {b}
  BY <1>3 DEF HubReads
<1> QED
  BY <1>1, <1>4, <1>5 DEF HubReads

\* The answer of a hub's handler is kept, and given to a caller that still waits.
LEMMA HubKeepsDoes ==
    ASSUME Shapes, NEW a \in asks, HubKeeps(a)
    PROVE  /\ a \in AskRow /\ a.of.q \in Requests /\ a.fee # None
           /\ copy' \in Copies
           /\ copy'[a.to][a.from] = [fee |-> a.fee, at |-> a.stamp]
           /\ \A r \in Recipients, s \in Senders : r # a.to \/ s # a.from => copy'[r][s] = copy[r][s]
           /\ (IsAttached(a) /\ Learns(a.of.q, a.fee)) \/ (~IsAttached(a) /\ req' = req)
           /\ Goes(a.of.q)
           /\ asks' = asks \ {a}
           /\ UNCHANGED <<work, perms, setting, dropped, seen, now>>
<1>1. a \in AskRow
  BY DEF Shapes
<1>2. a.of.q \in Requests /\ a.to \in Recipients /\ a.from \in Senders /\ a.fee \in Int /\ a.stamp \in Nat
  BY <1>1 DEF AskRow
<1>3. PICK r : r = [fee |-> a.fee, at |-> a.stamp]
  OBVIOUS
<1>4. r \in [fee : Int, at : Int]
  BY <1>2, <1>3
<1>5. copy' = [copy EXCEPT ![a.to][a.from] = r] /\ copy \in Copies
  BY <1>3 DEF HubKeeps, Keep, Shapes, PermTyped
<1>6. /\ copy' \in Copies /\ copy'[a.to][a.from] = r
      /\ \A u \in Recipients, s \in Senders : u # a.to \/ s # a.from => copy'[u][s] = copy[u][s]
  BY <1>2, <1>4, <1>5 DEF Copies
<1>7. CASE IsAttached(a)
  <2>1. Context(a.of.q, a.fee) /\ req[a.of.q].pc = "asked"
    BY <1>7 DEF HubKeeps, IsAttached, At
  <2>2. Learns(a.of.q, a.fee)
    BY <1>2, <2>1, ContextDoes DEF Shapes
  <2>3. Goes(a.of.q)
    BY <1>2, <2>1, <2>2 DEF Goes
  <2> QED
    BY <1>1, <1>2, <1>3, <1>6, <1>7, <2>2, <2>3 DEF HubKeeps
<1>8. CASE ~IsAttached(a)
  <2>1. req' = req
    BY <1>8 DEF HubKeeps
  <2> QED
    BY <1>1, <1>2, <1>3, <1>6, <1>8, <2>1 DEF HubKeeps, Goes
<1> QED
  BY <1>7, <1>8

\* A tick starts with what D1 answers then.
LEMMA TickDoes ==
    ASSUME PermTyped, Tick
    PROVE  /\ PermTyped' /\ now' = now + 1 /\ now + 1 \in 0 .. work.ticks /\ now \in Nat
           /\ seen'[now + 1] = Answers(perms)
           /\ \A t \in 0 .. now : seen'[t] = seen[t]
           /\ UNCHANGED <<work, perms, copy, sendVars>>
<1>1. /\ work.ticks \in Nat /\ now \in 0 .. work.ticks
      /\ DOMAIN seen = 0 .. work.ticks /\ seen = [t \in 0 .. work.ticks |-> seen[t]]
  BY SendWorks DEF PermTyped
<1>2. now' = now + 1 /\ now + 1 \in 0 .. work.ticks
  BY <1>1 DEF Tick
<1>3. seen' = [seen EXCEPT ![now + 1] = Answers(perms)] /\ work' = work
  BY DEF Tick
<1>4. /\ seen' = [t \in 0 .. work.ticks |-> IF t = now + 1 THEN Answers(perms) ELSE seen[t]]
  BY <1>1, <1>3
<1>5. DOMAIN seen' = 0 .. work.ticks /\ seen' = [t \in 0 .. work.ticks |-> seen'[t]]
  BY <1>4
<1>6. PermTyped'
  BY <1>2, <1>3, <1>5 DEF Tick, PermTyped, Copies
<1> QED
  BY <1>1, <1>2, <1>4, <1>6 DEF Tick

\* A step that leaves the permissions' part alone.
LEMMA PermKept ==
    ASSUME PermTyped, UNCHANGED <<work, now, perms, setting, dropped, seen>>, copy' \in Copies
    PROVE  PermTyped'
BY DEF PermTyped, Copies

\* A step that leaves the requests alone.
LEMMA RequestsKept == ASSUME RequestsTyped, UNCHANGED <<work, req>> PROVE RequestsTyped'
BY DEF RequestsTyped, RequestInStep, Requests, Send

\* Which steps ask a hub.
LEMMA AsksMove ==
    ASSUME PermTyped, RequestsTyped, NEW q \in Requests, RequestStep(q)
    PROVE  \/ asks' = asks
           \/ /\ req[q].pc = "context" /\ Turns(q, "asked")
              /\ asks' = asks \cup {[of |-> Ask(q), to |-> To(q).who, from |-> From(q),
                                     stamp |-> now, fee |-> None]}
<1>1. CASE asks' = asks
  BY <1>1
<1>2. CASE AskHub(q) /\ asks' # asks
  <2>1. /\ At(q, "context") /\ Answer(q, "asked")
        /\ asks' = asks \cup {[of |-> Ask(q), to |-> To(q).who, from |-> From(q),
                               stamp |-> now, fee |-> None]}
    BY <1>2 DEF AskHub
  <2>2. Turns(q, "asked")
    BY <2>1, AnswerDoes DEF Pcs
  <2> QED
    BY <2>1, <2>2 DEF At
<1>3. CASE ~AskHub(q)
  BY <1>1, <1>3 DEF RequestStep, SendArrives, LiveSendArrives, ReadContext, ContextFails, ContextHopFails,
     Charge, ChargeUnanswered, Settle, CreateBox, Insert, ReadBack, InsertStalls, HubInsert,
     HubInsertHopFails, Push, Resend
<1> QED
  BY <1>1, <1>2, <1>3

\* The shapes at the start.
LEMMA ShapesInit == Init => Shapes
<1> SUFFICES ASSUME Init PROVE Shapes
  OBVIOUS
<1>1. work \in Works /\ work.ticks \in Nat /\ now = 0
  BY SendWorks DEF Init, PermissionInit
<1>2. Len(work.sets) \in Nat /\ DOMAIN work.sets = 1 .. Len(work.sets)
  BY <1>1, PermissionWorks
<1>3. perms \in [Recipients -> PermRow]
  <2>1. [by |-> [s \in Senders |-> None], wide |-> <<>>] \in PermRow
    <3>1. <<>> \in Seq(Int) /\ None \in Int
      BY EmptySeq DEF None
    <3> QED
      BY <3>1 DEF PermRow
  <2> QED
    BY <2>1 DEF Init, PermissionInit
<1>4. copy \in Copies
  <2>1. NoCopy \in [fee : Int, at : Int]
    BY DEF NoCopy, None, Never
  <2> QED
    BY <2>1 DEF Init, PermissionInit, Copies
<1>5. DOMAIN seen = 0 .. work.ticks /\ seen = [t \in 0 .. work.ticks |-> seen[t]]
  BY DEF Init, PermissionInit
<1>6. setting = [n |-> 0, pc |-> "answered", tries |-> 0] /\ dropped = {}
  BY DEF Init, PermissionInit
<1>7. /\ setting \in [n : Nat, pc : {"write", "forget", "answered", "failed"}, tries : Nat]
      /\ setting.pc = "answered" /\ setting.n = 0
  BY <1>6
<1>8. PermTyped
  BY <1>1, <1>2, <1>3, <1>4, <1>5, <1>6, <1>7 DEF PermTyped
<1>9. Fresh(0) \in ReqRow
  <2>1. <<>> \in Seq(UsedFee) /\ <<>> \in Seq(BOOLEAN)
    BY EmptySeq
  <2> QED
    BY <2>1 DEF Fresh, ReqRow, Pcs
<1>10. req = [q \in Requests |-> Fresh(0)]
  BY DEF Init
<1>11. req \in [Requests -> ReqRow]
  BY <1>9, <1>10
<1>12. ASSUME NEW q \in Requests PROVE RequestInStep(q)
  <2>1. req[q].n = 1 /\ req[q].window = 0 /\ req[q].pc = "new" /\ req[q].fees = <<>> /\ req[q].boxed = <<>>
    BY <1>10 DEF Fresh
  <2>2. Len(Send(q).to) \in Nat \ {0} /\ DOMAIN Send(q).to = 1 .. Len(Send(q).to)
    BY <1>1, SendWorks DEF Send, Requests
  <2> QED
    BY <1>1, <2>1, <2>2 DEF RequestInStep, Asking
<1> QED
  BY <1>8, <1>11, <1>12 DEF Shapes, RequestsTyped, Init

\* Every step keeps the shapes.
LEMMA ShapesStep == ASSUME Shapes, [Next]_vars PROVE Shapes'
<1>1. work' = work => AskRow' = AskRow
  BY DEF AskRow, Requests
<1>2. ASSUME NEW q \in Requests, RequestStep(q) PROVE Shapes'
  <2>1. Goes(q) /\ UNCHANGED <<work, permVars, now>>
    BY <1>2, RequestGoes DEF Shapes
  <2>2. RequestsTyped'
    BY <2>1, GoesTyped DEF Shapes
  <2>3. PermTyped'
    BY <2>1, PermKept DEF Shapes, PermTyped, permVars
  <2>4. asks' \subseteq AskRow
    BY <1>2, AsksMove, AskTyped DEF Shapes
  <2> QED
    BY <1>1, <2>1, <2>2, <2>3, <2>4 DEF Shapes
<1>3. ASSUME NEW a \in asks, HubReads(a) PROVE Shapes'
  <2>1. asks' \subseteq AskRow /\ UNCHANGED <<work, permVars, now, req>>
    BY <1>3, HubReadsDoes DEF Shapes
  <2>2. PermTyped' /\ RequestsTyped'
    BY <2>1, PermKept, RequestsKept DEF Shapes, PermTyped, permVars
  <2> QED
    BY <1>1, <2>1, <2>2 DEF Shapes
<1>4. ASSUME NEW a \in asks, HubKeeps(a) PROVE Shapes'
  <2>1. /\ copy' \in Copies /\ a.of.q \in Requests /\ Goes(a.of.q) /\ asks' = asks \ {a}
        /\ UNCHANGED <<work, perms, setting, dropped, seen, now>>
    BY <1>4, HubKeepsDoes
  <2>2. RequestsTyped'
    <3>1. PICK q \in Requests : q = a.of.q
      BY <2>1
    <3> QED
      BY <2>1, <3>1, GoesTyped DEF Shapes
  <2>3. PermTyped'
    BY <2>1, PermKept DEF Shapes
  <2> QED
    BY <1>1, <2>1, <2>2, <2>3 DEF Shapes
<1>5. CASE UNCHANGED <<work, permVars, now, req, asks>>
  BY <1>1, <1>5, PermKept, RequestsKept DEF Shapes, PermTyped, permVars
<1>6. CASE Tick
  <2>1. PermTyped' /\ UNCHANGED <<work, req, asks>>
    BY <1>6, TickDoes DEF Shapes, sendVars
  <2> QED
    BY <1>1, <2>1, RequestsKept DEF Shapes
<1>7. CASE PermissionStep /\ UNCHANGED sendVars
  <2>1. PermTyped' /\ work' = work
    BY <1>7, PermissionsMove DEF Shapes, PermissionDoes
  <2> QED
    BY <1>1, <1>7, <2>1, RequestsKept DEF Shapes, sendVars
<1>8. CASE ForgetClosed \/ (\E x \in late : LateLands(x)) \/ (\E row \in stored : Acknowledge(row))
           \/ UNCHANGED vars
  BY <1>5, <1>8 DEF ForgetClosed, LateLands, Acknowledge, vars, sendVars
<1> QED
  BY <1>2, <1>3, <1>4, <1>6, <1>7, <1>8 DEF Next

-----------------------------------------------------------------------------
(* The sender's budget *)

AtMost(x, y) == x.sends <= y.sends /\ x.bytes <= y.bytes

\* What answered charges let through is within the bounds, and while its window
\* is open the window holds it.
BudgetInv ==
    /\ spent \in Windows /\ admitted \in Windows
    /\ \A s \in Senders, w \in 0 .. work.ticks :
           /\ AtMost(admitted[s][w], Budget)
           /\ w >= WindowOf(now) => AtMost(admitted[s][w], spent[s][w])

\* An entry of one window grows by a send.
Grown(S, s, w, k) == [S EXCEPT ![s][w] = [sends |-> @.sends + 1, bytes |-> @.bytes + k]]

\* One entry of the budget grows by a send and its bytes.
LEMMA EntryGrows ==
    ASSUME NEW S \in Windows, NEW s \in Senders, NEW w \in 0 .. work.ticks, NEW k \in Nat
    PROVE  /\ Grown(S, s, w, k) \in Windows
           /\ Grown(S, s, w, k)[s][w].sends = S[s][w].sends + 1
           /\ Grown(S, s, w, k)[s][w].bytes = S[s][w].bytes + k
           /\ \A u \in Senders, v \in 0 .. work.ticks :
                  u # s \/ v # w => Grown(S, s, w, k)[u][v] = S[u][v]
<1>1. S[s] \in [0 .. work.ticks -> [sends : Nat, bytes : Nat]] /\ S[s][w] \in [sends : Nat, bytes : Nat]
  BY DEF Windows
<1>2. S[s][w].sends + 1 \in Nat /\ S[s][w].bytes + k \in Nat
  <2>1. PICK m \in Nat, n \in Nat : m = S[s][w].sends /\ n = S[s][w].bytes
    BY <1>1
  <2>2. m + 1 \in Nat /\ n + k \in Nat
    OBVIOUS
  <2> QED
    BY <2>1, <2>2
<1>3. PICK e : e = [sends |-> S[s][w].sends + 1, bytes |-> S[s][w].bytes + k]
  OBVIOUS
<1>4. e \in [sends : Nat, bytes : Nat] /\ e.sends = S[s][w].sends + 1 /\ e.bytes = S[s][w].bytes + k
  BY <1>2, <1>3
<1>5. PICK f : f = [S[s] EXCEPT ![w] = e]
  OBVIOUS
<1>6. /\ f \in [0 .. work.ticks -> [sends : Nat, bytes : Nat]] /\ f[w] = e
      /\ \A v \in 0 .. work.ticks : v # w => f[v] = S[s][v]
  BY <1>1, <1>4, <1>5
<1>7. PICK T : T = Grown(S, s, w, k)
  OBVIOUS
<1>8. T = [S EXCEPT ![s] = f]
  BY <1>3, <1>5, <1>7 DEF Grown
<1>9. T \in Windows /\ T[s] = f /\ \A u \in Senders : u # s => T[u] = S[u]
  BY <1>6, <1>8 DEF Windows
<1> QED
  BY <1>4, <1>6, <1>7, <1>9

\* A charge in the window a request took.
LEMMA ChargeDoes ==
    ASSUME Shapes, BudgetInv, NEW q \in Requests
    PROVE  /\ From(q) \in Senders /\ req[q].window \in 0 .. work.ticks /\ Unjudged(q) \in Nat
           /\ Charged(q) \in Windows
           /\ Charged(q)[From(q)][req[q].window].sends = spent[From(q)][req[q].window].sends + 1
           /\ Charged(q)[From(q)][req[q].window].bytes = spent[From(q)][req[q].window].bytes + Unjudged(q)
           /\ \A u \in Senders, v \in 0 .. work.ticks :
                  u # From(q) \/ v # req[q].window => Charged(q)[u][v] = spent[u][v]
<1>1. From(q) \in Senders /\ req[q].window \in 0 .. work.ticks /\ Unjudged(q) \in Nat
  BY SendFacts DEF Shapes, RequestsTyped, RequestInStep, Unjudged
<1>2. Charged(q) = Grown(spent, From(q), req[q].window, Unjudged(q))
  BY DEF Charged, Grown
<1>3. PICK S \in Windows, s \in Senders, w \in 0 .. work.ticks, k \in Nat :
          S = spent /\ s = From(q) /\ w = req[q].window /\ k = Unjudged(q)
  BY <1>1 DEF BudgetInv
<1>4. /\ Grown(S, s, w, k) \in Windows
      /\ Grown(S, s, w, k)[s][w].sends = S[s][w].sends + 1
      /\ Grown(S, s, w, k)[s][w].bytes = S[s][w].bytes + k
      /\ \A u \in Senders, v \in 0 .. work.ticks :
             u # s \/ v # w => Grown(S, s, w, k)[u][v] = S[u][v]
  BY EntryGrows
<1> QED
  BY <1>1, <1>2, <1>3, <1>4

\* A window that grew still holds what it held.
LEMMA ChargeHolds ==
    ASSUME Shapes, BudgetInv, NEW q \in Requests, NEW u \in Senders, NEW v \in 0 .. work.ticks
    PROVE  AtMost(admitted[u][v], spent[u][v]) => AtMost(admitted[u][v], Charged(q)[u][v])
<1>1. spent[u][v] \in [sends : Nat, bytes : Nat] /\ admitted[u][v] \in [sends : Nat, bytes : Nat]
  BY DEF BudgetInv, Windows
<1>2. CASE u = From(q) /\ v = req[q].window
  <2>1. /\ Charged(q)[u][v].sends = spent[u][v].sends + 1
        /\ Charged(q)[u][v].bytes = spent[u][v].bytes + Unjudged(q) /\ Unjudged(q) \in Nat
    BY <1>2, ChargeDoes
  <2>2. /\ spent[u][v].sends \in Nat /\ spent[u][v].bytes \in Nat
        /\ admitted[u][v].sends \in Nat /\ admitted[u][v].bytes \in Nat
    BY <1>1
  <2> QED
    BY <2>1, <2>2 DEF AtMost
<1>3. CASE u # From(q) \/ v # req[q].window
  <2>1. Charged(q)[u][v] = spent[u][v]
    BY <1>3, ChargeDoes
  <2> QED
    BY <2>1
<1> QED
  BY <1>2, <1>3

\* charge
LEMMA BudgetCharge ==
    ASSUME Shapes, BudgetInv, NEW q \in Requests, Charge(q)
    PROVE  BudgetInv'
<1> DEFINE s == From(q)
           w == req[q].window
<1>1. /\ s \in Senders /\ w \in 0 .. work.ticks /\ Unjudged(q) \in Nat /\ Charged(q) \in Windows
      /\ Charged(q)[s][w].sends = spent[s][w].sends + 1
      /\ Charged(q)[s][w].bytes = spent[s][w].bytes + Unjudged(q)
  BY ChargeDoes
<1>2. spent' = Charged(q) /\ UNCHANGED <<work, now>> /\ WindowOf(now)' = WindowOf(now) /\ Windows' = Windows
  BY DEF Charge, WindowOf, Windows
<1>3. ASSUME NEW u \in Senders, NEW v \in 0 .. work.ticks, v >= WindowOf(now)
      PROVE  AtMost(admitted[u][v], spent'[u][v])
  BY <1>2, <1>3, ChargeHolds DEF BudgetInv
<1>4. CASE admitted' = admitted
  BY <1>1, <1>2, <1>3, <1>4 DEF BudgetInv
<1>5. CASE admitted' # admitted
  <2>1. /\ ~IsSpent(spent'[s][w]) /\ w = WindowOf(now)
        /\ admitted' = Grown(admitted, s, w, Unjudged(q))
    BY <1>5 DEF Charge, Grown
  <2>2. PICK T : T = admitted'
    OBVIOUS
  <2>4. /\ T \in Windows
        /\ T[s][w].sends = admitted[s][w].sends + 1 /\ T[s][w].bytes = admitted[s][w].bytes + Unjudged(q)
        /\ \A u \in Senders, v \in 0 .. work.ticks : u # s \/ v # w => T[u][v] = admitted[u][v]
    <3>1. PICK S \in Windows, u0 \in Senders, v0 \in 0 .. work.ticks, k \in Nat :
              S = admitted /\ u0 = s /\ v0 = w /\ k = Unjudged(q)
      BY <1>1 DEF BudgetInv
    <3>2. /\ Grown(S, u0, v0, k) \in Windows
          /\ Grown(S, u0, v0, k)[u0][v0].sends = S[u0][v0].sends + 1
          /\ Grown(S, u0, v0, k)[u0][v0].bytes = S[u0][v0].bytes + k
          /\ \A u \in Senders, v \in 0 .. work.ticks :
                 u # u0 \/ v # v0 => Grown(S, u0, v0, k)[u][v] = S[u][v]
      BY EntryGrows
    <3> HIDE DEF s, w
    <3> QED
      BY <2>1, <2>2, <3>1, <3>2
  <2>5. /\ spent[s][w].sends \in Nat /\ spent[s][w].bytes \in Nat
        /\ admitted[s][w].sends \in Nat /\ admitted[s][w].bytes \in Nat
    <3>1. spent[s][w] \in [sends : Nat, bytes : Nat] /\ admitted[s][w] \in [sends : Nat, bytes : Nat]
      BY <1>1 DEF BudgetInv, Windows
    <3> QED
      BY <3>1
  <2>6. AtMost(admitted[s][w], spent[s][w])
    <3>1. w >= WindowOf(now)
      BY <1>1, <2>1, SendFacts DEF Shapes
    <3> QED
      BY <1>1, <3>1 DEF BudgetInv
  <2>7. Budget.sends \in Nat /\ Budget.bytes \in Nat
    BY SendBounds
  <2>8. spent'[s][w].sends <= Budget.sends /\ spent'[s][w].bytes <= Budget.bytes
    <3>1. ~(spent'[s][w].sends > Budget.sends) /\ ~(spent'[s][w].bytes > Budget.bytes)
      BY <2>1 DEF IsSpent
    <3>2. spent'[s][w].sends = spent[s][w].sends + 1 /\ spent'[s][w].bytes = spent[s][w].bytes + Unjudged(q)
      BY <1>1, <1>2
    <3> QED
      BY <1>1, <2>5, <2>7, <3>1, <3>2
  <2>9. AtMost(T[s][w], spent'[s][w])
    <3>1. spent'[s][w].sends = spent[s][w].sends + 1 /\ spent'[s][w].bytes = spent[s][w].bytes + Unjudged(q)
      BY <1>1, <1>2
    <3> QED
      BY <1>1, <2>4, <2>5, <2>6, <3>1 DEF AtMost
  <2>10. AtMost(T[s][w], Budget)
    <3>1. T[s][w].sends \in Nat /\ T[s][w].bytes \in Nat
      BY <1>1, <2>4, <2>5
    <3>2. spent'[s][w].sends \in Nat /\ spent'[s][w].bytes \in Nat
      BY <1>1, <1>2, <2>5
    <3> QED
      BY <2>7, <2>8, <2>9, <3>1, <3>2 DEF AtMost
  <2>11. ASSUME NEW u \in Senders, NEW v \in 0 .. work.ticks
         PROVE  /\ AtMost(T[u][v], Budget)
                /\ v >= WindowOf(now) => AtMost(T[u][v], spent'[u][v])
    <3>1. CASE u = s /\ v = w
      BY <2>9, <2>10, <3>1
    <3>2. CASE u # s \/ v # w
      BY <1>3, <2>4, <3>2 DEF BudgetInv
    <3> QED
      BY <3>1, <3>2
  <2> QED
    BY <1>1, <1>2, <2>2, <2>4, <2>11 DEF BudgetInv
<1> QED
  BY <1>4, <1>5

\* Every step keeps the budget: a charge that went unanswered lets its send
\* through uncounted, closed windows are forgotten, and time only goes on.
LEMMA BudgetStep == ASSUME Shapes, BudgetInv, [Next]_vars PROVE BudgetInv'
<1>1. ASSUME UNCHANGED <<work, now, spent, admitted>> PROVE BudgetInv'
  BY <1>1 DEF BudgetInv, Windows, WindowOf
<1>2. ASSUME NEW q \in Requests, ChargeUnanswered(q) PROVE BudgetInv'
  <2>1. CASE spent' = spent
    BY <1>1, <1>2, <2>1 DEF ChargeUnanswered
  <2>2. CASE spent' = Charged(q)
    <3>1. /\ UNCHANGED <<work, now, admitted>> /\ WindowOf(now)' = WindowOf(now) /\ Windows' = Windows
          /\ spent' \in Windows
      BY <1>2, <2>2, ChargeDoes DEF ChargeUnanswered, WindowOf, Windows
    <3>2. ASSUME NEW u \in Senders, NEW v \in 0 .. work.ticks, v >= WindowOf(now)
          PROVE  AtMost(admitted[u][v], spent'[u][v])
      BY <2>2, <3>2, ChargeHolds DEF BudgetInv
    <3> QED
      BY <3>1, <3>2 DEF BudgetInv
  <2> QED
    BY <1>2, <2>1, <2>2 DEF ChargeUnanswered
<1>3. CASE ForgetClosed
  <2>1. /\ UNCHANGED <<work, now, admitted>> /\ WindowOf(now)' = WindowOf(now) /\ Windows' = Windows
        /\ spent' = [s \in Senders |-> [w \in DOMAIN spent[s] |->
                         IF w < WindowOf(now) THEN Nothing ELSE spent[s][w]]]
    BY <1>3 DEF ForgetClosed, WindowOf, Windows
  <2>2. Nothing \in [sends : Nat, bytes : Nat]
    BY DEF Nothing
  <2>3. \A s \in Senders : DOMAIN spent[s] = 0 .. work.ticks
    BY DEF BudgetInv, Windows
  <2>4. spent' \in Windows
    BY <2>1, <2>2, <2>3 DEF BudgetInv, Windows
  <2>5. WindowOf(now) \in Int
    BY WindowsInTime, SendFacts, SendWorks DEF Shapes, PermTyped
  <2>6. ASSUME NEW s \in Senders, NEW w \in 0 .. work.ticks, w >= WindowOf(now)
        PROVE  spent'[s][w] = spent[s][w]
    <3>1. ~(w < WindowOf(now))
      BY <2>5, <2>6
    <3> QED
      BY <2>1, <2>3, <3>1
  <2> QED
    BY <2>1, <2>4, <2>6 DEF BudgetInv
<1>4. CASE Tick
  <2>1. UNCHANGED <<work, spent, admitted>> /\ now' = now + 1 /\ now \in Nat /\ Windows' = Windows
    BY <1>4, TickDoes DEF Shapes, sendVars, Windows
  <2>2. WindowOf(now) <= WindowOf(now + 1) /\ WindowOf(now) \in Int /\ WindowOf(now + 1) \in Int
    BY <2>1, WindowsInTime
  <2>3. WindowOf(now)' = WindowOf(now + 1)
    BY <2>1 DEF WindowOf
  <2>4. \A w \in 0 .. work.ticks : w >= WindowOf(now + 1) => w >= WindowOf(now)
    BY <2>2
  <2> QED
    BY <2>1, <2>3, <2>4 DEF BudgetInv
<1>5. CASE PermissionStep /\ UNCHANGED sendVars
  BY <1>1, <1>5, PermissionsMove DEF Shapes, PermissionDoes, sendVars
<1>6. ASSUME NEW q \in Requests, RequestStep(q), ~Charge(q), ~ChargeUnanswered(q) PROVE BudgetInv'
  BY <1>1, <1>6 DEF RequestStep, SendArrives, LiveSendArrives, ReadContext, ContextFails, AskHub, ContextHopFails,
     Settle, CreateBox, Insert, ReadBack, InsertStalls, HubInsert, HubInsertHopFails, Push, Resend
<1>7. CASE \/ \E a \in asks : HubReads(a) \/ HubKeeps(a)
           \/ (\E x \in late : LateLands(x)) \/ (\E row \in stored : Acknowledge(row)) \/ UNCHANGED vars
  BY <1>1, <1>7 DEF HubReads, HubKeeps, LateLands, Acknowledge, vars, sendVars
<1> QED
  BY <1>2, <1>3, <1>4, <1>5, <1>6, <1>7, BudgetCharge DEF Next

\* charge and forget_closed, for any budget, window and number of requests: what
\* answered charges let through of one identity while a window is open is within
\* its bounds.  A charge the store did not answer refuses nothing, and is no part
\* of this.
THEOREM BudgetsAreBinding == Spec => []BudgetBinds
<1>1. Init => Shapes /\ BudgetInv
  <2> SUFFICES ASSUME Init PROVE Shapes /\ BudgetInv
    OBVIOUS
  <2>1. Shapes
    BY ShapesInit
  <2>2. Nothing \in [sends : Nat, bytes : Nat] /\ Nothing.sends = 0 /\ Nothing.bytes = 0
    BY DEF Nothing
  <2>3. /\ spent = [s \in Senders |-> [w \in 0 .. work.ticks |-> Nothing]] /\ admitted = spent
    BY DEF Init
  <2>4. spent \in Windows
    BY <2>2, <2>3 DEF Windows
  <2>5. AtMost(Nothing, Budget) /\ AtMost(Nothing, Nothing)
    BY <2>2, SendBounds DEF AtMost
  <2> QED
    BY <2>1, <2>3, <2>4, <2>5 DEF BudgetInv
<1>2. Shapes /\ BudgetInv /\ [Next]_vars => (Shapes /\ BudgetInv)'
  BY ShapesStep, BudgetStep
<1>3. BudgetInv => BudgetBinds
  BY DEF BudgetInv, BudgetBinds, AtMost, Windows
<1> QED
  BY <1>1, <1>2, <1>3, PTL DEF Spec

-----------------------------------------------------------------------------
(* What a request stores *)

\* The row of one recipient is stored, and pays who is owed a fee.
StoredFor(q, n) ==
    \E row \in stored :
        /\ row.id = Send(q).to[n].id /\ row.to = Send(q).to[n].who
        /\ row.from = From(q) /\ row.text = Send(q).text
        /\ n \in OwedFee(q) => row.outputs # {}

\* A row by the id at hand is stored.
Met(q) == \E row \in stored : row.id = To(q).id

\* The recipients before the one at hand have their rows.
RowsStored(q) ==
    /\ req[q].pc \in {"row", "readBack"} => \A n \in 1 .. req[q].n - 1 : StoredFor(q, n)
    /\ req[q].pc = "success" => \A n \in DOMAIN Send(q).to : StoredFor(q, n)
    /\ req[q].pc \in {"readBack", "duplicate"} => Met(q)

StoredInv ==
    /\ rows \subseteq stored
    /\ held \in [Recipients -> SUBSET stored]
    /\ \A q \in Requests : RowsStored(q)

\* A row is of the recipient at hand, with an output of the payment where one is owed.
LEMMA RowIs ==
    ASSUME NEW q
    PROVE  /\ Row(q).id = To(q).id /\ Row(q).to = To(q).who
           /\ Row(q).from = From(q) /\ Row(q).text = Send(q).text
           /\ req[q].n \in OwedFee(q) => Row(q).outputs # {}
<1>1. OutputsFor(q, req[q].n) # {}
  BY DEF OutputsFor
<1>2. PICK o : o = IF req[q].n \in OwedFee(q) THEN OutputsFor(q, req[q].n) ELSE {}
  OBVIOUS
<1>3. Row(q) = [id |-> To(q).id, to |-> To(q).who, from |-> From(q), text |-> Send(q).text,
                named |-> NamesObject(q), outputs |-> o]
  BY <1>2 DEF Row
<1> QED
  BY <1>1, <1>2, <1>3

\* What is stored stays stored, in the eyes of a request that keeps its fees.
LEMMA StoredStays ==
    ASSUME NEW q, NEW n, work' = work, stored \subseteq stored', req'[q].fees = req[q].fees,
           StoredFor(q, n)
    PROVE  StoredFor(q, n)'
<1>1. OwedFee(q)' = OwedFee(q) /\ Send(q)' = Send(q) /\ From(q)' = From(q)
  BY DEF OwedFee, Send, From
<1> QED
  BY <1>1 DEF StoredFor

\* A request that stands still keeps what it stored.
LEMMA StandsStill ==
    ASSUME NEW q, work' = work, stored \subseteq stored', req'[q] = req[q], RowsStored(q)
    PROVE  RowsStored(q)'
<1>1. Send(q)' = Send(q) /\ To(q)' = To(q)
  BY DEF Send, To
<1>2. \A n : StoredFor(q, n) => StoredFor(q, n)'
  BY StoredStays
<1>3. Met(q) => Met(q)'
  BY <1>1 DEF Met
<1> QED
  BY <1>1, <1>2, <1>3 DEF RowsStored

\* However a request moves: it is past a recipient only with that row stored, and
\* told of a duplicate only when it met one.
LEMMA GoesStored ==
    ASSUME Shapes, NEW q \in Requests, Goes(q), work' = work, stored \subseteq stored', RowsStored(q),
           NEW at, at = req[q].n,
           req[q].pc \in {"row", "readBack"} /\ Stores(q) => StoredFor(q, at)',
           req[q].pc \in {"row", "readBack"} /\ req'[q].pc \in {"readBack", "duplicate"} => Met(q)'
    PROVE  RowsStored(q)'
<1>1. /\ DOMAIN Send(q).to = 1 .. Len(Send(q).to) /\ req[q].n \in 1 .. Len(Send(q).to)
      /\ Len(Send(q).to) \in Nat /\ Send(q)' = Send(q)
  BY SendFacts DEF Shapes, Send
<1>2. ASSUME NEW n, req'[q].fees = req[q].fees, StoredFor(q, n) PROVE StoredFor(q, n)'
  BY <1>2, StoredStays
<1>3. CASE req' = req
  BY <1>3, StandsStill
<1>4. ASSUME NEW pc \in Pcs, Follows(req[q].pc, pc), Turns(q, pc) PROVE RowsStored(q)'
  <2>1. req'[q].pc = pc /\ req'[q].n = req[q].n /\ req'[q].fees = req[q].fees
    BY <1>4 DEF Turns, Keeps
  <2>2. /\ pc # "success"
        /\ pc \in {"readBack", "duplicate"} => req[q].pc \in {"row", "readBack"}
        /\ pc = "row" => req[q].pc \in {"charge", "settle"}
        /\ pc = "readBack" => req[q].pc = "row"
    BY <1>4 DEF Follows, Answered
  <2>3. CASE pc = "row"
    <3>1. req[q].n = 1
      BY <2>2, <2>3 DEF Shapes, RequestsTyped, RequestInStep
    <3>2. 1 .. req[q].n - 1 = {}
      BY <3>1
    <3> QED
      BY <2>1, <2>3, <3>2 DEF RowsStored
  <2>4. CASE pc = "readBack"
    <3>1. \A n \in 1 .. req[q].n - 1 : StoredFor(q, n)'
      BY <1>2, <2>1, <2>2, <2>4 DEF RowsStored
    <3> QED
      BY <2>1, <2>2, <2>4, <3>1 DEF RowsStored
  <2>5. CASE pc \notin {"row", "readBack"}
    BY <2>1, <2>2, <2>5 DEF RowsStored
  <2> QED
    BY <2>3, <2>4, <2>5
<1>5. ASSUME NEW fee \in Int, Learns(q, fee) PROVE RowsStored(q)'
  <2>1. req'[q].pc \in {"context", "blocked", "charge"}
    BY <1>5 DEF Learns
  <2> QED
    BY <2>1 DEF RowsStored
<1>6. CASE req[q].pc \in {"context", "asked"} /\ Retries(q, "context")
  <2>1. req'[q].pc \in {"context", "unavailable"}
    BY <1>6 DEF Retries
  <2> QED
    BY <2>1 DEF RowsStored
<1>7. CASE req[q].pc = "row" /\ (Retries(q, "row") \/ Boxes(q))
  <2>1. req'[q].pc \in {"row", "unavailable"} /\ req'[q].n = req[q].n /\ req'[q].fees = req[q].fees
    BY <1>7 DEF Retries, Boxes, Keeps
  <2>2. \A n \in 1 .. req[q].n - 1 : StoredFor(q, n)'
    BY <1>2, <1>7, <2>1 DEF RowsStored
  <2> QED
    BY <2>1, <2>2 DEF RowsStored
<1>8. CASE req[q].pc \in {"row", "readBack"} /\ Stores(q)
  <2>1. /\ req'[q].fees = req[q].fees
        /\ \/ IsLast(q) /\ req'[q].pc = "success" /\ req'[q].n = req[q].n
           \/ ~IsLast(q) /\ req'[q].pc = "row" /\ req'[q].n = req[q].n + 1
    BY <1>8 DEF Stores, Keeps
  <2>2. \A n \in 1 .. req[q].n - 1 : StoredFor(q, n)'
    BY <1>2, <1>8, <2>1 DEF RowsStored
  <2>3. \A n \in 1 .. req[q].n : n \in 1 .. req[q].n - 1 \/ n = req[q].n
    BY <1>1
  <2>4. \A n \in 1 .. at : StoredFor(q, n)'
    BY <1>8, <2>2, <2>3
  <2>5. CASE IsLast(q)
    <3>1. DOMAIN Send(q).to = 1 .. at
      BY <1>1, <2>5 DEF IsLast
    <3> QED
      BY <1>1, <2>1, <2>4, <2>5, <3>1 DEF RowsStored
  <2>6. CASE ~IsLast(q)
    <3>1. 1 .. req'[q].n - 1 = 1 .. at
      BY <1>1, <2>1, <2>6
    <3> QED
      BY <2>1, <2>4, <2>6, <3>1 DEF RowsStored
  <2> QED
    BY <2>5, <2>6
<1>9. CASE Restarts(q)
  <2>1. req'[q].pc = "new"
    BY <1>9 DEF Restarts, Fresh
  <2> QED
    BY <2>1 DEF RowsStored
<1> QED
  BY <1>3, <1>4, <1>5, <1>6, <1>7, <1>8, <1>9 DEF Goes

\* Where the row at hand is stored.
LEMMA RowIsStored ==
    ASSUME NEW q, NEW n, n = req[q].n, work' = work, Row(q) \in stored', req'[q].fees = req[q].fees
    PROVE  StoredFor(q, n)'
<1>1. OwedFee(q)' = OwedFee(q) /\ Send(q)' = Send(q) /\ From(q)' = From(q)
  BY DEF OwedFee, Send, From
<1>2. To(q) = Send(q).to[n]
  BY DEF To
<1>3. PICK r : r = Row(q)
  OBVIOUS
<1>4. /\ r \in stored' /\ r.id = Send(q).to[n].id /\ r.to = Send(q).to[n].who
      /\ r.from = From(q) /\ r.text = Send(q).text
      /\ (n \in OwedFee(q) => r.outputs # {})
  BY <1>2, <1>3, RowIs
<1> QED
  BY <1>1, <1>4 DEF StoredFor

\* The step of a request that stores nothing and is past no row.
LEMMA StoresNothing ==
    ASSUME Shapes, StoredInv, NEW q \in Requests, Goes(q), UNCHANGED <<work, rows, held, stored>>,
           req[q].pc \notin {"row", "readBack"}
    PROVE  StoredInv'
<1>1. RowsStored(q)'
  <2>1. PICK at : at = req[q].n
    OBVIOUS
  <2> QED
    BY <2>1, GoesStored DEF StoredInv
<1>2. ASSUME NEW p \in Requests, p # q PROVE RowsStored(p)'
  <2>1. req'[p] = req[p]
    BY <1>2 DEF Goes, Turns, Learns, Retries, Stores, Boxes, Restarts, Moved
  <2> QED
    BY <2>1, StandsStill DEF StoredInv
<1>3. Requests' = Requests
  BY DEF Requests
<1> QED
  BY <1>1, <1>2, <1>3 DEF StoredInv

\* A step of a request at a row: what it stores, and what it meets.
LEMMA StoresRow ==
    ASSUME Shapes, StoredInv, NEW q \in Requests, Goes(q), work' = work, stored \subseteq stored',
           rows' \subseteq stored', held' \in [Recipients -> SUBSET stored'],
           Stores(q) => Row(q) \in stored',
           req'[q].pc \in {"readBack", "duplicate"} =>
               req'[q].n = req[q].n /\ \E row \in stored' : row.id = To(q).id
    PROVE  StoredInv'
<1>1. PICK at : at = req[q].n
  OBVIOUS
<1>2. Stores(q) => StoredFor(q, at)'
  BY <1>1, RowIsStored DEF Stores, Keeps
<1>3. req'[q].pc \in {"readBack", "duplicate"} => Met(q)'
  <2>1. req'[q].n = req[q].n => To(q)' = To(q)
    BY DEF To, Send
  <2> QED
    BY <2>1 DEF Met
<1>4. RowsStored(q)'
  BY <1>1, <1>2, <1>3, GoesStored DEF StoredInv
<1>5. ASSUME NEW p \in Requests, p # q PROVE RowsStored(p)'
  <2>1. req'[p] = req[p]
    BY <1>5 DEF Goes, Turns, Learns, Retries, Stores, Boxes, Restarts, Moved
  <2> QED
    BY <2>1, StandsStill DEF StoredInv
<1>6. Requests' = Requests
  BY DEF Requests
<1> QED
  BY <1>4, <1>5, <1>6 DEF StoredInv

\* insert_message in D1: a row by a taken id is stored, its own where the id was free.
LEMMA InsertStores == ASSUME Shapes, StoredInv, NEW q \in Requests, Insert(q) PROVE StoredInv'
<1>1. Goes(q) /\ work' = work /\ RequestsTyped
  BY RequestGoes DEF RequestStep, Shapes
<1>2. CASE IdIsFree(To(q).id)
  <2>1. rows' = rows \cup {Row(q)} /\ stored' = stored \cup {Row(q)} /\ held' = held /\ Accepted(q)
    BY <1>2 DEF Insert, Verdict
  <2>2. req'[q].pc \notin {"readBack", "duplicate"}
    BY <1>1, <2>1, AcceptedDoes DEF Stores
  <2>3. rows' \subseteq stored' /\ stored \subseteq stored' /\ held' \in [Recipients -> SUBSET stored']
    BY <2>1 DEF StoredInv
  <2> QED
    BY <1>1, <2>1, <2>2, <2>3, StoresRow
<1>3. CASE ~IdIsFree(To(q).id)
  <2>1. PICK pc \in {"readBack", "duplicate"} : Answer(q, pc) /\ UNCHANGED <<rows, stored, held>>
    BY <1>3 DEF Insert, Verdict
  <2>2. req'[q].pc = pc /\ req'[q].n = req[q].n
    BY <1>1, <2>1, AnswerDoes DEF Turns, Pcs, Answered
  <2>3. \E row \in stored' : row.id = To(q).id
    BY <1>3, <2>1 DEF IdIsFree, StoredInv
  <2>4. ~Stores(q)
    BY <2>1, <2>2 DEF Stores
  <2>5. rows' \subseteq stored' /\ stored \subseteq stored' /\ held' \in [Recipients -> SUBSET stored']
    BY <2>1 DEF StoredInv
  <2> QED
    BY <1>1, <2>2, <2>3, <2>4, <2>5, StoresRow
<1> QED
  BY <1>2, <1>3

\* retried_row_is_ours: its own row is there, or another by that id was met before.
LEMMA ReadBackStores == ASSUME Shapes, StoredInv, NEW q \in Requests, ReadBack(q) PROVE StoredInv'
<1>1. Goes(q) /\ work' = work /\ RequestsTyped /\ UNCHANGED <<rows, stored, held>> /\ req[q].pc = "readBack"
  BY RequestGoes DEF RequestStep, Shapes, ReadBack, At
<1>2. rows' \subseteq stored' /\ stored \subseteq stored' /\ held' \in [Recipients -> SUBSET stored']
  BY <1>1 DEF StoredInv
<1>3. CASE Row(q) \in rows /\ Accepted(q)
  <2>1. Row(q) \in stored' /\ req'[q].pc \notin {"readBack", "duplicate"}
    BY <1>1, <1>2, <1>3, AcceptedDoes DEF Stores
  <2> QED
    BY <1>1, <1>2, <2>1, StoresRow
<1>4. CASE \E pc \in {"duplicate", "unavailable"} : Answer(q, pc)
  <2>1. PICK pc \in {"duplicate", "unavailable"} : Answer(q, pc)
    BY <1>4
  <2>2. req'[q].pc = pc /\ req'[q].n = req[q].n
    BY <1>1, <2>1, AnswerDoes DEF Turns, Pcs, Answered
  <2>3. ~Stores(q)
    BY <2>1, <2>2 DEF Stores
  <2>4. \E row \in stored' : row.id = To(q).id
    BY <1>1 DEF StoredInv, RowsStored, Met
  <2> QED
    BY <1>1, <1>2, <2>2, <2>3, <2>4, StoresRow
<1> QED
  BY <1>3, <1>4 DEF ReadBack

\* The mailbox's insert, at a hub.
LEMMA HubInsertStores == ASSUME Shapes, StoredInv, NEW q \in Requests, HubInsert(q) PROVE StoredInv'
<1>1. Goes(q) /\ work' = work /\ RequestsTyped /\ rows' = rows
  BY RequestGoes DEF RequestStep, Shapes, HubInsert
<1>2. To(q).who \in Recipients /\ held \in [Recipients -> SUBSET stored]
  BY SendFacts DEF Shapes, StoredInv
<1>3. PICK taken \in BOOLEAN : taken = (\E row \in held[To(q).who] : row.id = To(q).id)
  OBVIOUS
<1>4. PICK fits \in BOOLEAN : fits = (~taken /\ Cardinality(held[To(q).who]) < Capacity)
  OBVIOUS
<1>5. /\ held' = IF fits THEN [held EXCEPT ![To(q).who] = @ \cup {Row(q)}] ELSE held
      /\ stored' = IF fits THEN stored \cup {Row(q)} ELSE stored
      /\ IF fits \/ (req[q].tries > 0 /\ Row(q) \in held[To(q).who])
         THEN Accepted(q)
         ELSE Answer(q, IF taken THEN "duplicate" ELSE "full") /\ UNCHANGED owed
  BY <1>3, <1>4 DEF HubInsert
<1>6. rows' \subseteq stored' /\ stored \subseteq stored' /\ held' \in [Recipients -> SUBSET stored']
  BY <1>1, <1>2, <1>5 DEF StoredInv
<1>7. CASE Accepted(q) /\ (fits \/ Row(q) \in held[To(q).who])
  <2>1. Row(q) \in stored' /\ req'[q].pc \notin {"readBack", "duplicate"}
    BY <1>1, <1>2, <1>5, <1>6, <1>7, AcceptedDoes DEF Stores
  <2> QED
    BY <1>1, <1>6, <2>1, StoresRow
<1>8. CASE Answer(q, IF taken THEN "duplicate" ELSE "full")
  <2>1. PICK pc \in {"duplicate", "full"} : pc = IF taken THEN "duplicate" ELSE "full"
    OBVIOUS
  <2>2. req'[q].pc = pc /\ req'[q].n = req[q].n
    BY <1>1, <1>8, <2>1, AnswerDoes DEF Turns, Pcs, Answered
  <2>3. ~Stores(q)
    BY <2>1, <2>2 DEF Stores
  <2>4. pc \in {"readBack", "duplicate"} => \E row \in stored' : row.id = To(q).id
    BY <1>2, <1>3, <1>6, <2>1
  <2> QED
    BY <1>1, <1>6, <2>2, <2>3, <2>4, StoresRow
<1> QED
  BY <1>5, <1>7, <1>8

\* A write given up on lands: a row that is in a table is stored.
LEMMA LateStores == ASSUME Shapes, StoredInv, NEW x \in late, LateLands(x) PROVE StoredInv'
<1>1. /\ UNCHANGED <<work, req>> /\ stored' \in {stored, stored \cup {x.row}}
      /\ rows' \in {rows, rows \cup {x.row}}
      /\ held' \in {held, [held EXCEPT ![x.row.to] = @ \cup {x.row}]}
      /\ rows' # rows \/ held' # held => stored' = stored \cup {x.row}
  BY DEF LateLands
<1>2. rows' \subseteq stored' /\ stored \subseteq stored' /\ held' \in [Recipients -> SUBSET stored']
  BY <1>1 DEF StoredInv
<1>3. Requests' = Requests /\ \A q \in Requests : RowsStored(q)'
  BY <1>1, <1>2, StandsStill DEF StoredInv, Requests
<1> QED
  BY <1>2, <1>3 DEF StoredInv

\* An acknowledgement takes rows from the tables, never from what was stored.
LEMMA AcknowledgeKeeps == ASSUME Shapes, StoredInv, NEW row \in stored, Acknowledge(row) PROVE StoredInv'
<1>1. /\ UNCHANGED <<work, req, stored>> /\ rows' \subseteq rows
      /\ held' \in {held, [held EXCEPT ![row.to] = @ \ {row}]}
  BY DEF Acknowledge
<1>2. rows' \subseteq stored' /\ held' \in [Recipients -> SUBSET stored']
  BY <1>1 DEF StoredInv
<1>3. Requests' = Requests /\ \A q \in Requests : RowsStored(q)'
  BY <1>1, StandsStill DEF StoredInv, Requests
<1> QED
  BY <1>2, <1>3 DEF StoredInv

\* Every step of a request.
LEMMA RequestStores == ASSUME Shapes, StoredInv, NEW q \in Requests, RequestStep(q) PROVE StoredInv'
<1>1. Goes(q) /\ work' = work
  BY RequestGoes DEF Shapes
<1>2. CASE Insert(q) \/ ReadBack(q) \/ HubInsert(q)
  BY <1>2, InsertStores, ReadBackStores, HubInsertStores
<1>3. CASE CreateBox(q) \/ InsertStalls(q) \/ HubInsertHopFails(q)
  <2>1. UNCHANGED <<rows, held, stored>> /\ req[q].pc = "row"
    BY <1>3 DEF CreateBox, InsertStalls, HubInsertHopFails, At
  <2>2. req'[q].pc \in {"row", "unavailable"} /\ req'[q].n = req[q].n
    <3>1. CASE Answer(q, "unavailable")
      BY <3>1, AnswerDoes DEF Turns, Pcs, Answered, Shapes
    <3>2. CASE req' = [req EXCEPT ![q].boxed[req[q].n] = TRUE]
      BY <2>1, <3>2, BoxDoes DEF Boxes, Shapes
    <3>3. ASSUME NEW bound, Tried(q, bound, "row") PROVE req'[q].pc \in {"row", "unavailable"} /\ req'[q].n = req[q].n
      BY <3>3, TriedDoes DEF Retries, Pcs, Shapes
    <3> QED
      BY <1>3, <3>1, <3>2, <3>3 DEF CreateBox, InsertStalls, HubInsertHopFails
  <2>3. ~Stores(q)
    <3>1. req[q].n \in Nat
      BY DEF Shapes, RequestsTyped, ReqRow
    <3> QED
      BY <2>2, <3>1 DEF Stores
  <2>4. rows' \subseteq stored' /\ stored \subseteq stored' /\ held' \in [Recipients -> SUBSET stored']
    BY <2>1 DEF StoredInv
  <2> QED
    BY <1>1, <2>2, <2>3, <2>4, StoresRow
<1>4. CASE Push(q)
  <2>1. UNCHANGED <<work, req, rows, held, stored>>
    BY <1>4 DEF Push
  <2>2. Requests' = Requests /\ \A p \in Requests : RowsStored(p)'
    BY <2>1, StandsStill DEF StoredInv, Requests
  <2> QED
    BY <2>1, <2>2 DEF StoredInv
<1>5. CASE \/ SendArrives(q) \/ LiveSendArrives(q) \/ ReadContext(q) \/ ContextFails(q) \/ AskHub(q)
           \/ ContextHopFails(q) \/ Charge(q) \/ ChargeUnanswered(q) \/ Settle(q) \/ Resend(q)
  <2>1. UNCHANGED <<rows, held, stored>> /\ req[q].pc \notin {"row", "readBack"}
    BY <1>5 DEF SendArrives, LiveSendArrives, ReadContext, ContextFails, AskHub, ContextHopFails,
       Charge, ChargeUnanswered, Settle, Resend, At
  <2> QED
    BY <1>1, <2>1, StoresNothing
<1> QED
  BY <1>2, <1>3, <1>4, <1>5 DEF RequestStep

\* Every step keeps what was answered stored.
LEMMA StoredStep == ASSUME Shapes, StoredInv, [Next]_vars PROVE StoredInv'
<1>1. ASSUME UNCHANGED <<work, req, rows, held, stored>> PROVE StoredInv'
  <2>1. Requests' = Requests /\ \A p \in Requests : RowsStored(p)'
    BY <1>1, StandsStill DEF StoredInv, Requests
  <2> QED
    BY <1>1, <2>1 DEF StoredInv
<1>2. ASSUME NEW a \in asks, HubKeeps(a) PROVE StoredInv'
  <2>1. PICK q \in Requests : q = a.of.q
    BY <1>2, HubKeepsDoes
  <2>2. Goes(q) /\ work' = work
    BY <1>2, <2>1, HubKeepsDoes
  <2>3. UNCHANGED <<rows, held, stored>>
    BY <1>2 DEF HubKeeps
  <2>4. CASE IsAttached(a)
    <3>1. req[q].pc = "asked"
      BY <2>1, <2>4 DEF IsAttached, At
    <3> QED
      BY <2>2, <2>3, <3>1, StoresNothing
  <2>5. CASE ~IsAttached(a)
    BY <1>1, <1>2, <2>2, <2>3, <2>5 DEF HubKeeps
  <2> QED
    BY <2>4, <2>5
<1>3. CASE \/ \E a \in asks : HubReads(a)
           \/ ForgetClosed \/ Tick \/ (PermissionStep /\ UNCHANGED sendVars) \/ UNCHANGED vars
  <2>1. PermissionStep => work' = work
    BY PermissionsMove DEF Shapes, PermissionDoes
  <2> QED
    BY <1>1, <1>3, <2>1 DEF HubReads, ForgetClosed, Tick, vars, sendVars
<1> QED
  BY <1>2, <1>3, RequestStores, LateStores, AcknowledgeKeeps DEF Next

\* Nothing is answered at the start.
LEMMA StoredInit == Init => StoredInv
<1> SUFFICES ASSUME Init PROVE StoredInv
  OBVIOUS
<1>1. Shapes
  BY ShapesInit
<1>2. req = [q \in Requests |-> Fresh(0)] /\ rows = {} /\ held = [r \in Recipients |-> {}]
  BY DEF Init
<1>3. ASSUME NEW q \in Requests PROVE RowsStored(q)
  <2>1. req[q].pc = "new"
    BY <1>2 DEF Fresh
  <2> QED
    BY <2>1 DEF RowsStored
<1> QED
  BY <1>1, <1>2, <1>3 DEF StoredInv

\* A send is answered success only when a row of its own sender, recipient and text
\* was stored under each of its ids, with an output of the payment for each recipient
\* owed a fee, whatever stalled, was made again or landed late; a duplicate met a row
\* by that id (insert_message, insert_count_verdict, retried_row_is_ours).
THEOREM SuccessIsStored == Spec => []AnsweredIsStored
<1>1. Init => Shapes /\ StoredInv
  BY ShapesInit, StoredInit
<1>2. Shapes /\ StoredInv /\ [Next]_vars => (Shapes /\ StoredInv)'
  BY ShapesStep, StoredStep
<1>3. Shapes /\ StoredInv => AnsweredIsStored
  <2> SUFFICES ASSUME Shapes, StoredInv, NEW q \in Requests
               PROVE  /\ At(q, "success") => \A n \in DOMAIN Send(q).to : StoredFor(q, n)
                      /\ At(q, "duplicate") \/ IsAcked(q) => Met(q)
    BY DEF AnsweredIsStored, StoredFor, Met
  <2>1. RowsStored(q) /\ req[q].n \in DOMAIN Send(q).to
    BY DEF StoredInv, Shapes, RequestsTyped, RequestInStep
  <2>2. At(q, "success") => \A n \in DOMAIN Send(q).to : StoredFor(q, n)
    BY <2>1 DEF RowsStored, At
  <2>3. At(q, "success") => Met(q)
    BY <2>1, <2>2 DEF StoredFor, Met, To
  <2> QED
    BY <2>1, <2>2, <2>3 DEF RowsStored, At, IsAcked
<1> QED
  BY <1>1, <1>2, <1>3, PTL DEF Spec

-----------------------------------------------------------------------------
(* The fee a send is judged by *)

\* D1 itself gave that answer since a tick, or less than a copy's TTL ago.
Given(r, s, fee, since) == \E t \in since .. now : <<r, s, fee>> \in seen[t]
Recent(r, s, fee) == \E t \in 0 .. now : now - t < Ttl /\ <<r, s, fee>> \in seen[t]

\* A hub's copy is an answer D1 gave since the copy's stamp.
CopyInStep(r, s) ==
    copy[r][s].at # Never =>
        copy[r][s].at \in 0 .. now /\ Given(r, s, copy[r][s].fee, copy[r][s].at)

\* A handler at a hub asks for the recipient it was asked about; what it read, D1
\* gave since its stamp.
AskSays(a) ==
    /\ a.of.n \in DOMAIN Send(a.of.q).to
    /\ a.to = Send(a.of.q).to[a.of.n].who /\ a.from = From(a.of.q)
    /\ a.stamp \in 0 .. now
    /\ (a.fee # None => Given(a.to, a.from, a.fee, a.stamp))

\* Its caller is past it, for good.
Past(a) ==
    LET r == req[a.of.q]
    IN  \/ a.of.again < r.again
        \/ a.of.again = r.again /\ r.pc \notin Asking
        \/ /\ a.of.again = r.again /\ r.pc # "new"
           /\ a.of.n < r.n \/ (a.of.n = r.n /\ a.of.try < r.tries)

\* A caller that still waits asked in this tick.
AskInStep(a) == AskSays(a) /\ (Past(a) \/ (IsAttached(a) /\ a.stamp = now))

\* A fee a request holds was recent when it was taken.
FeeInStep(q, n) ==
    LET used == req[q].fees[n]
    IN  /\ used.at <= now
        /\ \E t \in 0 .. used.at :
               /\ used.at - t < Ttl
               /\ <<Send(q).to[n].who, From(q), used.fee>> \in seen[t]

FeeInv ==
    /\ Answers(perms) \subseteq seen[now]
    /\ \A r \in Recipients, s \in Senders : CopyInStep(r, s)
    /\ \A a \in asks : AskInStep(a)
    /\ \A q \in Requests : \A n \in DOMAIN req[q].fees : FeeInStep(q, n)

\* What D1 could answer in a tick is never taken back.
SeenStays ==
    /\ work' = work /\ now \in Nat /\ now' \in Nat /\ now <= now'
    /\ \A t \in 0 .. now : seen[t] \subseteq seen'[t]

\* An answer since a tick stays one.
LEMMA GivenStays ==
    ASSUME SeenStays, NEW r, NEW s, NEW fee, NEW since \in Nat, Given(r, s, fee, since)
    PROVE  Given(r, s, fee, since)'
<1>1. PICK t \in since .. now : <<r, s, fee>> \in seen[t]
  BY DEF Given
<1>2. t \in 0 .. now /\ t \in since .. now'
  BY DEF SeenStays
<1> QED
  BY <1>1, <1>2 DEF Given, SeenStays

\* A copy that stays, or goes, stays an answer of D1.
LEMMA CopyStays ==
    ASSUME SeenStays, NEW r, NEW s, CopyInStep(r, s), copy'[r][s] = copy[r][s] \/ copy'[r][s] = NoCopy
    PROVE  CopyInStep(r, s)'
<1>1. CASE copy'[r][s] = NoCopy
  BY <1>1 DEF CopyInStep, NoCopy
<1>2. CASE copy'[r][s] = copy[r][s] /\ copy[r][s].at = Never
  BY <1>2 DEF CopyInStep, Never
<1>3. CASE copy'[r][s] = copy[r][s] /\ copy[r][s].at # Never
  <2>1. PICK fee, at : fee = copy[r][s].fee /\ at = copy[r][s].at
    OBVIOUS
  <2>2. at \in 0 .. now /\ Given(r, s, fee, at)
    BY <1>3, <2>1 DEF CopyInStep
  <2>3. at \in 0 .. now' /\ at \in Nat
    BY <2>2 DEF SeenStays
  <2>4. Given(r, s, fee, at)'
    BY <2>2, <2>3, GivenStays
  <2> QED
    BY <1>3, <2>1, <2>3, <2>4 DEF CopyInStep
<1> QED
  BY <1>1, <1>2, <1>3

\* What a handler read stays an answer of D1.
LEMMA AskSaysStill == ASSUME SeenStays, NEW a, AskSays(a) PROVE AskSays(a)'
<1>1. a.stamp \in 0 .. now /\ a.stamp \in Nat /\ a.stamp \in 0 .. now'
  BY DEF AskSays, SeenStays
<1>2. a.fee # None => Given(a.to, a.from, a.fee, a.stamp)'
  BY <1>1, GivenStays DEF AskSays
<1>3. Send(a.of.q)' = Send(a.of.q) /\ From(a.of.q)' = From(a.of.q)
  BY DEF Send, From, SeenStays
<1> QED
  BY <1>1, <1>2, <1>3 DEF AskSays

\* A fee that was recent when it was taken was so for good.
LEMMA FeeStays ==
    ASSUME SeenStays, NEW q, NEW n, FeeInStep(q, n), req'[q].fees[n] = req[q].fees[n],
           req[q].fees[n].at \in Nat
    PROVE  FeeInStep(q, n)'
<1>1. PICK at, fee : at = req[q].fees[n].at /\ fee = req[q].fees[n].fee
  OBVIOUS
<1>2. PICK t \in 0 .. at : at - t < Ttl /\ <<Send(q).to[n].who, From(q), fee>> \in seen[t]
  BY <1>1 DEF FeeInStep
<1>3. at \in Nat /\ at <= now /\ at <= now' /\ t \in 0 .. now
  BY <1>1 DEF FeeInStep, SeenStays
<1>4. <<Send(q).to[n].who, From(q), fee>> \in seen'[t]
  BY <1>2, <1>3 DEF SeenStays
<1>5. Send(q)' = Send(q) /\ From(q)' = From(q)
  BY DEF Send, From, SeenStays
<1> QED
  BY <1>1, <1>2, <1>3, <1>4, <1>5 DEF FeeInStep

\* A handler whose caller moves on is past; one whose caller is past stays so.
LEMMA PastStays ==
    ASSUME Shapes, NEW q \in Requests, Goes(q), NEW a \in AskRow, a.of.q = q, Past(a) \/ IsAttached(a)
    PROVE  Past(a)' \/ req'[q] = req[q]
<1>1. /\ a.of.again \in Nat /\ a.of.n \in Nat /\ a.of.try \in Nat
      /\ req[q].again \in Nat /\ req[q].n \in Nat /\ req[q].tries \in Nat
  BY DEF AskRow, Shapes, RequestsTyped, ReqRow
<1>2. IsAttached(a) => req[q].pc = "asked" /\ a.of.again = req[q].again /\ a.of.n = req[q].n /\ a.of.try = req[q].tries
  BY DEF IsAttached, At, Ask
<1>3. Answered \cap Asking = {}
  BY DEF Answered, Asking
<1>4. CASE req' = req
  BY <1>4
<1>5. ASSUME NEW pc \in Pcs, Follows(req[q].pc, pc), Turns(q, pc), req'[q] # req[q] PROVE Past(a)'
  <2>1. /\ req'[q].pc = pc /\ req'[q].n = req[q].n /\ req'[q].tries = req[q].tries
        /\ req'[q].again = req[q].again
    BY <1>5 DEF Turns, Keeps
  <2>2. pc # "new" /\ (req[q].pc \notin Asking \/ req[q].pc = "asked" => pc \notin Asking)
    BY <1>3, <1>5 DEF Follows, Asking
  <2> QED
    BY <1>1, <1>2, <2>1, <2>2 DEF Past
<1>6. ASSUME req[q].pc \in {"context", "asked"}, NEW fee \in Int, Learns(q, fee) PROVE Past(a)'
  <2>1. /\ req'[q].again = req[q].again
        /\ \/ req'[q].pc = "context" /\ req'[q].n = req[q].n + 1
           \/ req'[q].pc \notin Asking
    BY <1>6 DEF Learns, Asking
  <2>2. req[q].pc \in Asking
    BY <1>6 DEF Asking
  <2>3. a.of.again < req[q].again \/ (a.of.again = req[q].again /\ a.of.n <= req[q].n)
    BY <1>1, <1>2, <2>2 DEF Past
  <2> QED
    BY <1>1, <2>1, <2>3 DEF Past
<1>7. CASE (req[q].pc \in {"context", "asked"} /\ Retries(q, "context")) \/ (req[q].pc = "row" /\ Retries(q, "row"))
  <2>1. /\ req'[q].again = req[q].again /\ req'[q].n = req[q].n /\ req'[q].tries = req[q].tries + 1
        /\ req'[q].pc # "new" /\ (req[q].pc \notin Asking => req'[q].pc \notin Asking)
    BY <1>7 DEF Retries, Keeps, Asking
  <2> QED
    BY <1>1, <1>2, <2>1 DEF Past
<1>8. CASE req[q].pc \in {"row", "readBack"} /\ (Stores(q) \/ Boxes(q))
  <2>1. req'[q].again = req[q].again /\ req'[q].pc \notin Asking /\ req[q].pc \notin Asking
    BY <1>8 DEF Stores, Boxes, Keeps, Asking
  <2>2. a.of.again <= req[q].again
    BY <1>1, <1>2 DEF Past
  <2> QED
    BY <1>1, <2>1, <2>2 DEF Past
<1>9. CASE Restarts(q)
  <2>1. req'[q].again = req[q].again + 1
    BY <1>9 DEF Restarts, Fresh
  <2>2. a.of.again <= req[q].again
    BY <1>1, <1>2 DEF Past
  <2> QED
    BY <1>1, <2>1, <2>2 DEF Past
<1> QED
  BY <1>4, <1>5, <1>6, <1>7, <1>8, <1>9 DEF Goes

\* A handler asked in this tick, or left behind, stays so while the clock stands.
LEMMA AskStays ==
    ASSUME Shapes, NEW q \in Requests, Goes(q), SeenStays, now' = now, NEW a \in AskRow, AskInStep(a)
    PROVE  AskInStep(a)'
<1>1. AskSays(a)'
  BY AskSaysStill DEF AskInStep
<1>2. Past(a)' \/ req'[a.of.q] = req[a.of.q]
  <2>1. CASE a.of.q = q
    BY <2>1, PastStays DEF AskInStep
  <2>2. CASE a.of.q # q
    <3>1. a.of.q \in Requests
      BY DEF AskRow
    <3> QED
      BY <2>2, <3>1 DEF Goes, Turns, Learns, Retries, Stores, Boxes, Restarts, Moved
  <2> QED
    BY <2>1, <2>2
<1>3. ASSUME req'[a.of.q] = req[a.of.q] PROVE Past(a)' \/ (IsAttached(a)' /\ a.stamp = now')
  BY <1>3 DEF AskInStep, Past, IsAttached, At, Ask
<1> QED
  BY <1>1, <1>2, <1>3 DEF AskInStep

\* What a step of a request does to the fees it holds: a fee it takes is recent.
Judges(q) ==
    \/ req'[q].fees = req[q].fees
    \/ req'[q].fees = <<>>
    \/ /\ req[q].pc \in {"context", "asked"}
       /\ \E fee \in Int : Learns(q, fee) /\ Recent(To(q).who, From(q), fee)

\* read_send_context takes D1's answer, handle_context a fresh copy's.
LEMMA RequestJudges == ASSUME Shapes, FeeInv, NEW q \in Requests, RequestStep(q) PROVE Judges(q)
<1>1. Goes(q) /\ PermTyped /\ RequestsTyped /\ now \in Nat
  BY RequestGoes, SendFacts DEF Shapes, PermTyped
<1>2. From(q) \in Senders /\ To(q).who \in Recipients
  BY <1>1, SendFacts
<1>3. CASE req[q].pc \notin {"context", "asked"}
  BY <1>1, <1>3 DEF Goes, Turns, Retries, Stores, Boxes, Restarts, Fresh, Keeps, Judges
<1>4. CASE ReadContext(q)
  <2>1. PICK fee : fee = FeeIn(perms, To(q).who, From(q))
    OBVIOUS
  <2>2. fee \in Int /\ <<To(q).who, From(q), fee>> \in Answers(perms)
    BY <1>1, <1>2, <2>1, FeeInTyped DEF PermTyped
  <2>3. now \in 0 .. now /\ now - now < Ttl
    BY <1>1, PermissionBounds
  <2>4. Recent(To(q).who, From(q), fee)
    BY <2>2, <2>3 DEF FeeInv, Recent
  <2>5. Learns(q, fee) /\ req[q].pc = "context"
    BY <1>1, <1>4, <2>1, <2>2, ContextDoes DEF ReadContext, At
  <2> QED
    BY <2>2, <2>4, <2>5 DEF Judges
<1>5. CASE AskHub(q)
  <2>1. CASE CopyIsFresh(To(q).who, From(q))
    <3>1. PICK fee, at : fee = copy[To(q).who][From(q)].fee /\ at = copy[To(q).who][From(q)].at
      OBVIOUS
    <3>2. fee \in Int
      BY <1>1, <1>2, <3>1 DEF PermTyped, Copies
    <3>3. at \in 0 .. now /\ Given(To(q).who, From(q), fee, at) /\ now - at < Ttl
      BY <1>2, <2>1, <3>1 DEF CopyIsFresh, FeeInv, CopyInStep
    <3>4. PICK t \in at .. now : <<To(q).who, From(q), fee>> \in seen[t]
      BY <3>3 DEF Given
    <3>5. t \in 0 .. now /\ now - t < Ttl
      BY <1>1, <3>3, PermissionBounds
    <3>6. Recent(To(q).who, From(q), fee)
      BY <3>4, <3>5 DEF Recent
    <3>7. Learns(q, fee) /\ req[q].pc = "context"
      BY <1>1, <1>5, <2>1, <3>1, <3>2, ContextDoes DEF AskHub, At
    <3> QED
      BY <3>2, <3>6, <3>7 DEF Judges
  <2>2. CASE ~CopyIsFresh(To(q).who, From(q))
    <3>1. Answer(q, "asked") /\ "asked" \in Pcs
      BY <1>5, <2>2 DEF AskHub, Pcs
    <3> QED
      BY <1>1, <3>1, AnswerDoes DEF Turns, Keeps, Judges
  <2> QED
    BY <2>1, <2>2
<1>6. CASE ContextFails(q)
  <2>1. Answer(q, "unavailable") /\ "unavailable" \in Pcs
    BY <1>6 DEF ContextFails, Pcs, Answered
  <2> QED
    BY <1>1, <2>1, AnswerDoes DEF Turns, Keeps, Judges
<1>7. CASE ContextHopFails(q)
  <2>1. Tried(q, HopAttempts, "context") /\ "context" \in Pcs
    BY <1>7 DEF ContextHopFails, Pcs
  <2> QED
    BY <1>1, <2>1, TriedDoes DEF Retries, Keeps, Judges
<1>8. CASE Push(q)
  BY <1>8 DEF Push, Judges
<1>9. CASE \/ SendArrives(q) \/ LiveSendArrives(q) \/ Charge(q) \/ ChargeUnanswered(q) \/ Settle(q)
           \/ CreateBox(q) \/ Insert(q) \/ ReadBack(q) \/ InsertStalls(q) \/ HubInsert(q)
           \/ HubInsertHopFails(q) \/ Resend(q)
  <2>1. req[q].pc \notin {"context", "asked"}
    BY <1>9 DEF SendArrives, LiveSendArrives, Charge, ChargeUnanswered, Settle, CreateBox, Insert,
       ReadBack, InsertStalls, HubInsert, HubInsertHopFails, Resend, At
  <2> QED
    BY <1>3, <2>1
<1> QED
  BY <1>4, <1>5, <1>6, <1>7, <1>8, <1>9 DEF RequestStep

\* A step at a request leaves every request with fees that were recent.
LEMMA FeesStay ==
    ASSUME Shapes, FeeInv, NEW q \in Requests, Goes(q), Judges(q), UNCHANGED <<work, now, seen>>
    PROVE  \A p \in Requests' : \A n \in DOMAIN req'[p].fees : FeeInStep(p, n)'
<1>1. SeenStays /\ Requests' = Requests
  BY SendWorks DEF SeenStays, Requests, Shapes, PermTyped
<1>2. ASSUME NEW p \in Requests, req'[p].fees = req[p].fees, NEW n \in DOMAIN req[p].fees PROVE FeeInStep(p, n)'
  <2>1. req[p].fees[n].at \in Nat
    <3>1. req[p].fees \in Seq(UsedFee)
      BY DEF Shapes, RequestsTyped, ReqRow
    <3>2. req[p].fees[n] \in UsedFee
      BY <3>1, ElementOfSeq, LenProperties
    <3> QED
      BY <3>2 DEF UsedFee
  <2> QED
    BY <1>1, <1>2, <2>1, FeeStays DEF FeeInv
<1>3. ASSUME NEW p \in Requests, p # q PROVE req'[p].fees = req[p].fees
  BY <1>3 DEF Goes, Turns, Learns, Retries, Stores, Boxes, Restarts, Moved
<1>4. CASE req'[q].fees = req[q].fees
  BY <1>1, <1>2, <1>3, <1>4
<1>5. CASE req'[q].fees = <<>>
  <2>1. DOMAIN <<>> = {}
    OBVIOUS
  <2> QED
    BY <1>1, <1>2, <1>3, <1>5, <2>1
<1>6. CASE req[q].pc \in {"context", "asked"} /\ \E fee \in Int : Learns(q, fee) /\ Recent(To(q).who, From(q), fee)
  <2>1. PICK fee \in Int : Learns(q, fee) /\ Recent(To(q).who, From(q), fee)
    BY <1>6
  <2>2. PICK k : k = req[q].n
    OBVIOUS
  <2>3. req[q].fees \in Seq(UsedFee) /\ Len(req[q].fees) = k - 1 /\ k \in Nat
    BY <1>6, <2>2 DEF Shapes, RequestsTyped, ReqRow, RequestInStep, Asking
  <2>4. PICK used : used = [fee |-> fee, at |-> now]
    OBVIOUS
  <2>5. used \in UsedFee /\ used.fee = fee /\ used.at = now
    BY <1>1, <2>4 DEF UsedFee, SeenStays
  <2>6. req'[q].fees = Append(req[q].fees, used)
    BY <2>1, <2>4 DEF Learns
  <2>7. /\ DOMAIN req'[q].fees = 1 .. k /\ req'[q].fees[k] = used
        /\ \A n \in 1 .. k - 1 : n \in DOMAIN req[q].fees /\ req'[q].fees[n] = req[q].fees[n]
    <3>1. Len(req'[q].fees) = Len(req[q].fees) + 1 /\ req'[q].fees \in Seq(UsedFee)
      BY <2>3, <2>5, <2>6, AppendProperties
    <3>2. DOMAIN req'[q].fees = 1 .. k /\ DOMAIN req[q].fees = 1 .. k - 1
      BY <2>3, <3>1, LenProperties
    <3> QED
      BY <2>3, <2>5, <2>6, <3>1, <3>2, AppendProperties
  <2>8. FeeInStep(q, k)'
    <3>1. Send(q)' = Send(q) /\ From(q)' = From(q) /\ To(q) = Send(q).to[k]
      BY <2>2 DEF Send, From, To
    <3>2. PICK t \in 0 .. now : now - t < Ttl /\ <<Send(q).to[k].who, From(q), fee>> \in seen[t]
      BY <2>1, <3>1 DEF Recent
    <3> QED
      BY <1>1, <2>5, <2>7, <3>1, <3>2 DEF FeeInStep, SeenStays
  <2>9. ASSUME NEW n \in 1 .. k - 1 PROVE FeeInStep(q, n)'
    <3>1. n \in DOMAIN req[q].fees /\ req'[q].fees[n] = req[q].fees[n]
      BY <2>7
    <3>2. req[q].fees[n] \in UsedFee
      BY <2>3, <3>1, ElementOfSeq, LenProperties
    <3>3. req[q].fees[n].at \in Nat
      BY <3>2 DEF UsedFee
    <3> QED
      BY <1>1, <3>1, <3>3, FeeStays DEF FeeInv
  <2>10. \A n \in 1 .. k : n = k \/ n \in 1 .. k - 1
    BY <2>3
  <2>11. \A n \in DOMAIN req'[q].fees : FeeInStep(q, n)'
    BY <2>7, <2>8, <2>9, <2>10
  <2> QED
    BY <1>1, <1>2, <1>3, <2>11
<1> QED
  BY <1>4, <1>5, <1>6 DEF Judges

\* A step of a request.
LEMMA RequestFee == ASSUME Shapes, FeeInv, NEW q \in Requests, RequestStep(q) PROVE FeeInv'
<1>1. Goes(q) /\ UNCHANGED <<work, perms, copy, seen, now>>
  BY RequestGoes DEF Shapes, permVars
<1>2. SeenStays
  BY <1>1, SendWorks DEF SeenStays, Shapes, PermTyped
<1>3. (Answers(perms) \subseteq seen[now])'
  BY <1>1 DEF FeeInv, Answers, FeeIn
<1>4. \A r \in Recipients, s \in Senders : CopyInStep(r, s)'
  BY <1>1, <1>2, CopyStays DEF FeeInv
<1>5. \A p \in Requests' : \A n \in DOMAIN req'[p].fees : FeeInStep(p, n)'
  BY <1>1, RequestJudges, FeesStay
<1>6. ASSUME NEW a \in asks PROVE AskInStep(a)'
  BY <1>1, <1>2, AskStays DEF FeeInv, Shapes
<1>7. ASSUME NEW a \in asks', a \notin asks PROVE AskInStep(a)'
  <2>1. PermTyped /\ RequestsTyped
    BY DEF Shapes
  <2>2. /\ Turns(q, "asked")
        /\ a = [of |-> Ask(q), to |-> To(q).who, from |-> From(q), stamp |-> now, fee |-> None]
    BY <1>7, <2>1, AsksMove
  <2>3. a.of = Ask(q) /\ a.to = To(q).who /\ a.from = From(q) /\ a.stamp = now /\ a.fee = None
    BY <2>2
  <2>4. a.of.q = q /\ a.of.n = req[q].n
    BY <2>3 DEF Ask
  <2>5. req[q].n \in DOMAIN Send(q).to /\ now \in 0 .. now
    BY <1>2, <2>1 DEF RequestsTyped, RequestInStep, SeenStays
  <2>6. AskSays(a)
    BY <2>3, <2>4, <2>5 DEF AskSays, To
  <2>7. AskSays(a)'
    BY <1>2, <2>6, AskSaysStill
  <2>8. IsAttached(a)'
    BY <2>2, <2>3, <2>4 DEF IsAttached, At, Ask, Turns, Keeps
  <2> QED
    BY <1>1, <2>3, <2>7, <2>8 DEF AskInStep
<1> QED
  BY <1>3, <1>4, <1>5, <1>6, <1>7 DEF FeeInv

\* handle_context reads D1.
LEMMA HubReadsFee == ASSUME Shapes, FeeInv, NEW a \in asks, HubReads(a) PROVE FeeInv'
<1>1. /\ a \in AskRow /\ UNCHANGED <<work, perms, copy, seen, now, req>>
  BY HubReadsDoes DEF permVars
<1>2. PICK b \in AskRow : /\ asks' = (asks \ {a}) \cup {b}
                          /\ b.of = a.of /\ b.to = a.to /\ b.from = a.from /\ b.stamp = a.stamp
                          /\ b.fee = FeeIn(perms, a.to, a.from)
  BY HubReadsDoes
<1>3. SeenStays
  BY <1>1, SendWorks DEF SeenStays, Shapes, PermTyped
<1>4. (Answers(perms) \subseteq seen[now])'
  BY <1>1 DEF FeeInv, Answers, FeeIn
<1>5. \A r \in Recipients, s \in Senders : CopyInStep(r, s)'
  BY <1>1, <1>3, CopyStays DEF FeeInv
<1>6. \A p \in Requests' : \A n \in DOMAIN req'[p].fees : FeeInStep(p, n)'
  BY <1>1 DEF FeeInv, FeeInStep, Requests, Send, From
<1>7. ASSUME NEW c, AskInStep(c) PROVE AskInStep(c)'
  <2>1. AskSays(c)'
    BY <1>3, <1>7, AskSaysStill DEF AskInStep
  <2> QED
    BY <1>1, <1>7, <2>1 DEF AskInStep, Past, IsAttached, At, Ask
<1>8. AskInStep(b)
  <2>1. AskInStep(a)
    BY DEF FeeInv
  <2>2. a.to \in Recipients /\ a.from \in Senders /\ perms \in [Recipients -> PermRow]
    BY <1>1 DEF AskRow, Shapes, PermTyped
  <2>3. <<b.to, b.from, b.fee>> \in seen[now]
    BY <1>2, <2>2, FeeInTyped DEF FeeInv
  <2>4. now \in b.stamp .. now
    BY <1>2, <1>3, <2>1 DEF AskInStep, AskSays, SeenStays
  <2>5. Given(b.to, b.from, b.fee, b.stamp)
    BY <2>3, <2>4 DEF Given
  <2> QED
    BY <1>2, <2>1, <2>5 DEF AskInStep, AskSays, Past, IsAttached, At, Ask
<1>9. \A c \in asks' : AskInStep(c)'
  BY <1>2, <1>7, <1>8 DEF FeeInv
<1> QED
  BY <1>4, <1>5, <1>6, <1>9 DEF FeeInv

\* Its answer is kept under the stamp, and given to a caller that still waits.
LEMMA HubKeepsFee == ASSUME Shapes, FeeInv, NEW a \in asks, HubKeeps(a) PROVE FeeInv'
<1>1. /\ a \in AskRow /\ a.of.q \in Requests /\ a.fee # None /\ Goes(a.of.q) /\ asks' = asks \ {a}
      /\ copy'[a.to][a.from] = [fee |-> a.fee, at |-> a.stamp]
      /\ \A r \in Recipients, s \in Senders : r # a.to \/ s # a.from => copy'[r][s] = copy[r][s]
      /\ (IsAttached(a) /\ Learns(a.of.q, a.fee)) \/ (~IsAttached(a) /\ req' = req)
      /\ UNCHANGED <<work, perms, seen, now>>
  BY HubKeepsDoes
<1>2. PICK q \in Requests : q = a.of.q
  BY <1>1
<1>3. SeenStays
  BY <1>1, SendWorks DEF SeenStays, Shapes, PermTyped
<1>4. AskInStep(a) /\ a.fee \in Int /\ a.stamp \in Nat
  BY <1>1 DEF FeeInv, AskRow
<1>5. (Answers(perms) \subseteq seen[now])'
  BY <1>1 DEF FeeInv, Answers, FeeIn
<1>6. ASSUME NEW r \in Recipients, NEW s \in Senders PROVE CopyInStep(r, s)'
  <2>1. CASE r = a.to /\ s = a.from
    <3>1. a.stamp \in 0 .. now' /\ Given(a.to, a.from, a.fee, a.stamp)'
      BY <1>1, <1>3, <1>4, GivenStays DEF AskInStep, AskSays
    <3>2. copy'[r][s].fee = a.fee /\ copy'[r][s].at = a.stamp
      BY <1>1, <2>1
    <3> QED
      BY <2>1, <3>1, <3>2 DEF CopyInStep
  <2>2. CASE r # a.to \/ s # a.from
    BY <1>1, <1>3, <2>2, CopyStays DEF FeeInv
  <2> QED
    BY <2>1, <2>2
<1>7. Judges(q)
  <2>1. CASE req' = req
    BY <2>1 DEF Judges
  <2>2. CASE IsAttached(a) /\ Learns(q, a.fee)
    <3>1. req[q].pc = "asked" /\ a.of = Ask(q)
      BY <1>2, <2>2 DEF IsAttached, At
    <3>2. a.of.again = req[q].again /\ a.of.n = req[q].n /\ a.of.try = req[q].tries
      BY <3>1 DEF Ask
    <3>3. req[q].again \in Nat /\ req[q].n \in Nat /\ req[q].tries \in Nat
      BY DEF Shapes, RequestsTyped, ReqRow
    <3>4. ~Past(a)
      <4>1. req[a.of.q] = req[q] /\ req[q].pc \in Asking
        BY <1>2, <3>1 DEF Asking
      <4>2. /\ ~(a.of.again < req[q].again) /\ ~(a.of.n < req[q].n) /\ ~(a.of.try < req[q].tries)
        BY <3>2, <3>3
      <4> QED
        BY <4>1, <4>2 DEF Past
    <3>5. a.stamp = now /\ a.to = To(q).who /\ a.from = From(q) /\ Given(a.to, a.from, a.fee, a.stamp)
      BY <1>1, <1>2, <1>4, <3>2, <3>4 DEF AskInStep, AskSays, To
    <3>6. PICK t \in now .. now : <<To(q).who, From(q), a.fee>> \in seen[t]
      BY <3>5 DEF Given
    <3>7. t \in 0 .. now /\ now - t < Ttl
      BY <1>3, <3>6, PermissionBounds DEF SeenStays
    <3>8. Recent(To(q).who, From(q), a.fee)
      BY <3>6, <3>7 DEF Recent
    <3> QED
      BY <1>4, <2>2, <3>1, <3>8 DEF Judges
  <2> QED
    BY <1>1, <1>2, <2>1, <2>2
<1>8. \A p \in Requests' : \A n \in DOMAIN req'[p].fees : FeeInStep(p, n)'
  BY <1>1, <1>2, <1>7, FeesStay
<1>9. \A c \in asks' : AskInStep(c)'
  BY <1>1, <1>2, <1>3, AskStays DEF FeeInv, Shapes
<1> QED
  BY <1>5, <1>6, <1>8, <1>9 DEF FeeInv

\* A tick: no caller waits on a hub through it.
LEMMA TickFee == ASSUME Shapes, FeeInv, Tick PROVE FeeInv'
<1>1. /\ now' = now + 1 /\ now \in Nat /\ seen'[now + 1] = Answers(perms)
      /\ \A t \in 0 .. now : seen'[t] = seen[t]
      /\ UNCHANGED <<work, perms, copy, req, asks>>
  BY TickDoes DEF Shapes, sendVars
<1>2. SeenStays
  BY <1>1 DEF SeenStays
<1>3. (Answers(perms) \subseteq seen[now])'
  BY <1>1 DEF Answers, FeeIn
<1>4. \A r \in Recipients, s \in Senders : CopyInStep(r, s)'
  BY <1>1, <1>2, CopyStays DEF FeeInv
<1>5. ASSUME NEW a \in asks' PROVE AskInStep(a)'
  <2>1. AskInStep(a) /\ ~IsAttached(a)
    BY <1>1, <1>5 DEF FeeInv, Tick
  <2>2. AskSays(a)'
    BY <1>2, <2>1, AskSaysStill DEF AskInStep
  <2> QED
    BY <1>1, <2>1, <2>2 DEF AskInStep, Past
<1>6. ASSUME NEW q \in Requests, NEW n \in DOMAIN req[q].fees PROVE FeeInStep(q, n)'
  <2>1. req[q].fees \in Seq(UsedFee)
    BY DEF Shapes, RequestsTyped, ReqRow
  <2>2. req[q].fees[n] \in UsedFee
    BY <2>1, ElementOfSeq, LenProperties
  <2>3. req[q].fees[n].at \in Nat
    BY <2>2 DEF UsedFee
  <2> QED
    BY <1>1, <1>2, <2>3, FeeStays DEF FeeInv
<1> QED
  BY <1>1, <1>3, <1>4, <1>5, <1>6 DEF FeeInv, Requests

\* A change of the permissions, or the forgetting of a copy.
LEMMA PermissionFee == ASSUME Shapes, FeeInv, PermissionStep, UNCHANGED sendVars PROVE FeeInv'
<1>1. /\ UNCHANGED <<work, now, req, asks>> /\ now \in 0 .. work.ticks /\ now \in Nat /\ work.ticks \in Nat
      /\ \A t \in 0 .. work.ticks : seen[t] \subseteq seen'[t]
      /\ perms' = perms \/ Answers(perms') \subseteq seen'[now]
      /\ \A r \in Recipients, s \in Senders : copy'[r][s] = copy[r][s] \/ copy'[r][s] = NoCopy
  <2>1. PermissionDoes
    BY PermissionsMove DEF Shapes
  <2>2. now \in 0 .. work.ticks /\ now \in Nat /\ work.ticks \in Nat
    BY SendWorks DEF Shapes, PermTyped
  <2> QED
    BY <2>1, <2>2 DEF PermissionDoes, sendVars
<1>2. SeenStays
  <2>1. \A t \in 0 .. now : t \in 0 .. work.ticks
    BY <1>1
  <2> QED
    BY <1>1, <2>1 DEF SeenStays
<1>3. (Answers(perms) \subseteq seen[now])'
  <2>1. CASE perms' = perms
    BY <1>1, <2>1 DEF FeeInv, Answers, FeeIn
  <2>2. CASE Answers(perms') \subseteq seen'[now]
    BY <1>1, <2>2 DEF Answers, FeeIn
  <2> QED
    BY <1>1, <2>1, <2>2
<1>4. \A r \in Recipients, s \in Senders : CopyInStep(r, s)'
  BY <1>1, <1>2, CopyStays DEF FeeInv
<1>5. ASSUME NEW a \in asks' PROVE AskInStep(a)'
  <2>1. AskInStep(a)
    BY <1>1, <1>5 DEF FeeInv
  <2>2. AskSays(a)'
    BY <1>2, <2>1, AskSaysStill DEF AskInStep
  <2> QED
    BY <1>1, <2>1, <2>2 DEF AskInStep, Past, IsAttached, At, Ask
<1>6. ASSUME NEW q \in Requests, NEW n \in DOMAIN req[q].fees PROVE FeeInStep(q, n)'
  <2>1. req[q].fees \in Seq(UsedFee)
    BY DEF Shapes, RequestsTyped, ReqRow
  <2>2. req[q].fees[n] \in UsedFee
    BY <2>1, ElementOfSeq, LenProperties
  <2>3. req[q].fees[n].at \in Nat
    BY <2>2 DEF UsedFee
  <2> QED
    BY <1>1, <1>2, <2>3, FeeStays DEF FeeInv
<1> QED
  BY <1>1, <1>3, <1>4, <1>5, <1>6 DEF FeeInv, Requests

\* Every step keeps the fees recent.
LEMMA FeeStep == ASSUME Shapes, FeeInv, [Next]_vars PROVE FeeInv'
<1>1. ASSUME UNCHANGED <<work, permVars, now, req, asks>> PROVE FeeInv'
  <2>1. UNCHANGED <<work, perms, copy, seen, now, req, asks>>
    BY <1>1 DEF permVars
  <2>2. (Answers(perms) \subseteq seen[now])'
    BY <2>1 DEF FeeInv, Answers, FeeIn
  <2>3. \A r \in Recipients, s \in Senders : CopyInStep(r, s)'
    BY <2>1 DEF FeeInv, CopyInStep, Given
  <2>4. ASSUME NEW a \in asks' PROVE AskInStep(a)'
    <3>1. AskInStep(a)
      BY <2>1, <2>4 DEF FeeInv
    <3>2. AskSays(a)'
      BY <2>1, <3>1 DEF AskInStep, AskSays, Given, Send, From
    <3> QED
      BY <2>1, <3>1, <3>2 DEF AskInStep, Past, IsAttached, At, Ask
  <2>5. \A q \in Requests' : \A n \in DOMAIN req'[q].fees : FeeInStep(q, n)'
    BY <2>1 DEF FeeInv, FeeInStep, Requests, Send, From
  <2> QED
    BY <2>2, <2>3, <2>4, <2>5 DEF FeeInv
<1>2. CASE \/ ForgetClosed \/ (\E x \in late : LateLands(x)) \/ (\E row \in stored : Acknowledge(row))
           \/ UNCHANGED vars
  BY <1>1, <1>2 DEF ForgetClosed, LateLands, Acknowledge, vars, sendVars
<1> QED
  BY <1>2, RequestFee, HubReadsFee, HubKeepsFee, TickFee, PermissionFee DEF Next

\* No fee is held at the start.
LEMMA FeeInit == Init => FeeInv
<1> SUFFICES ASSUME Init PROVE FeeInv
  OBVIOUS
<1>1. Shapes
  BY ShapesInit
<1>2. /\ req = [q \in Requests |-> Fresh(0)] /\ asks = {} /\ now = 0
      /\ seen = [t \in 0 .. work.ticks |-> IF t = 0 THEN Answers(perms) ELSE {}]
      /\ copy = [r \in Recipients |-> [s \in Senders |-> NoCopy]]
  BY DEF Init, PermissionInit
<1>3. Answers(perms) \subseteq seen[now]
  BY <1>1, <1>2 DEF Shapes, PermTyped
<1>4. \A r \in Recipients, s \in Senders : CopyInStep(r, s)
  BY <1>2 DEF CopyInStep, NoCopy
<1>5. \A q \in Requests : DOMAIN req[q].fees = {}
  <2>1. DOMAIN <<>> = {}
    OBVIOUS
  <2> QED
    BY <1>2, <2>1 DEF Fresh
<1> QED
  BY <1>1, <1>2, <1>3, <1>4, <1>5 DEF FeeInv

\* The fee a send was judged by is one that D1 itself would have answered less than
\* the copy's TTL ago, however long the hub's own read of D1 took, whichever caller
\* gave up on it, and whether or not a change's forget arrived (handle_context,
\* keep_permissions, permissions_copy).
THEOREM FeesAreRecent == Spec => []FeeIsRecent
<1>1. Init => Shapes /\ FeeInv
  BY ShapesInit, FeeInit
<1>2. Shapes /\ FeeInv /\ [Next]_vars => (Shapes /\ FeeInv)'
  BY ShapesStep, FeeStep
<1>3. FeeInv => FeeIsRecent
  BY DEF FeeInv, FeeInStep, FeeIsRecent
<1> QED
  BY <1>1, <1>2, <1>3, PTL DEF Spec

-----------------------------------------------------------------------------
(* Type correctness *)

FeeRow == [by : [Senders -> Fees \cup {None}], wide : Seq(Fees \cup {DefaultFee})]
QuotePcs == {"own", "wide", "create", "answered"}

\* What the type invariant asks for beyond the shapes: the permissions hold fees that
\* were set, the client sends again as often as it may, and only stored rows are pushed.
Bounded ==
    /\ perms \in [Recipients -> FeeRow]
    /\ quotes \in [DOMAIN work.quotes -> QuotePcs]
    /\ \A q \in Requests : req[q].again \in 0 .. work.resends
    /\ owed \in [Requests -> Seq(stored)] /\ pushed \subseteq stored

\* A setting of a fee.
LEMMA UpsertedBounded ==
    ASSUME NEW p \in [Recipients -> FeeRow], NEW x, x.fee \in Fees \cup {DefaultFee},
           x.from # Anyone => x.fee \in Fees
    PROVE  Upserted(p, x) \in [Recipients -> FeeRow]
<1>1. CASE x.from = Anyone
  <2>1. Upserted(p, x) = [p EXCEPT ![x.to] = [p[x.to] EXCEPT !.wide = Append(p[x.to].wide, x.fee)]]
    BY <1>1 DEF Upserted
  <2>2. x.to \in Recipients => [p[x.to] EXCEPT !.wide = Append(p[x.to].wide, x.fee)] \in FeeRow
    <3>1. x.to \in Recipients => /\ p[x.to] \in FeeRow
                                 /\ Append(p[x.to].wide, x.fee) \in Seq(Fees \cup {DefaultFee})
      BY AppendProperties DEF FeeRow
    <3> QED
      BY <3>1 DEF FeeRow
  <2> QED
    BY <2>1, <2>2
<1>2. CASE x.from # Anyone
  <2>1. Upserted(p, x) = [p EXCEPT ![x.to] = [p[x.to] EXCEPT !.by = [p[x.to].by EXCEPT ![x.from] = x.fee]]]
    BY <1>2 DEF Upserted
  <2>2. x.to \in Recipients => [p[x.to] EXCEPT !.by = [p[x.to].by EXCEPT ![x.from] = x.fee]] \in FeeRow
    <3>1. x.to \in Recipients => /\ p[x.to] \in FeeRow
                                 /\ [p[x.to].by EXCEPT ![x.from] = x.fee] \in [Senders -> Fees \cup {None}]
      BY <1>2 DEF FeeRow
    <3> QED
      BY <3>1 DEF FeeRow
  <2> QED
    BY <2>1, <2>2
<1> QED
  BY <1>1, <1>2

\* A step at the permissions.
LEMMA PermissionBounded ==
    ASSUME Shapes, Bounded, PermissionStep, UNCHANGED sendVars
    PROVE  Bounded'
<1>1. /\ work' = work /\ work \in Works /\ UNCHANGED <<req, owed, pushed, stored>>
      /\ perms \in [Recipients -> FeeRow] /\ quotes \in [DOMAIN work.quotes -> QuotePcs]
  BY PermissionsMove DEF Shapes, PermissionDoes, PermTyped, Bounded, sendVars
<1>2. ASSUME perms' \in [Recipients -> FeeRow], quotes' \in [DOMAIN work.quotes -> QuotePcs] PROVE Bounded'
  BY <1>1, <1>2 DEF Bounded, Requests
<1>3. \A n \in DOMAIN work.sets : work.sets[n].fee \in Fees
  BY <1>1, PermissionWorks
<1>4. CASE SetArrives \/ SetStalls \/ ForgetPermissions
  BY <1>1, <1>2, <1>4 DEF SetArrives, SetStalls, ForgetPermissions
<1>5. CASE SetPermission
  <2>1. PICK x : x = Setting
    OBVIOUS
  <2>2. x.fee \in Fees /\ perms' = Upserted(perms, x) /\ quotes' = quotes
    BY <1>3, <1>5, <2>1 DEF SetPermission, Setting, Shapes, PermTyped
  <2> QED
    BY <1>1, <1>2, <2>2, UpsertedBounded
<1>6. ASSUME NEW n \in DOMAIN work.sets, DroppedSetLands(n) PROVE Bounded'
  <2>1. PICK x : x = work.sets[n]
    OBVIOUS
  <2>2. x.fee \in Fees /\ perms' = Upserted(perms, x) /\ quotes' = quotes
    BY <1>3, <1>6, <2>1 DEF DroppedSetLands
  <2> QED
    BY <1>1, <1>2, <2>2, UpsertedBounded
<1>7. ASSUME NEW n \in DOMAIN work.quotes, QuoteReadsOwn(n) \/ QuoteReadsWide(n) PROVE Bounded'
  <2>1. PICK pc \in QuotePcs : quotes' = [quotes EXCEPT ![n] = pc] /\ perms' = perms
    BY <1>7 DEF QuoteReadsOwn, QuoteReadsWide, QuotePcs
  <2> QED
    BY <1>1, <1>2, <2>1
<1>8. ASSUME NEW n \in DOMAIN work.quotes, QuoteCreatesDefault(n) PROVE Bounded'
  <2>1. PICK x : x = [to |-> work.quotes[n].to, from |-> Anyone, fee |-> DefaultFee]
    OBVIOUS
  <2>2. x.fee = DefaultFee /\ x.from = Anyone /\ perms' = Upserted(perms, x)
    BY <1>8, <2>1 DEF QuoteCreatesDefault
  <2>3. quotes' = [quotes EXCEPT ![n] = "answered"] /\ "answered" \in QuotePcs
    BY <1>8 DEF QuoteCreatesDefault, QuotePcs
  <2>4. perms' \in [Recipients -> FeeRow]
    BY <1>1, <2>2, UpsertedBounded
  <2> QED
    BY <1>1, <1>2, <2>3, <2>4
<1> QED
  BY <1>4, <1>5, <1>6, <1>7, <1>8 DEF PermissionStep

\* A step elsewhere, by what it does to the pushes.
LEMMA BoundedStays ==
    ASSUME Shapes, Bounded, NEW q \in Requests, Goes(q), UNCHANGED <<work, perms, quotes>>,
           stored \subseteq stored', owed' \in [Requests -> Seq(stored')], pushed' \subseteq stored'
    PROVE  Bounded'
<1>1. Requests' = Requests
  BY DEF Requests
<1>2. ASSUME NEW p \in Requests PROVE req'[p].again \in 0 .. work.resends
  <2>1. req[p].again \in 0 .. work.resends /\ work.resends \in Nat
    BY SendWorks DEF Bounded, Shapes, PermTyped
  <2>2. CASE req'[p].again = req[p].again
    BY <2>1, <2>2
  <2>3. CASE p = q /\ req[q].again < work.resends /\ req'[q].again = req[q].again + 1
    BY <2>1, <2>3
  <2>4. req'[p].again = req[p].again \/ (p = q /\ req[q].again < work.resends /\ req'[q].again = req[q].again + 1)
    <3>1. Restarts(q) => req'[q].again = req[q].again + 1
      BY DEF Restarts, Fresh
    <3>2. CASE p # q
      BY <3>2 DEF Goes, Turns, Learns, Retries, Stores, Boxes, Restarts, Moved
    <3>3. CASE p = q
      BY <3>1, <3>3 DEF Goes, Turns, Learns, Retries, Stores, Boxes, Keeps
    <3> QED
      BY <3>2, <3>3
  <2> QED
    BY <2>2, <2>3, <2>4
<1> QED
  BY <1>1, <1>2 DEF Bounded

\* Pushes that are owed stay owed for rows that are stored.
LEMMA OwedStays ==
    ASSUME Bounded, stored \subseteq stored', owed' = owed, pushed' = pushed
    PROVE  owed' \in [Requests -> Seq(stored')] /\ pushed' \subseteq stored'
<1>1. Seq(stored) \subseteq Seq(stored')
  <2>1. ASSUME NEW s \in Seq(stored) PROVE s \in Seq(stored')
    BY SeqDef
  <2> QED
    BY <2>1
<1> QED
  BY <1>1 DEF Bounded

\* A push is owed for the row that is accepted.
LEMMA OwedAccepted ==
    ASSUME Bounded, NEW q \in Requests, stored \subseteq stored', Accepted(q), Row(q) \in stored', pushed' = pushed
    PROVE  owed' \in [Requests -> Seq(stored')] /\ pushed' \subseteq stored'
<1>1. owed \in [Requests -> Seq(stored')]
  <2>1. ASSUME NEW s \in Seq(stored) PROVE s \in Seq(stored')
    BY SeqDef
  <2> QED
    BY <2>1 DEF Bounded
<1>2. PICK r : r = Row(q)
  OBVIOUS
<1>3. Append(owed[q], r) \in Seq(stored')
  BY <1>1, <1>2, AppendProperties
<1>4. owed' = [owed EXCEPT ![q] = Append(owed[q], r)]
  BY <1>2 DEF Accepted
<1> QED
  BY <1>1, <1>3, <1>4 DEF Bounded

\* fan_out makes a push that is owed.
LEMMA OwedPushed ==
    ASSUME Bounded, NEW q \in Requests, Push(q)
    PROVE  owed' \in [Requests -> Seq(stored')] /\ pushed' \subseteq stored'
<1>1. owed[q] \in Seq(stored) /\ stored' = stored
  BY DEF Bounded, Push
<1>2. PICK n \in DOMAIN owed[q] : owed' = [owed EXCEPT ![q] = RemoveAt(owed[q], n)] /\ PushOne(owed[q][n])
  BY DEF Push
<1>3. n \in 1 .. Len(owed[q]) /\ Len(owed[q]) \in Nat /\ owed[q][n] \in stored
  BY <1>1, <1>2, LenProperties, ElementOfSeq
<1>4. RemoveAt(owed[q], n) \in Seq(stored)
  <2>1. SubSeq(owed[q], 1, n - 1) \in Seq(stored) /\ SubSeq(owed[q], n + 1, Len(owed[q])) \in Seq(stored)
    BY <1>1, <1>3, SubSeqProperties
  <2> QED
    BY <2>1, ConcatProperties DEF RemoveAt
<1>5. pushed' \subseteq stored
  BY <1>2, <1>3 DEF PushOne, Bounded
<1> QED
  BY <1>1, <1>2, <1>4, <1>5 DEF Bounded

\* A step of a request.
LEMMA RequestBounded ==
    ASSUME Shapes, StoredInv, Bounded, NEW q \in Requests, RequestStep(q)
    PROVE  Bounded'
<1>1. Goes(q) /\ UNCHANGED <<work, perms, quotes>>
  BY RequestGoes DEF Shapes, permVars
<1>2. CASE stored' = stored /\ owed' = owed /\ pushed' = pushed
  BY <1>1, <1>2, OwedStays, BoundedStays
<1>3. CASE Push(q)
  <2>1. stored' = stored
    BY <1>3 DEF Push
  <2> QED
    BY <1>1, <1>3, <2>1, OwedPushed, BoundedStays
<1>4. CASE /\ Insert(q) \/ ReadBack(q) \/ HubInsert(q)
           /\ Accepted(q)
  <2>1. pushed' = pushed /\ stored \subseteq stored'
    BY <1>4 DEF Insert, ReadBack, HubInsert
  <2>2. RequestsTyped /\ req[q].n \in Nat
    BY DEF Shapes, RequestsTyped, ReqRow
  <2>3. \A pc : Answer(q, pc) /\ pc \in Pcs => req'[q].pc = pc /\ req'[q].n = req[q].n
    BY <2>2, AnswerDoes DEF Turns
  <2>4. Stores(q)
    BY <1>4, <2>2, AcceptedDoes
  <2>5. Row(q) \in stored'
    <3>1. CASE Insert(q)
      <4>1. CASE ~IdIsFree(To(q).id)
        <5>1. PICK pc \in {"readBack", "duplicate"} : Answer(q, pc)
          BY <3>1, <4>1 DEF Insert, Verdict
        <5> QED
          BY <2>3, <2>4, <5>1 DEF Stores, Pcs, Answered
      <4>2. CASE IdIsFree(To(q).id)
        BY <3>1, <4>2 DEF Insert
      <4> QED
        BY <4>1, <4>2
    <3>2. CASE ReadBack(q)
      <4>1. CASE Row(q) \in rows
        BY <2>1, <4>1 DEF StoredInv
      <4>2. CASE Row(q) \notin rows
        <5>1. PICK pc \in {"duplicate", "unavailable"} : Answer(q, pc)
          BY <3>2, <4>2 DEF ReadBack
        <5> QED
          BY <2>2, <2>3, <2>4, <5>1 DEF Stores, Pcs, Answered
      <4> QED
        BY <4>1, <4>2
    <3>3. CASE HubInsert(q)
      <4>1. To(q).who \in Recipients /\ held[To(q).who] \subseteq stored
        BY <2>2, SendFacts DEF Shapes, StoredInv
      <4>2. Row(q) \in stored' \/ Row(q) \in held[To(q).who] \/ \E pc \in {"duplicate", "full"} : Answer(q, pc)
        BY <3>3 DEF HubInsert
      <4>3. ASSUME NEW pc \in {"duplicate", "full"}, Answer(q, pc) PROVE FALSE
        BY <2>2, <2>3, <2>4, <4>3 DEF Stores, Pcs, Answered
      <4> QED
        BY <2>1, <4>1, <4>2, <4>3
    <3> QED
      BY <1>4, <3>1, <3>2, <3>3
  <2> QED
    BY <1>1, <1>4, <2>1, <2>5, OwedAccepted, BoundedStays
<1>5. CASE /\ Insert(q) \/ ReadBack(q) \/ HubInsert(q)
           /\ ~Accepted(q)
  <2>1. owed' = owed /\ pushed' = pushed /\ stored \subseteq stored'
    BY <1>5 DEF Insert, ReadBack, HubInsert
  <2> QED
    BY <1>1, <2>1, OwedStays, BoundedStays
<1>6. CASE ~(Push(q) \/ Insert(q) \/ ReadBack(q) \/ HubInsert(q))
  <2>1. stored' = stored /\ owed' = owed /\ pushed' = pushed
    BY <1>6 DEF RequestStep, SendArrives, LiveSendArrives, ReadContext, ContextFails, AskHub, ContextHopFails,
       Charge, ChargeUnanswered, Settle, CreateBox, InsertStalls, HubInsertHopFails, Resend
  <2> QED
    BY <1>2, <2>1
<1> QED
  BY <1>3, <1>4, <1>5, <1>6

\* Every step keeps to its types.
LEMMA BoundedStep == ASSUME Shapes, StoredInv, Bounded, [Next]_vars PROVE Bounded'
<1>1. ASSUME UNCHANGED <<work, perms, quotes, req, owed, pushed>>, stored \subseteq stored' PROVE Bounded'
  <2>1. Requests' = Requests
    BY <1>1 DEF Requests
  <2> QED
    BY <1>1, <2>1, OwedStays DEF Bounded
<1>2. ASSUME NEW a \in asks, HubKeeps(a) PROVE Bounded'
  <2>1. PICK q \in Requests : q = a.of.q /\ Goes(q)
    BY <1>2, HubKeepsDoes
  <2>2. UNCHANGED <<work, perms, quotes, owed, stored, pushed>>
    BY <1>2 DEF HubKeeps
  <2> QED
    BY <2>1, <2>2, OwedStays, BoundedStays
<1>3. CASE \/ (\E a \in asks : HubReads(a)) \/ ForgetClosed \/ (\E x \in late : LateLands(x))
           \/ (\E row \in stored : Acknowledge(row)) \/ Tick \/ UNCHANGED vars
  <2>1. UNCHANGED <<work, perms, quotes, req, owed, pushed>> /\ stored \subseteq stored'
    BY <1>3 DEF HubReads, ForgetClosed, LateLands, Acknowledge, Tick, vars, sendVars, permVars
  <2> QED
    BY <1>1, <2>1
<1> QED
  BY <1>2, <1>3, RequestBounded, PermissionBounded DEF Next

\* The state has its types: requests at one of their recipients and within the resends
\* of their client, permissions of fees that were set, copies stamped in the past, and
\* only stored rows in D1, in a mailbox or pushed.
THEOREM SendTyped == Spec => []TypeOK
<1>1. Init => Shapes /\ StoredInv /\ FeeInv /\ Bounded
  <2> SUFFICES ASSUME Init PROVE Bounded
    BY ShapesInit, StoredInit, FeeInit
  <2>1. work.resends \in Nat /\ (\A q \in Requests : req[q].again = 0)
    BY SendWorks DEF Init, PermissionInit, Fresh
  <2>2. [by |-> [s \in Senders |-> None], wide |-> <<>>] \in FeeRow
    <3>1. <<>> \in Seq(Fees \cup {DefaultFee})
      BY EmptySeq
    <3> QED
      BY <3>1 DEF FeeRow
  <2>3. <<>> \in Seq(stored)
    BY EmptySeq
  <2>4. perms \in [Recipients -> FeeRow] /\ quotes \in [DOMAIN work.quotes -> QuotePcs]
    BY <2>2 DEF Init, PermissionInit, QuotePcs
  <2> QED
    BY <2>1, <2>3, <2>4 DEF Init, Bounded
<1>2. Shapes /\ StoredInv /\ FeeInv /\ Bounded /\ [Next]_vars => (Shapes /\ StoredInv /\ FeeInv /\ Bounded)'
  BY ShapesStep, StoredStep, FeeStep, BoundedStep
<1>3. Shapes /\ StoredInv /\ FeeInv /\ Bounded => TypeOK
  <2> SUFFICES ASSUME Shapes, StoredInv, FeeInv, Bounded PROVE TypeOK
    OBVIOUS
  <2>1. ASSUME NEW r \in Recipients, NEW s \in Senders
        PROVE  /\ perms[r].by[s] \in Fees \cup {None} /\ perms[r].wide \in Seq(Fees \cup {DefaultFee})
               /\ copy[r][s].at \in {Never} \cup 0 .. now
    BY DEF Bounded, FeeRow, FeeInv, CopyInStep
  <2>2. setting.n \in 0 .. Len(work.sets)
    BY PermissionWorks DEF Shapes, PermTyped
  <2>3. PermissionTypeOK
    BY <2>1, <2>2 DEF PermissionTypeOK, Shapes, PermTyped, Bounded, QuotePcs
  <2>4. ASSUME NEW q \in Requests
        PROVE  /\ req[q].pc \in Answered \cup {"new", "context", "asked", "charge", "settle", "row", "readBack"}
               /\ req[q].n \in DOMAIN Send(q).to /\ req[q].again \in 0 .. work.resends
    BY DEF Shapes, RequestsTyped, RequestInStep, ReqRow, Pcs, Bounded
  <2> QED
    BY <2>3, <2>4 DEF TypeOK, StoredInv, Bounded
<1> QED
  BY <1>1, <1>2, <1>3, PTL DEF Spec
=============================================================================
