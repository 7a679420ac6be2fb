----------------------------- MODULE RouteProofs -----------------------------
(***************************************************************************)
(* Proofs about the two routes that spend something outside the server:    *)
(* BeefDoor, which reads a payment within a request's budget, and          *)
(* TurnCredentials, which mints at a provider within the callers' budgets. *)
(*                                                                         *)
(* BeefDoor, for any workload: any number of requests over any payments,   *)
(* uploads and reclaims, store failures and header failures.  A verified   *)
(* payment is valid in every element, script and root, and pays what the   *)
(* request asks; no script runs of a payment that pays nobody.  Neither is *)
(* inductive: a request that resumes takes another's word for all that was *)
(* read before.  The invariant says what a cursor stands for (CursorOk), a *)
(* request's own and the saved one alike, and what a request knows at each *)
(* of its steps (RequestOk).                                               *)
(*                                                                         *)
(* TurnCredentials, for any requests, budgets, window and time to live.    *)
(***************************************************************************)
EXTENDS BeefDoor, TurnCredentials, FiniteSetTheorems, TLAPS

-----------------------------------------------------------------------------
(* The door *)

Bad(w, c, phase) == w.contents[c].bad[phase]
Pays(w, c, terms) == w.contents[c].subject # "none" /\ terms \in w.contents[c].pays
SomePays(w, c) == \E k \in DOMAIN w.requests : Pays(w, c, w.requests[k].terms)
Carried(w, c, n) ==
    \A i \in DOMAIN w.contents[c].roots : i <= n => w.contents[c].roots[i].carried

\* What was read before the cursor is valid: the phases before its own, and of
\* its own no refused step is behind it.
CursorOk(w, k) ==
    /\ k.stamp \in DOMAIN w.contents
    /\ k.phase = "structure" => Bad(w, k.stamp, "structure") = 0 \/ k.pos < Bad(w, k.stamp, "structure")
    /\ k.phase \in {"scripts", "roots"} => Bad(w, k.stamp, "structure") = 0 /\ SomePays(w, k.stamp)
    /\ k.phase = "scripts" => Bad(w, k.stamp, "scripts") = 0 \/ k.pos < Bad(w, k.stamp, "scripts")
    /\ k.phase = "roots" => Bad(w, k.stamp, "scripts") = 0 /\ Carried(w, k.stamp, k.asked)

\* The whole of a payment is valid and pays.
Verdict(w, c, terms) ==
    /\ Bad(w, c, "structure") = 0 /\ Bad(w, c, "scripts") = 0
    /\ Pays(w, c, terms)
    /\ w.contents[c].roots # <<>>
    /\ \A i \in DOMAIN w.contents[c].roots : w.contents[c].roots[i].carried

\* A request that has not looked at an object yet.
Blank(r) == r.stamp = 0 /\ r.phase = "structure" /\ r.pos = 0 /\ r.asked = 0 /\ ~r.known

RequestOk(w, q, r) ==
    /\ Blank(r) \/ CursorOk(w, r)
    /\ r.pc \in {"arrives", "spool", "stamp"} => Blank(r)
    /\ r.pc \in {"load", "read", "output", "proof", "roots", "save", "clear"} =>
          CursorOk(w, r) /\ w.requests[q].how \in {"named", "spooled"}
    /\ r.pc = "load" => r.phase = "structure" /\ r.pos = 0
    /\ r.pc = "read" => r.phase \in {"structure", "scripts"}
    /\ r.pc \in {"output", "proof"} /\ r.phase = "structure" => Bad(w, r.stamp, "structure") = 0
    /\ r.known => Pays(w, r.stamp, w.requests[q].terms)
    /\ r.pc = "roots" => r.known /\ r.phase = "roots"
    /\ r.pc = "spool" => w.requests[q].how \in {"named", "spooled"}
    /\ r.pc = "stamp" => w.requests[q].how \in {"named", "spooled"}
    /\ r.word = "verified" =>
          /\ r.pc \in {"clear", "forget", "answered"}
          /\ Verdict(w, IF w.requests[q].how = "hand" THEN 1 ELSE r.stamp, w.requests[q].terms)

SavedOk(w, k) == k # None => CursorOk(w, k)

Inv ==
    /\ TypeOK
    /\ SavedOk(work, saved)
    /\ \A q \in Requests : RequestOk(work, q, req[q])

-----------------------------------------------------------------------------
(* The roots *)

\* A set of places with no gap from a on is the places up to its size.
LEMMA NoGap ==
    ASSUME NEW a \in Nat, NEW n \in Nat, NEW T \in SUBSET (a + 1 .. n),
           \A p \in T : a + 1 .. p \subseteq T
    PROVE  /\ a + Cardinality(T) \in Nat
           /\ \A i \in a + 1 .. a + Cardinality(T) : i \in T
  <1>1. IsFiniteSet(a + 1 .. n)
    BY FS_Interval
  <1>2. IsFiniteSet(T)
    BY <1>1, FS_Subset
  <1>3. Cardinality(T) \in Nat
    BY <1>2, FS_CardinalityType
  <1>4. ASSUME NEW i \in a + 1 .. a + Cardinality(T), i \notin T
        PROVE  FALSE
    <2>1. i \in Nat /\ i - 1 \in Int /\ a + 1 \in Int
      BY <1>3, <1>4
    <2>2. T \subseteq a + 1 .. i - 1
      <3> SUFFICES ASSUME NEW p \in T, p >= i PROVE FALSE
        BY <1>3
      <3>1. i \in a + 1 .. p
        BY <1>3
      <3> QED BY <1>4, <3>1
    <2>3. IsFiniteSet(a + 1 .. i - 1) /\ Cardinality(a + 1 .. i - 1) = i - 1 - a
      <3>1. /\ IsFiniteSet(a + 1 .. i - 1)
            /\ Cardinality(a + 1 .. i - 1) = IF a + 1 > i - 1 THEN 0 ELSE (i - 1) - (a + 1) + 1
        BY <2>1, FS_Interval
      <3> QED BY <1>3, <3>1
    <2>4. Cardinality(T) <= i - 1 - a
      <3> DEFINE J == a + 1 .. i - 1
      <3>1. IsFiniteSet(J) /\ T \in SUBSET J /\ Cardinality(J) = i - 1 - a
        BY <2>2, <2>3
      <3> HIDE DEF J
      <3>2. Cardinality(T) <= Cardinality(J)
        BY <3>1, FS_Subset
      <3> QED BY <3>1, <3>2
    <2> QED BY <1>3, <2>4
  <1> QED BY <1>3, <1>4

\* What an upload's bytes hold, by position.
LEMMA ContentTyped ==
    ASSUME TypeOK, NEW c \in DOMAIN work.contents
    PROVE  /\ work \in Workload /\ Content(c) \in Payment
           /\ Roots(c) \in Seq(Root) /\ Len(Roots(c)) \in Nat
           /\ DOMAIN Roots(c) = 1 .. Len(Roots(c))
           /\ c \in Uploads /\ c # 0
           /\ \A phase \in {"structure", "scripts"} : BadAt(c, phase) \in Nat /\ Steps(c, phase) \in Nat
  <1>1. work \in Workload
    BY WorksAssumption DEF TypeOK
  <1>2. work.contents \in Seq(Payment)
    BY <1>1 DEF Workload
  <1>3. Content(c) \in Payment
    BY <1>2 DEF Content
  <1>4. Roots(c) \in Seq(Root)
    BY <1>3 DEF Roots, Payment
  <1>5. c \in Uploads /\ c # 0
    BY <1>2 DEF Uploads
  <1>6. \A phase \in {"structure", "scripts"} : BadAt(c, phase) \in Nat /\ Steps(c, phase) \in Nat
    BY <1>3 DEF Payment, BadAt, Steps
  <1> QED BY <1>1, <1>3, <1>4, <1>5, <1>6

\* The places one request reaches have no gap.
LEMMA ReachedNoGap ==
    ASSUME TypeOK, NEW c \in DOMAIN work.contents, ~NoRoots(c), NEW given \in Nat, NEW most \in Nat
    PROVE  /\ Reached(c, given, most) \subseteq given + 1 .. Len(Roots(c))
           /\ \A p \in Reached(c, given, most) : given + 1 .. p \subseteq Reached(c, given, most)
  <1>1. /\ Roots(c) \in Seq(Root) /\ Len(Roots(c)) \in Nat
        /\ DOMAIN Roots(c) = 1 .. Len(Roots(c))
    BY ContentTyped
  <1>2. \A i \in 1 .. Len(Roots(c)) : Roots(c)[i].height \in 0 .. MaxHeight
    <2> SUFFICES ASSUME NEW i \in 1 .. Len(Roots(c)) PROVE Roots(c)[i].height \in 0 .. MaxHeight
      OBVIOUS
    <2>1. Roots(c)[i] \in Root
      BY <1>1
    <2>2. Roots(c)[i].height \in Nat
      BY <2>1 DEF Root
    <2>3. ~(Roots(c)[i].height > MaxHeight)
      BY <1>1 DEF NoRoots, Heights
    <2> QED BY <2>2, <2>3, LookupsAssumption
  <1> SUFFICES ASSUME NEW p \in Reached(c, given, most), NEW i \in given + 1 .. p
               PROVE  i \in Reached(c, given, most)
    BY DEF Reached
  <1> DEFINE H(n) == {Roots(c)[j].height : j \in given + 1 .. n}
  <1>3. p \in given + 1 .. Len(Roots(c)) /\ Cardinality(H(p)) <= most
    BY DEF Reached
  <1>4. H(p) \subseteq 0 .. MaxHeight
    BY <1>1, <1>2, <1>3
  <1>5. IsFiniteSet(H(p))
    <2>1. IsFiniteSet(0 .. MaxHeight)
      BY FS_Interval, LookupsAssumption
    <2> HIDE DEF H
    <2> QED BY <1>4, <2>1, FS_Subset
  <1>6. H(i) \subseteq H(p)
    BY <1>1, <1>3
  <1>7. Cardinality(H(i)) <= most
    <2> HIDE DEF H
    <2>1. Cardinality(H(i)) <= Cardinality(H(p)) /\ IsFiniteSet(H(i))
      BY <1>5, <1>6, FS_Subset
    <2>2. Cardinality(H(i)) \in Nat /\ Cardinality(H(p)) \in Nat
      BY <1>5, <2>1, FS_CardinalityType
    <2> QED BY <1>3, <2>1, <2>2
  <1>8. i \in given + 1 .. Len(Roots(c))
    BY <1>1, <1>3
  <1> QED BY <1>7, <1>8 DEF Reached

\* roots_word: what it counts as asked is carried, and its yes is of them all.
LEMMA RootsSay ==
    ASSUME TypeOK, NEW c \in DOMAIN work.contents, NEW given \in Nat, NEW most \in Nat, NEW failed,
           Carried(work, c, given)
    PROVE  LET said == RootsWord(c, given, most, failed) IN
           /\ said.word \in {"refused", "pending", "unavailable", "verified"}
           /\ said.asked \in Nat /\ Carried(work, c, said.asked)
           /\ said.word = "verified" => /\ Roots(c) # <<>>
                                        /\ \A i \in DOMAIN Roots(c) : Roots(c)[i].carried
  <1> DEFINE reached == Reached(c, given, most)
             lost == {p \in reached : Roots(c)[p].height \in failed}
             spent == reached # given + 1 .. Len(Roots(c))
             before == {p \in reached : \A l \in lost : p < l}
             said == RootsWord(c, given, most, failed)
  <1>1. Roots(c) = work.contents[c].roots
    BY DEF Roots, Content
  <1>2. CASE NoRoots(c) \/ \E p \in reached \ lost : ~Roots(c)[p].carried
    <2>1. said = [word |-> "refused", asked |-> given]
      BY <1>2 DEF RootsWord
    <2> HIDE DEF said
    <2>2. said.word = "refused" /\ said.asked = given
      BY <2>1
    <2> QED BY <2>2 DEF said
  <1>3. CASE ~NoRoots(c) /\ \A p \in reached \ lost : Roots(c)[p].carried
    <2>1. said = [word |-> CASE spent -> "pending"
                             [] ~spent /\ lost # {} -> "unavailable"
                             [] OTHER -> "verified",
                  asked |-> given + Cardinality(before)]
      BY <1>3 DEF RootsWord, Stays
    <2>2. /\ said.word \in {"pending", "unavailable", "verified"}
          /\ said.word = "verified" => ~spent /\ lost = {}
          /\ said.asked = given + Cardinality(before)
      <3> HIDE DEF spent, lost, before, said
      <3> QED BY <2>1
    <2>3. /\ reached \subseteq given + 1 .. Len(Roots(c))
          /\ \A p \in reached : given + 1 .. p \subseteq reached
      BY <1>3, ReachedNoGap
    <2>4. /\ Len(Roots(c)) \in Nat /\ DOMAIN Roots(c) = 1 .. Len(Roots(c))
      BY ContentTyped
    <2> HIDE DEF reached, said
    <2>5. before \subseteq given + 1 .. Len(Roots(c))
      BY <2>3
    <2>6. \A p \in before : given + 1 .. p \subseteq before
      BY <2>3, <2>4
    <2>7. \A p \in before : p \in reached \ lost
      BY <2>3, <2>4
    <2> HIDE DEF before
    <2>8. /\ given + Cardinality(before) \in Nat
          /\ \A i \in given + 1 .. given + Cardinality(before) : i \in before
      BY <2>4, <2>5, <2>6, NoGap
    <2>9. Carried(work, c, said.asked)
      <3> SUFFICES ASSUME NEW i \in DOMAIN Roots(c), i <= said.asked PROVE Roots(c)[i].carried
        BY <1>1 DEF Carried
      <3>1. CASE i <= given
        BY <1>1, <3>1 DEF Carried
      <3>2. CASE ~(i <= given)
        <4>1. i \in given + 1 .. given + Cardinality(before)
          BY <2>2, <2>4, <2>8, <3>2
        <4> QED BY <1>3, <2>7, <2>8, <4>1
      <3> QED BY <3>1, <3>2
    <2>10. ASSUME said.word = "verified"
           PROVE  Roots(c) # <<>> /\ \A i \in DOMAIN Roots(c) : Roots(c)[i].carried
      <3>1. Roots(c) # <<>>
        BY <1>3 DEF NoRoots
      <3>2. ASSUME NEW i \in DOMAIN Roots(c) PROVE Roots(c)[i].carried
        <4>1. CASE i <= given
          BY <1>1, <4>1 DEF Carried
        <4>2. CASE ~(i <= given)
          <5>1. i \in reached
            BY <2>2, <2>4, <2>10, <4>2
          <5> QED BY <1>3, <2>2, <2>10, <5>1
        <4> QED BY <4>1, <4>2
      <3> QED BY <3>1, <3>2
    <2> QED BY <2>2, <2>8, <2>9, <2>10 DEF said
  <1> QED BY <1>2, <1>3

-----------------------------------------------------------------------------
(* One request moves on *)

\* What Inv says of one request.
LEMMA OwnRequest ==
    ASSUME Inv, NEW q \in Requests
    PROVE  /\ req[q] \in Request /\ RequestOk(work, q, req[q])
           /\ work \in Workload
           /\ work.requests[q] \in [how : {"named", "spooled", "hand", "free"}, terms : Terms \cup {None}]
  <1>1. work \in Workload
    BY WorksAssumption DEF Inv, TypeOK
  <1>2. work.requests[q] \in [how : {"named", "spooled", "hand", "free"}, terms : Terms \cup {None}]
    <2> DEFINE S == [how : {"named", "spooled", "hand", "free"}, terms : Terms \cup {None}]
    <2>1. work.requests \in Seq(S)
      BY <1>1 DEF Workload
    <2> HIDE DEF S
    <2>2. work.requests[q] \in S
      BY <2>1 DEF Requests
    <2> QED BY <2>2 DEF S
  <1> QED BY <1>1, <1>2 DEF Inv, TypeOK

\* What a step may do to the object, the list ahead and the failures left.
WorldOk == object' \in Uploads /\ ahead' \in Seq(Uploads) /\ faults' \in Nat

\* Uploads, object and faults as they were.
LEMMA WorldSame ==
    ASSUME Inv, UNCHANGED <<object, ahead, faults>>
    PROVE  WorldOk
  BY DEF Inv, TypeOK, WorldOk

\* One request moves and may save a cursor; each is as Inv wants it.
LEMMA MoveKeeps ==
    ASSUME Inv, NEW q \in Requests, NEW r \in Request, work' = work, WorldOk,
           req' = [req EXCEPT ![q] = r], RequestOk(work, q, r),
           saved' # None => saved' \in Cursor /\ CursorOk(work, saved')
    PROVE  Inv'
  <1>1. /\ req \in [Requests -> Request] /\ \A k \in Requests : RequestOk(work, k, req[k])
        /\ work \in Works
    BY DEF Inv, TypeOK
  <1>2. req' \in [Requests -> Request] /\ \A k \in Requests : RequestOk(work, k, req'[k])
    BY <1>1
  <1>3. Requests' = Requests /\ Uploads' = Uploads /\ Request' = Request /\ Cursor' = Cursor
    BY DEF Requests, Uploads, Request, Cursor
  <1>4. TypeOK'
    BY <1>1, <1>2, <1>3 DEF TypeOK, WorldOk
  <1>5. SavedOk(work', saved')
    BY DEF SavedOk
  <1>6. \A k \in Requests' : RequestOk(work', k, req'[k])
    BY <1>2, <1>3
  <1> QED BY <1>4, <1>5, <1>6 DEF Inv

\* One request moves and no cursor is saved.
LEMMA PlainKeeps ==
    ASSUME Inv, NEW q \in Requests, NEW r \in Request, UNCHANGED <<work, saved>>, WorldOk,
           req' = [req EXCEPT ![q] = r], RequestOk(work, q, r)
    PROVE  Inv'
  <1>1. saved' # None => saved' \in Cursor /\ CursorOk(work, saved')
    BY DEF Inv, TypeOK, SavedOk
  <1> QED BY <1>1, MoveKeeps

\* A request at another step, with another word, at the same cursor.
Says(r, pc, word) == [r EXCEPT !.pc = pc, !.word = word]

\* A request that goes on with a word keeps its reading.
LEMMA SaysFields ==
    ASSUME NEW r \in Request, NEW pc, NEW word
    PROVE  /\ Says(r, pc, word).pc = pc /\ Says(r, pc, word).word = word
           /\ Says(r, pc, word).stamp = r.stamp /\ Says(r, pc, word).phase = r.phase
           /\ Says(r, pc, word).pos = r.pos /\ Says(r, pc, word).asked = r.asked
           /\ Says(r, pc, word).known = r.known
           /\ pc \in {"forget", "answered", "spool", "stamp", "load", "proof", "read", "clear"}
                 /\ word \in Words \cup {None} => Says(r, pc, word) \in Request
  BY DEF Request, Says

\* An answer keeps the cursor, and is "verified" only where it was.
LEMMA AnswerOk ==
    ASSUME Inv, NEW q \in Requests, NEW pc \in {"forget", "answered"}, NEW word \in Words,
           word = "verified" => req[q].word = "verified"
    PROVE  Says(req[q], pc, word) \in Request /\ RequestOk(work, q, Says(req[q], pc, word))
  <1> DEFINE r == req[q]
             n == Says(r, pc, word)
  <1>1. r \in Request /\ RequestOk(work, q, r)
    BY OwnRequest
  <1>2. /\ n \in Request /\ n.pc = pc /\ n.word = word /\ n.stamp = r.stamp /\ n.phase = r.phase
        /\ n.pos = r.pos /\ n.asked = r.asked /\ n.known = r.known
    BY <1>1, SaysFields
  <1> HIDE DEF r, n
  <1>3. Blank(n) \/ CursorOk(work, n)
    BY <1>1, <1>2 DEF RequestOk, Blank, CursorOk
  <1>4. n.word = "verified" => r.word = "verified"
    BY <1>2 DEF r
  <1>5. RequestOk(work, q, n)
    BY <1>1, <1>2, <1>3, <1>4 DEF RequestOk
  <1> QED BY <1>2, <1>5 DEF r, n

\* An answer, with or without a spool to forget first, keeps Inv when the
\* verdict was reached already.
LEMMA EndsKeeps ==
    ASSUME Inv, NEW q \in Requests, NEW word \in Words, Ends(q, word) \/ Answer(q, word),
           word = "verified" => req[q].word = "verified", work' = work, WorldOk,
           saved' # None => saved' \in Cursor /\ CursorOk(work, saved')
    PROVE  Inv'
  <1>1. PICK pc \in {"forget", "answered"} : req' = [req EXCEPT ![q] = Says(req[q], pc, word)]
    <2>1. req \in [Requests -> Request]
      BY DEF Inv, TypeOK
    <2>2. CASE Ends(q, word)
      <3> DEFINE pc == IF How(q) = "spooled" /\ word \notin {"pending", "verified"}
                       THEN "forget" ELSE "answered"
      <3>1. req' = [req EXCEPT ![q].word = word, ![q].pc = pc] /\ pc \in {"forget", "answered"}
        BY <2>2 DEF Ends
      <3> HIDE DEF pc
      <3>2. req' = [req EXCEPT ![q] = Says(req[q], pc, word)]
        BY <2>1, <3>1 DEF Says, Request
      <3> QED BY <3>1, <3>2
    <2>3. CASE Answer(q, word)
      BY <2>1, <2>3 DEF Answer, Says
    <2> QED BY <2>2, <2>3
  <1>2. Says(req[q], pc, word) \in Request /\ RequestOk(work, q, Says(req[q], pc, word))
    BY AnswerOk
  <1> QED BY <1>1, <1>2, MoveKeeps

\* The same where the cursor is left alone.
LEMMA EndsPlain ==
    ASSUME Inv, NEW q \in Requests, NEW word \in Words, Ends(q, word) \/ Answer(q, word),
           word = "verified" => req[q].word = "verified", UNCHANGED <<work, saved>>, WorldOk
    PROVE  Inv'
  <1>1. saved' # None => saved' \in Cursor /\ CursorOk(work, saved')
    BY DEF Inv, TypeOK, SavedOk
  <1> QED BY <1>1, EndsKeeps

\* A request on its way has no verdict.
Active == {"arrives", "spool", "stamp", "load", "read", "output", "proof", "roots", "save"}

\* A request still reading has no verdict.
LEMMA NoVerdictYet ==
    ASSUME Inv, NEW q \in Requests, req[q].pc \in Active
    PROVE  req[q].word # "verified"
  BY OwnRequest DEF RequestOk, Active

\* The request goes on to another step, its cursor and its word as they were.
LEMMA GoesIs ==
    ASSUME Inv, NEW q \in Requests, NEW pc \in {"stamp", "spool", "proof"},
           req' = [req EXCEPT ![q].pc = pc]
    PROVE  /\ req' = [req EXCEPT ![q] = Says(req[q], pc, req[q].word)]
           /\ Says(req[q], pc, req[q].word) \in Request
  <1>1. req \in [Requests -> Request] /\ req[q] \in Request /\ req[q].word \in Words \cup {None}
    BY DEF Inv, TypeOK, Request
  <1>2. req' = [req EXCEPT ![q] = Says(req[q], pc, req[q].word)]
    BY <1>1 DEF Says, Request
  <1> QED BY <1>1, <1>2, SaysFields

-----------------------------------------------------------------------------
(* The steps of a request *)

\* A request that has not looked yet goes on to look.
LEMMA BeforeLook ==
    ASSUME Inv, NEW q \in Requests, req[q].pc \in {"arrives", "spool"},
           NEW pc \in {"stamp", "spool"}, req' = [req EXCEPT ![q].pc = pc],
           How(q) \in {"named", "spooled"}, UNCHANGED <<work, saved>>, WorldOk
    PROVE  Inv'
  <1> DEFINE r == req[q]
             n == Says(r, pc, r.word)
  <1>1. r \in Request /\ RequestOk(work, q, r) /\ r.word # "verified"
    BY OwnRequest, NoVerdictYet DEF Active
  <1>2. req' = [req EXCEPT ![q] = n] /\ n \in Request
    BY GoesIs
  <1>3. /\ n.pc = pc /\ n.word = r.word /\ n.stamp = r.stamp /\ n.phase = r.phase
        /\ n.pos = r.pos /\ n.asked = r.asked /\ n.known = r.known
    BY <1>1, SaysFields
  <1>4. Blank(r)
    BY <1>1 DEF RequestOk
  <1> HIDE DEF n
  <1>5. Blank(n)
    BY <1>3, <1>4 DEF Blank
  <1>6. RequestOk(work, q, n)
    BY <1>1, <1>3, <1>5 DEF RequestOk, Blank, How
  <1> QED BY <1>2, <1>6, PlainKeeps

\* The request arrives (beef_door's first choice of path).
LEMMA ArriveKeeps ==
    ASSUME Inv, NEW q \in Requests, Arrive(q)
    PROVE  Inv'
  <1>1. WorldOk /\ UNCHANGED <<work, saved>>
    BY WorldSame DEF Arrive
  <1>2. CASE \E word \in {"misconfigured", "refused", "unavailable"} : Answer(q, word)
    BY <1>1, <1>2, EndsPlain DEF Words, Retried
  <1>3. CASE req' = [req EXCEPT ![q].pc = "stamp"] \/ req' = [req EXCEPT ![q].pc = "spool"]
    BY <1>1, <1>3, BeforeLook DEF Arrive, At
  <1>4. InlineRefusal \in {"refused", "unavailable"}
    BY DEF InlineRefusal, Refusal
  <1> QED BY <1>2, <1>3, <1>4 DEF Arrive

\* The first upload is that of an inline payment.
LEMMA FirstContent ==
    ASSUME Inv
    PROVE  1 \in DOMAIN work.contents /\ 1 \in Uploads
  <1>1. work \in Workload /\ Len(work.contents) > 0
    BY WorksAssumption DEF Inv, TypeOK
  <1>2. work.contents \in Seq(Payment)
    BY <1>1 DEF Workload
  <1> QED BY <1>1, <1>2 DEF Uploads

\* A header lookup that fails uses up a fault and nothing else.
LEMMA HeadersOk ==
    ASSUME Inv, NEW c, NEW failed, HeadersFail(c, failed), UNCHANGED <<object, ahead>>
    PROVE  WorldOk
  BY DEF HeadersFail, Inv, TypeOK, WorldOk

\* An inline payment read in one request: the verdict is of these bytes.
LEMMA VerifyInlineKeeps ==
    ASSUME Inv, NEW q \in Requests, VerifyInline(q)
    PROVE  Inv'
  <1>1. PICK failed \in SUBSET Heights(1) :
            /\ HeadersFail(1, failed)
            /\ Answer(q, CASE ~IsClaim(q) -> "refused"
                          [] IsClaim(q) /\ ~work.headers -> "misconfigured"
                          [] IsRead(q) /\ ~PaysInline(q) -> InlineRefusal
                          [] IsRead(q) /\ PaysInline(q) /\ BadAt(1, "scripts") # 0 -> Refusal(1)
                          [] OTHER -> RootsWord(1, 0, Len(Roots(1)), failed).word)
    BY DEF VerifyInline
  <1> DEFINE said == RootsWord(1, 0, Len(Roots(1)), failed)
             word == CASE ~IsClaim(q) -> "refused"
                       [] IsClaim(q) /\ ~work.headers -> "misconfigured"
                       [] IsRead(q) /\ ~PaysInline(q) -> InlineRefusal
                       [] IsRead(q) /\ PaysInline(q) /\ BadAt(1, "scripts") # 0 -> Refusal(1)
                       [] OTHER -> said.word
  <1>2. TypeOK /\ 1 \in DOMAIN work.contents
    BY FirstContent DEF Inv
  <1>3. Len(Roots(1)) \in Nat /\ DOMAIN Roots(1) = 1 .. Len(Roots(1))
    BY <1>2, ContentTyped
  <1>4. Carried(work, 1, 0)
    BY <1>3 DEF Carried, Roots, Content
  <1>5. /\ said.word \in {"refused", "pending", "unavailable", "verified"}
        /\ said.word = "verified" => /\ Roots(1) # <<>>
                                     /\ \A i \in DOMAIN Roots(1) : Roots(1)[i].carried
    BY <1>2, <1>3, <1>4, RootsSay
  <1> HIDE DEF said
  <1>6. /\ word \in Words
        /\ word = "verified" => /\ PaysInline(q) /\ BadAt(1, "scripts") = 0
                                /\ said.word = "verified"
    <2>1. Refusal(1) \in {"refused", "unavailable"} /\ InlineRefusal \in {"refused", "unavailable"}
      BY DEF Refusal, InlineRefusal
    <2> QED BY <1>5, <2>1 DEF Words, Retried, IsRead
  <1>7. Answer(q, word)
    BY <1>1 DEF said
  <1> HIDE DEF word
  <1>8. WorldOk /\ UNCHANGED <<work, saved>>
    BY <1>1, HeadersOk DEF VerifyInline
  <1> DEFINE r == req[q]
             n == Says(r, "answered", word)
  <1>9. r \in Request /\ RequestOk(work, q, r) /\ r.pc = "arrives" /\ work.requests[q].how = "hand"
    BY OwnRequest DEF VerifyInline, At, How
  <1>10. req' = [req EXCEPT ![q] = n]
    <2>1. req \in [Requests -> Request]
      BY DEF Inv, TypeOK
    <2> QED BY <1>7, <2>1 DEF Answer, Says, Request
  <1>11. /\ n \in Request /\ n.pc = "answered" /\ n.word = word /\ n.stamp = r.stamp
         /\ n.phase = r.phase /\ n.pos = r.pos /\ n.asked = r.asked /\ n.known = r.known
    BY <1>6, <1>9, SaysFields
  <1>12. Blank(r)
    BY <1>9 DEF RequestOk
  <1> HIDE DEF n, r
  <1>13. Blank(n)
    BY <1>11, <1>12 DEF Blank
  <1>14. word = "verified" => Verdict(work, 1, work.requests[q].terms)
    BY <1>5, <1>6 DEF PaysInline, IsPaid, TermsOf, Subject, BadAt, Roots, Content, Verdict, Bad, Pays
  <1>15. RequestOk(work, q, n)
    BY <1>9, <1>11, <1>13, <1>14 DEF RequestOk, Blank
  <1> QED BY <1>8, <1>10, <1>11, <1>15, PlainKeeps

\* A payment no fee is owed for is read for its structure alone.
LEMMA CheckUnjudgedKeeps ==
    ASSUME Inv, NEW q \in Requests, CheckUnjudged(q)
    PROVE  Inv'
  <1>1. WorldOk /\ UNCHANGED <<work, saved>>
    BY WorldSame DEF CheckUnjudged
  <1>2. PICK word \in {"kept", "refused", "unavailable"} : Answer(q, word)
    BY DEF CheckUnjudged, Refusal
  <1> QED BY <1>1, <1>2, EndsPlain DEF Words, Retried

\* The spool of an inline payment.
LEMMA SpoolKeeps ==
    ASSUME Inv, NEW q \in Requests, Spool(q)
    PROVE  Inv'
  <1>1. WorldOk /\ UNCHANGED <<work, saved>>
    BY FirstContent DEF Spool, WorldOk, Inv, TypeOK
  <1>2. How(q) \in {"named", "spooled"}
    BY OwnRequest DEF Spool, At, RequestOk, How
  <1> QED BY <1>1, <1>2, BeforeLook DEF Spool, At

\* The stamp says which bytes are read.
LEMMA ReadStampKeeps ==
    ASSUME Inv, NEW q \in Requests, ReadStamp(q)
    PROVE  Inv'
  <1>1. WorldOk /\ UNCHANGED <<work, saved>>
    BY WorldSame DEF ReadStamp
  <1>2. CASE object = 0
    BY <1>1, <1>2, EndsPlain DEF ReadStamp, Words
  <1>3. CASE object # 0
    <2> DEFINE r == req[q]
               n == [r EXCEPT !.stamp = object, !.pc = "load"]
    <2>1. /\ r \in Request /\ RequestOk(work, q, r) /\ r.word # "verified" /\ r.pc = "stamp"
          /\ work \in Workload
      BY OwnRequest, NoVerdictYet DEF Active, ReadStamp, At
    <2>2. object \in Uploads /\ object \in DOMAIN work.contents
      <3>1. work.contents \in Seq(Payment)
        BY <2>1 DEF Workload
      <3> QED BY <1>3, <3>1 DEF Inv, TypeOK, Uploads
    <2>3. req' = [req EXCEPT ![q] = n]
      <3>1. req \in [Requests -> Request]
        BY DEF Inv, TypeOK
      <3> QED BY <1>3, <3>1 DEF ReadStamp, Request
    <2>4. Blank(r) /\ work.requests[q].how \in {"named", "spooled"}
      BY <2>1 DEF RequestOk
    <2>5. /\ n \in Request /\ n.pc = "load" /\ n.word = r.word /\ n.stamp = object
          /\ n.phase = r.phase /\ n.pos = r.pos /\ n.asked = r.asked /\ n.known = r.known
      BY <2>1, <2>2 DEF Request
    <2> HIDE DEF n
    <2>6. BadAt(object, "structure") \in Nat
      BY <2>2, ContentTyped DEF Inv
    <2>7. CursorOk(work, n)
      BY <2>2, <2>4, <2>5, <2>6 DEF CursorOk, Blank, Bad, BadAt, Content
    <2>8. RequestOk(work, q, n)
      BY <2>1, <2>4, <2>5, <2>7 DEF RequestOk, Blank
    <2> QED BY <1>1, <2>3, <2>5, <2>8, PlainKeeps
  <1> QED BY <1>2, <1>3

\* A cursor is resumed only where it is of the bytes just stamped.
LEMMA LoadKeeps ==
    ASSUME Inv, NEW q \in Requests, Load(q)
    PROVE  Inv'
  <1> DEFINE r == req[q]
             pc == IF saved.phase = "roots" THEN "output" ELSE "read"
             a == [r EXCEPT !.phase = saved.phase, !.pos = saved.pos, !.asked = saved.asked,
                            !.pc = pc]
             b == Says(r, "read", r.word)
             n == IF Resumes(q) THEN a ELSE b
  <1>1. WorldOk /\ UNCHANGED <<work, saved>>
    BY WorldSame DEF Load
  <1>2. /\ r \in Request /\ RequestOk(work, q, r) /\ r.word # "verified" /\ r.pc = "load"
        /\ r.word \in Words \cup {None}
    BY OwnRequest, NoVerdictYet DEF Active, Load, At, Request
  <1>3. [r EXCEPT !.pc = "read"] = b
    BY <1>2 DEF Says, Request
  <1>4. req' = [req EXCEPT ![q] = n]
    BY <1>3 DEF Load
  <1>5. Resumes(q) => a \in Request /\ RequestOk(work, q, a)
    <2> SUFFICES ASSUME Resumes(q) PROVE a \in Request /\ RequestOk(work, q, a)
      OBVIOUS
    <2>1. saved \in Cursor /\ CursorOk(work, saved) /\ saved.stamp = r.stamp
      BY DEF Resumes, Inv, TypeOK, SavedOk
    <2>2. saved.phase \in Phases /\ saved.pos \in Nat /\ saved.asked \in Nat
      BY <2>1 DEF Cursor
    <2>3. /\ a \in Request /\ a.pc = pc /\ a.word = r.word /\ a.stamp = r.stamp
          /\ a.phase = saved.phase /\ a.pos = saved.pos /\ a.asked = saved.asked
          /\ a.known = r.known
      BY <1>2, <2>2 DEF Request
    <2> HIDE DEF a, r
    <2>4. CursorOk(work, a)
      BY <2>1, <2>3 DEF CursorOk
    <2> QED BY <1>2, <2>2, <2>3, <2>4 DEF RequestOk, Phases
  <1>6. b \in Request /\ RequestOk(work, q, b)
    <2>1. /\ b \in Request /\ b.pc = "read" /\ b.word = r.word /\ b.stamp = r.stamp
          /\ b.phase = r.phase /\ b.pos = r.pos /\ b.asked = r.asked /\ b.known = r.known
      BY <1>2, SaysFields
    <2> HIDE DEF b, r
    <2>2. CursorOk(work, b)
      BY <1>2, <2>1 DEF CursorOk, RequestOk
    <2> QED BY <1>2, <2>1, <2>2 DEF RequestOk
  <1> HIDE DEF a, b
  <1>7. n \in Request /\ RequestOk(work, q, n)
    BY <1>5, <1>6
  <1> HIDE DEF n
  <1> QED BY <1>1, <1>4, <1>7, PlainKeeps

\* A slice that ends, is refused, or reads its phase to a valid end.
LEMMA ReadKeeps ==
    ASSUME Inv, NEW q \in Requests, Read(q)
    PROVE  Inv'
  <1> DEFINE r == req[q]
             bad == BadAt(r.stamp, r.phase)
             refused == bad > r.pos
             last == IF refused THEN bad - 1 ELSE Steps(r.stamp, r.phase)
  <1>1. WorldOk /\ UNCHANGED <<work, saved>>
    BY WorldSame DEF Read
  <1>2. /\ r \in Request /\ RequestOk(work, q, r) /\ r.word # "verified" /\ r.pc = "read"
        /\ r.pos \in Nat
    BY OwnRequest, NoVerdictYet DEF Active, Read, At, Request
  <1>3. /\ CursorOk(work, r) /\ work.requests[q].how \in {"named", "spooled"}
        /\ r.phase \in {"structure", "scripts"}
    BY <1>2 DEF RequestOk
  <1>4. r.stamp \in DOMAIN work.contents
    BY <1>3 DEF CursorOk
  <1>5. bad \in Nat /\ Steps(r.stamp, r.phase) \in Nat
    BY <1>3, <1>4, ContentTyped DEF Inv
  <1>6. bad = 0 \/ r.pos < bad
    BY <1>3 DEF CursorOk, BadAt, Content, Bad
  <1>7. CASE Ends(q, "unavailable")
    BY <1>1, <1>7, EndsPlain DEF Words, Retried
  <1>8. ASSUME NEW p \in PausesAt(r.pos, last),
               req' = [req EXCEPT ![q] = [r EXCEPT !.pos = p, !.word = "pending", !.pc = "save"]]
        PROVE  Inv'
    <2> DEFINE n == [r EXCEPT !.pos = p, !.word = "pending", !.pc = "save"]
    <2>1. p \in Nat /\ (bad = 0 \/ p < bad)
      BY <1>2, <1>5, <1>6, <1>8 DEF PausesAt
    <2>2. "pending" \in Words \cup {None}
      BY DEF Words, Retried
    <2>3. /\ n \in Request /\ n.pc = "save" /\ n.word = "pending" /\ n.stamp = r.stamp
          /\ n.phase = r.phase /\ n.pos = p /\ n.asked = r.asked /\ n.known = r.known
      BY <1>2, <2>1, <2>2 DEF Request
    <2>4. req' = [req EXCEPT ![q] = n]
      BY <1>8
    <2> HIDE DEF n
    <2>5. CursorOk(work, n)
      BY <1>3, <2>1, <2>3 DEF CursorOk, Bad, BadAt, Content
    <2>6. RequestOk(work, q, n)
      BY <1>2, <1>3, <2>3, <2>5 DEF RequestOk
    <2> QED BY <1>1, <2>3, <2>4, <2>6, PlainKeeps
  <1>9. CASE req' = [req EXCEPT ![q] = [r EXCEPT !.word = Refusal(r.stamp), !.pc = "clear"]]
    <2> DEFINE word == Refusal(r.stamp)
               n == [r EXCEPT !.word = word, !.pc = "clear"]
    <2>1. word \in Words \cup {None} /\ word # "verified"
      BY DEF Words, Retried, Refusal
    <2> HIDE DEF word
    <2>2. /\ n \in Request /\ n.pc = "clear" /\ n.word = word /\ n.stamp = r.stamp
          /\ n.phase = r.phase /\ n.pos = r.pos /\ n.asked = r.asked /\ n.known = r.known
      BY <1>2, <2>1 DEF Request
    <2>3. req' = [req EXCEPT ![q] = n]
      BY <1>9 DEF word
    <2> HIDE DEF n
    <2>4. CursorOk(work, n)
      BY <1>3, <2>2 DEF CursorOk
    <2>5. RequestOk(work, q, n)
      BY <1>2, <1>3, <2>1, <2>2, <2>4 DEF RequestOk
    <2> QED BY <1>1, <2>2, <2>3, <2>5, PlainKeeps
  <1>10. CASE ~refused /\ req' = [req EXCEPT ![q] = AfterReading(r)]
    <2> DEFINE n == AfterReading(r)
    <2>1. bad = 0
      BY <1>2, <1>5, <1>6, <1>10
    <2>2. req' = [req EXCEPT ![q] = n]
      BY <1>10
    <2>3. CASE r.phase = "structure"
      <3>1. /\ n \in Request /\ n.pc = "output" /\ n.word = r.word /\ n.stamp = r.stamp
            /\ n.phase = r.phase /\ n.pos = r.pos /\ n.asked = r.asked /\ n.known = r.known
        BY <1>2, <2>3 DEF AfterReading, Request
      <3> HIDE DEF n
      <3>2. CursorOk(work, n)
        BY <1>3, <3>1 DEF CursorOk
      <3>3. Bad(work, n.stamp, "structure") = 0
        BY <2>1, <2>3, <3>1 DEF Bad, BadAt, Content
      <3>4. RequestOk(work, q, n)
        BY <1>2, <1>3, <3>1, <3>2, <3>3 DEF RequestOk
      <3> QED BY <1>1, <2>2, <3>1, <3>4, PlainKeeps
    <2>4. CASE r.phase = "scripts"
      <3> DEFINE pc == IF r.known THEN "roots" ELSE "output"
      <3>1. n = [r EXCEPT !.phase = "roots", !.asked = 0, !.pc = pc]
        BY <2>4 DEF AfterReading
      <3>2. "roots" \in Phases /\ pc \in {"roots", "output"} /\ (pc = "roots" => r.known)
        BY DEF Phases
      <3> HIDE DEF pc, n
      <3>3. /\ n \in Request /\ n.pc = pc /\ n.word = r.word /\ n.stamp = r.stamp
            /\ n.phase = "roots" /\ n.pos = r.pos /\ n.asked = 0 /\ n.known = r.known
        <4> DEFINE none == 0
        <4>1. none \in Nat
          OBVIOUS
        <4>2. n = [r EXCEPT !.phase = "roots", !.asked = none, !.pc = pc]
          BY <3>1
        <4> HIDE DEF none, r
        <4>3. /\ n \in Request /\ n.pc = pc /\ n.word = r.word /\ n.stamp = r.stamp
              /\ n.phase = "roots" /\ n.pos = r.pos /\ n.asked = none /\ n.known = r.known
          BY <1>2, <3>2, <4>1, <4>2 DEF Request
        <4> QED BY <4>3 DEF none
      <3>4. Carried(work, n.stamp, 0)
        <4>1. DOMAIN Roots(n.stamp) = 1 .. Len(Roots(n.stamp))
          BY <1>4, <3>3, ContentTyped DEF Inv
        <4> QED BY <4>1 DEF Carried, Roots, Content
      <3>5. CursorOk(work, n)
        BY <1>3, <2>1, <2>4, <3>3, <3>4 DEF CursorOk, Bad, BadAt, Content
      <3>6. RequestOk(work, q, n)
        BY <1>2, <1>3, <3>2, <3>3, <3>5 DEF RequestOk
      <3> QED BY <1>1, <2>2, <3>3, <3>6, PlainKeeps
    <2> QED BY <1>3, <2>3, <2>4
  <1> QED BY <1>7, <1>8, <1>9, <1>10 DEF Read

\* The output is judged by the terms of the request itself.
LEMMA OutputWordOk ==
    ASSUME Inv, NEW q \in Requests, req[q].pc \in {"output", "proof"}
    PROVE  OutputWord(q) \in Request /\ RequestOk(work, q, OutputWord(q))
  <1> DEFINE r == req[q]
             n == OutputWord(q)
             paid == IsPaid(r.stamp, TermsOf(q))
  <1>1. /\ r \in Request /\ RequestOk(work, q, r) /\ r.word # "verified"
        /\ r.pc \in {"output", "proof"}
    BY OwnRequest, NoVerdictYet DEF Active
  <1>2. CursorOk(work, r) /\ work.requests[q].how \in {"named", "spooled"}
    BY <1>1 DEF RequestOk
  <1>3. paid <=> Pays(work, r.stamp, work.requests[q].terms)
    BY DEF IsPaid, Subject, Content, TermsOf, Pays
  <1> HIDE DEF paid
  <1>4. /\ ~paid => n = [r EXCEPT !.word = "refused", !.pc = "clear"]
        /\ paid /\ r.phase = "roots" => n = [r EXCEPT !.known = TRUE, !.pc = "roots"]
        /\ paid /\ r.phase # "roots" =>
              n = [r EXCEPT !.known = TRUE, !.phase = "scripts", !.pos = 0, !.pc = "read"]
    BY DEF OutputWord, paid
  <1>5. "refused" \in Words \cup {None} /\ "scripts" \in Phases
    BY DEF Words, Phases
  <1> HIDE DEF r, n
  <1>6. CASE ~paid
    <2>1. /\ n \in Request /\ n.pc = "clear" /\ n.word = "refused" /\ n.stamp = r.stamp
          /\ n.phase = r.phase /\ n.pos = r.pos /\ n.asked = r.asked /\ n.known = r.known
      BY <1>1, <1>4, <1>5, <1>6 DEF Request
    <2>2. CursorOk(work, n)
      BY <1>2, <2>1 DEF CursorOk
    <2> QED BY <1>1, <1>2, <2>1, <2>2 DEF RequestOk, n
  <1>7. CASE paid /\ r.phase = "roots"
    <2>1. /\ n \in Request /\ n.pc = "roots" /\ n.word = r.word /\ n.stamp = r.stamp
          /\ n.phase = r.phase /\ n.pos = r.pos /\ n.asked = r.asked /\ n.known = TRUE
      BY <1>1, <1>4, <1>7 DEF Request
    <2>2. CursorOk(work, n)
      BY <1>2, <2>1 DEF CursorOk
    <2> QED BY <1>1, <1>2, <1>3, <1>7, <2>1, <2>2 DEF RequestOk, n
  <1>8. CASE paid /\ r.phase # "roots"
    <2>1. /\ n \in Request /\ n.pc = "read" /\ n.word = r.word /\ n.stamp = r.stamp
          /\ n.phase = "scripts" /\ n.pos = 0 /\ n.asked = r.asked /\ n.known = TRUE
      <3> DEFINE none == 0
      <3>1. none \in Nat
        OBVIOUS
      <3>2. n = [r EXCEPT !.known = TRUE, !.phase = "scripts", !.pos = none, !.pc = "read"]
        BY <1>4, <1>8
      <3> HIDE DEF none
      <3>3. /\ n \in Request /\ n.pc = "read" /\ n.word = r.word /\ n.stamp = r.stamp
            /\ n.phase = "scripts" /\ n.pos = none /\ n.asked = r.asked /\ n.known = TRUE
        BY <1>1, <1>5, <3>1, <3>2 DEF Request
      <3> QED BY <3>3 DEF none
    <2>2. Bad(work, r.stamp, "structure") = 0
      <3>1. r.phase \in {"structure", "scripts"}
        BY <1>1, <1>8 DEF Request, Phases
      <3> QED BY <1>1, <1>2, <3>1 DEF RequestOk, CursorOk
    <2>3. SomePays(work, r.stamp)
      BY <1>3, <1>8 DEF SomePays, Requests
    <2>4. Bad(work, r.stamp, "scripts") = 0 \/ 0 < Bad(work, r.stamp, "scripts")
      <3>1. r.stamp \in DOMAIN work.contents
        BY <1>2 DEF CursorOk
      <3>2. BadAt(r.stamp, "scripts") \in Nat
        BY <3>1, ContentTyped DEF Inv
      <3> QED BY <3>2 DEF BadAt, Bad, Content
    <2>5. CursorOk(work, n)
      BY <1>2, <2>1, <2>2, <2>3, <2>4 DEF CursorOk
    <2> QED BY <1>1, <1>2, <1>3, <1>8, <2>1, <2>5 DEF RequestOk, n
  <1> QED BY <1>6, <1>7, <1>8 DEF n

\* The step that judges the output keeps Inv.
LEMMA OutputWordKeeps ==
    ASSUME Inv, NEW q \in Requests, req[q].pc \in {"output", "proof"}, UNCHANGED <<work, saved>>,
           WorldOk, req' = [req EXCEPT ![q] = OutputWord(q)]
    PROVE  Inv'
  <1> DEFINE n == OutputWord(q)
  <1>1. n \in Request /\ RequestOk(work, q, n) /\ req' = [req EXCEPT ![q] = n]
    BY OutputWordOk
  <1> HIDE DEF n
  <1> QED BY <1>1, PlainKeeps

\* The output is judged, with a proof at hand or not needed.
LEMMA JudgeOutputKeeps ==
    ASSUME Inv, NEW q \in Requests, JudgeOutput(q)
    PROVE  Inv'
  <1>1. WorldOk /\ UNCHANGED <<work, saved>> /\ req[q].pc = "output"
    BY WorldSame DEF JudgeOutput, At
  <1>2. CASE Ends(q, "unavailable")
    BY <1>1, <1>2, EndsPlain DEF Words, Retried
  <1>3. CASE req' = [req EXCEPT ![q].pc = "proof"]
    <2> DEFINE r == req[q]
               n == Says(r, "proof", r.word)
    <2>1. r \in Request /\ RequestOk(work, q, r) /\ r.word # "verified" /\ r.pc = "output"
      BY <1>1, OwnRequest, NoVerdictYet DEF Active
    <2>2. req' = [req EXCEPT ![q] = n] /\ n \in Request
      BY <1>3, GoesIs
    <2>3. /\ n.pc = "proof" /\ n.word = r.word /\ n.stamp = r.stamp /\ n.phase = r.phase
          /\ n.pos = r.pos /\ n.asked = r.asked /\ n.known = r.known
      BY <2>1, SaysFields
    <2> HIDE DEF n
    <2>4. CursorOk(work, n)
      BY <2>1, <2>3 DEF CursorOk, RequestOk
    <2>5. RequestOk(work, q, n)
      BY <2>1, <2>3, <2>4 DEF RequestOk
    <2> QED BY <1>1, <2>2, <2>5, PlainKeeps
  <1>4. CASE req' = [req EXCEPT ![q] = OutputWord(q)]
    BY <1>1, <1>4, OutputWordKeeps
  <1> QED BY <1>2, <1>3, <1>4 DEF JudgeOutput

\* The proof is read from the object, whose bytes may have changed.
LEMMA ReadProofKeeps ==
    ASSUME Inv, NEW q \in Requests, ReadProof(q)
    PROVE  Inv'
  <1>1. WorldOk /\ UNCHANGED <<work, saved>> /\ req[q].pc = "proof"
    BY WorldSame DEF ReadProof, At
  <1>2. CASE Ends(q, "unavailable")
    BY <1>1, <1>2, EndsPlain DEF Words, Retried
  <1>3. CASE req' = [req EXCEPT ![q] = OutputWord(q)]
    BY <1>1, <1>3, OutputWordKeeps
  <1> QED BY <1>2, <1>3 DEF ReadProof

\* The roots: a yes of them all, after the output and the scripts.
LEMMA AskRootsKeeps ==
    ASSUME Inv, NEW q \in Requests, AskRoots(q)
    PROVE  Inv'
  <1> DEFINE r == req[q]
  <1>1. PICK failed \in SUBSET Heights(r.stamp) :
            /\ HeadersFail(r.stamp, failed)
            /\ LET said == RootsWord(r.stamp, r.asked, Lookups, failed)
               IN  req' = [req EXCEPT ![q] =
                       [r EXCEPT !.word = said.word, !.asked = said.asked,
                                 !.pc = IF said.word \in Retried THEN "save" ELSE "clear"]]
    BY DEF AskRoots
  <1> DEFINE said == RootsWord(r.stamp, r.asked, Lookups, failed)
             pc == IF said.word \in Retried THEN "save" ELSE "clear"
             word == said.word
             given == said.asked
             n == [r EXCEPT !.word = word, !.asked = given, !.pc = pc]
  <1>2. req' = [req EXCEPT ![q] = n]
    BY <1>1
  <1>3. WorldOk /\ UNCHANGED <<work, saved>>
    BY <1>1, HeadersOk DEF AskRoots
  <1>4. /\ r \in Request /\ RequestOk(work, q, r) /\ r.pc = "roots" /\ r.asked \in Nat
    BY OwnRequest DEF AskRoots, At, Request
  <1>5. /\ CursorOk(work, r) /\ work.requests[q].how \in {"named", "spooled"}
        /\ Pays(work, r.stamp, work.requests[q].terms) /\ r.known /\ r.phase = "roots"
    BY <1>4 DEF RequestOk
  <1>6. /\ r.stamp \in DOMAIN work.contents /\ Carried(work, r.stamp, r.asked)
        /\ Bad(work, r.stamp, "structure") = 0 /\ Bad(work, r.stamp, "scripts") = 0
    BY <1>5 DEF CursorOk
  <1>7. /\ word \in {"refused", "pending", "unavailable", "verified"}
        /\ given \in Nat /\ Carried(work, r.stamp, given)
        /\ word = "verified" => /\ Roots(r.stamp) # <<>>
                                /\ \A i \in DOMAIN Roots(r.stamp) : Roots(r.stamp)[i].carried
    <2>1. TypeOK /\ Lookups \in Nat
      BY LookupsAssumption DEF Inv
    <2> HIDE DEF r
    <2> QED BY <1>4, <1>6, <2>1, RootsSay
  <1>8. pc \in {"save", "clear"} /\ (word = "verified" => pc = "clear")
    BY DEF Retried
  <1> HIDE DEF pc, word, given, said
  <1>9. /\ n \in Request /\ n.pc = pc /\ n.word = word /\ n.stamp = r.stamp
        /\ n.phase = r.phase /\ n.pos = r.pos /\ n.asked = given /\ n.known = r.known
    <2>1. word \in Words \cup {None}
      BY <1>7 DEF Words, Retried
    <2> HIDE DEF r
    <2> QED BY <1>4, <1>7, <1>8, <2>1 DEF Request
  <1> HIDE DEF n, r
  <1>10. CursorOk(work, n)
    BY <1>5, <1>7, <1>9 DEF CursorOk
  <1>11. word = "verified" => Verdict(work, r.stamp, work.requests[q].terms)
    BY <1>5, <1>6, <1>7 DEF Verdict, Roots, Content
  <1>12. RequestOk(work, q, n)
    BY <1>4, <1>5, <1>8, <1>9, <1>10, <1>11 DEF RequestOk
  <1> QED BY <1>2, <1>3, <1>9, <1>12, PlainKeeps

\* What a request saves is what it knows.
LEMMA RestOk ==
    ASSUME Inv, NEW q \in Requests, req[q].pc = "save"
    PROVE  Rest(q) \in Cursor /\ CursorOk(work, Rest(q))
  <1> DEFINE r == req[q]
  <1>1. r \in Request /\ CursorOk(work, r)
    BY OwnRequest DEF RequestOk
  <1>2. r.stamp \in Uploads \ {0}
    <2>1. r.stamp \in DOMAIN work.contents
      BY <1>1 DEF CursorOk
    <2> QED BY <2>1, ContentTyped DEF Inv
  <1>3. Rest(q) = [stamp |-> r.stamp, phase |-> r.phase, pos |-> r.pos, asked |-> r.asked]
    BY DEF Rest
  <1> HIDE DEF r
  <1> QED BY <1>1, <1>2, <1>3 DEF Request, Cursor, CursorOk

\* Saving or clearing the cursor keeps Inv.
LEMMA SaveKeeps ==
    ASSUME Inv, NEW q \in Requests, Save(q) \/ Clear(q)
    PROVE  Inv'
  <1>1. WorldOk /\ work' = work /\ Ends(q, req[q].word)
    BY WorldSame DEF Save, Clear
  <1>2. saved' # None => saved' \in Cursor /\ CursorOk(work, saved')
    BY RestOk DEF Save, Clear, At
  <1>3. CASE req[q].word \in Words
    BY <1>1, <1>2, <1>3, EndsKeeps
  <1>4. CASE req[q].word = None
    <2> DEFINE r == req[q]
    <2>1. PICK pc \in {"forget", "answered"} : req' = [req EXCEPT ![q] = Says(r, pc, r.word)]
      <3> DEFINE pc == IF How(q) = "spooled" /\ r.word \notin {"pending", "verified"}
                       THEN "forget" ELSE "answered"
      <3>1. req \in [Requests -> Request]
        BY DEF Inv, TypeOK
      <3>2. req' = [req EXCEPT ![q].word = r.word, ![q].pc = pc] /\ pc \in {"forget", "answered"}
        BY <1>1 DEF Ends
      <3> HIDE DEF pc
      <3>3. req' = [req EXCEPT ![q] = Says(r, pc, r.word)]
        BY <3>1, <3>2 DEF Says, Request
      <3> QED BY <3>2, <3>3
    <2> DEFINE n == Says(r, pc, r.word)
    <2>2. r \in Request /\ RequestOk(work, q, r) /\ r.word # "verified"
      BY <1>4, OwnRequest, NoneIsNoWord
    <2>3. /\ n \in Request /\ n.pc = pc /\ n.word = r.word /\ n.stamp = r.stamp
          /\ n.phase = r.phase /\ n.pos = r.pos /\ n.asked = r.asked /\ n.known = r.known
      BY <1>4, <2>2, SaysFields
    <2> HIDE DEF n
    <2>4. Blank(n) \/ CursorOk(work, n)
      BY <2>2, <2>3 DEF RequestOk, Blank, CursorOk
    <2>5. RequestOk(work, q, n)
      BY <2>2, <2>3, <2>4 DEF RequestOk
    <2>6. req' = [req EXCEPT ![q] = n]
      BY <2>1 DEF n
    <2> QED BY <1>1, <1>2, <2>3, <2>5, <2>6, MoveKeeps
  <1>5. req[q] \in Request
    BY OwnRequest
  <1> QED BY <1>3, <1>4, <1>5 DEF Request

\* No object is among what the key may hold.
LEMMA NoUpload ==
    ASSUME Inv
    PROVE  0 \in Uploads /\ Reclaimed \in Uploads
  <1>1. work \in Workload
    BY WorksAssumption DEF Inv, TypeOK
  <1>2. work.contents \in Seq(Payment)
    BY <1>1 DEF Workload
  <1> QED BY <1>2 DEF Uploads, Reclaimed, Inv, TypeOK

\* A request whose spool is forgotten, or is not, answers the word it has.
LEMMA ForgetAnswers ==
    ASSUME Inv, NEW q \in Requests, At(q, "forget"), Answer(q, req[q].word),
           UNCHANGED <<work, saved>>, WorldOk
    PROVE  Inv'
  <1> DEFINE r == req[q]
             n == Says(r, "answered", r.word)
  <1>1. r \in Request /\ RequestOk(work, q, r) /\ r.word \in Words \cup {None} /\ r.pc = "forget"
    BY OwnRequest DEF Request, At
  <1>2. req' = [req EXCEPT ![q] = n]
    <2>1. req \in [Requests -> Request]
      BY DEF Inv, TypeOK
    <2> QED BY <2>1 DEF Answer, Says, Request
  <1>3. /\ n \in Request /\ n.pc = "answered" /\ n.word = r.word /\ n.stamp = r.stamp
        /\ n.phase = r.phase /\ n.pos = r.pos /\ n.asked = r.asked /\ n.known = r.known
    BY <1>1, SaysFields
  <1> HIDE DEF n, r
  <1>4. Blank(n) \/ CursorOk(work, n)
    BY <1>1, <1>3 DEF RequestOk, Blank, CursorOk
  <1>5. RequestOk(work, q, n)
    BY <1>1, <1>3, <1>4 DEF RequestOk
  <1> QED BY <1>2, <1>3, <1>5, PlainKeeps

\* A failing store ends the request with no verdict, or with the one it has.
LEMMA StoreFailsKeeps ==
    ASSUME Inv, NEW q \in Requests, StoreFails(q)
    PROVE  Inv'
  <1>1. WorldOk
    <2>1. object' \in {object, 1, Reclaimed} /\ faults > 0 /\ faults' = faults - 1 /\ ahead' = ahead
      BY DEF StoreFails
    <2> QED BY <2>1, FirstContent, NoUpload DEF Inv, TypeOK, WorldOk
  <1>2. saved' \in {saved, None} \/ (req[q].pc = "save" /\ saved' = Rest(q))
    BY DEF StoreFails, At
  <1>3. saved' # None => saved' \in Cursor /\ CursorOk(work, saved')
    BY <1>2, RestOk DEF Inv, TypeOK, SavedOk
  <1>4. CASE At(q, "forget")
    <2>1. Answer(q, req[q].word) /\ UNCHANGED <<work, saved>>
      BY <1>4 DEF StoreFails, At
    <2> QED BY <1>1, <1>4, <2>1, ForgetAnswers
  <1>5. CASE ~At(q, "forget")
    <2>1. work' = work /\ (Ends(q, "unavailable") \/ Answer(q, "unavailable"))
      BY <1>5 DEF StoreFails
    <2> QED BY <1>1, <1>3, <2>1, EndsKeeps DEF Words, Retried
  <1> QED BY <1>4, <1>5

\* The spool is forgotten once the word is known.
LEMMA ForgetSpoolKeeps ==
    ASSUME Inv, NEW q \in Requests, ForgetSpool(q)
    PROVE  Inv'
  <1>1. WorldOk
    BY NoUpload DEF ForgetSpool, WorldOk, Inv, TypeOK
  <1> QED BY <1>1, ForgetAnswers DEF ForgetSpool

\* A request that has read nothing relies on nothing.
LEMMA FreshOk ==
    ASSUME NEW w, NEW q
    PROVE  Fresh.pc = "arrives" /\ RequestOk(w, q, Fresh)
  BY NoneIsNoWord DEF Fresh, RequestOk, Blank

\* It is a request.
LEMMA FreshType ==
    ASSUME work \in Works
    PROVE  Fresh \in Request
  <1>1. 0 \in Uploads
    <2>1. work.contents \in Seq(Payment)
      BY WorksAssumption DEF Workload
    <2> QED BY <2>1 DEF Uploads
  <1> QED BY <1>1 DEF Fresh, Request, Phases

\* A client that sends a 503 again starts afresh.
LEMMA RetryKeeps ==
    ASSUME Inv, NEW q \in Requests, Retry(q)
    PROVE  Inv'
  <1>1. WorldOk /\ UNCHANGED <<work, saved>> /\ req' = [req EXCEPT ![q] = Fresh]
    BY WorldSame DEF Retry
  <1>2. Fresh \in Request /\ RequestOk(work, q, Fresh)
    BY FreshType, FreshOk DEF Inv, TypeOK
  <1> QED BY <1>1, <1>2, PlainKeeps

-----------------------------------------------------------------------------
(* The theorems *)

\* An upload or a reclaim leaves requests and the cursor alone.
LEMMA StandKeeps ==
    ASSUME Inv, WorldOk, UNCHANGED <<work, saved, req>>
    PROVE  Inv'
  <1>1. Requests' = Requests /\ Uploads' = Uploads /\ Request' = Request /\ Cursor' = Cursor
    BY DEF Requests, Uploads, Request, Cursor
  <1>2. TypeOK'
    BY <1>1 DEF Inv, TypeOK, WorldOk
  <1>3. SavedOk(work', saved') /\ \A k \in Requests' : RequestOk(work', k, req'[k])
    BY <1>1 DEF Inv
  <1> QED BY <1>2, <1>3 DEF Inv

\* Inv holds at the start.
LEMMA InitInv == Init => Inv
  <1> SUFFICES ASSUME Init PROVE Inv
    OBVIOUS
  <1>1. work \in Works /\ work \in Workload
    BY WorksAssumption DEF Init
  <1>2. /\ work.contents \in Seq(Payment) /\ work.object \in Nat /\ work.ahead \in Seq(Nat)
        /\ work.faults \in Nat /\ work.object <= Len(work.contents)
        /\ \A i \in DOMAIN work.ahead : work.ahead[i] <= Len(work.contents)
    BY <1>1, WorksAssumption DEF Workload
  <1>3. object \in Uploads /\ faults \in Nat
    BY <1>2 DEF Init, Uploads
  <1>4. ahead \in Seq(Uploads)
    <2>1. ahead = work.ahead /\ Len(ahead) \in Nat /\ DOMAIN ahead = 1 .. Len(ahead)
      BY <1>2 DEF Init
    <2>2. \A i \in 1 .. Len(ahead) : ahead[i] \in Uploads
      BY <1>2, <2>1 DEF Uploads
    <2>3. ahead \in [1 .. Len(ahead) -> Uploads]
      BY <1>2, <2>1, <2>2
    <2> QED BY <2>1, <2>3
  <1>5. req \in [Requests -> Request]
    BY <1>1, FreshType DEF Init
  <1>6. \A q \in Requests : RequestOk(work, q, req[q])
    BY FreshOk DEF Init
  <1> QED BY <1>1, <1>3, <1>4, <1>5, <1>6 DEF Inv, TypeOK, SavedOk, Init

\* Every step keeps it.
LEMMA NextInv ==
    ASSUME Inv, [Next]_vars
    PROVE  Inv'
  <1>1. CASE \E q \in Requests : RequestStep(q)
    BY <1>1, ArriveKeeps, VerifyInlineKeeps, CheckUnjudgedKeeps, SpoolKeeps, ReadStampKeeps,
       LoadKeeps, ReadKeeps, JudgeOutputKeeps, ReadProofKeeps, AskRootsKeeps, SaveKeeps,
       ForgetSpoolKeeps, RetryKeeps
       DEF RequestStep
  <1>2. CASE \E q \in Requests : StoreFails(q)
    BY <1>2, StoreFailsKeeps
  <1>3. CASE Replace
    <2>1. ahead \in Seq(Uploads) /\ ahead # <<>>
      BY <1>3 DEF Replace, Inv, TypeOK
    <2>2. Head(ahead) \in Uploads /\ Tail(ahead) \in Seq(Uploads)
      BY <2>1
    <2>3. WorldOk /\ UNCHANGED <<work, saved, req>>
      BY <1>3, <2>2 DEF Replace, WorldOk, Inv, TypeOK
    <2> QED BY <2>3, StandKeeps
  <1>4. CASE UNCHANGED vars
    BY <1>4, WorldSame, StandKeeps DEF vars
  <1> QED BY <1>1, <1>2, <1>3, <1>4 DEF Next

\* So Inv always holds.
LEMMA Invariant == Spec => []Inv
  BY InitInv, NextInv, PTL DEF Spec

\* Whatever requests, failing stores, uploads and reclaims do, the state of
\* every component keeps its shape; a saved cursor is of an upload there was.
THEOREM TypeCorrect == Spec => []TypeOK
  <1>1. Inv => TypeOK
    BY DEF Inv
  <1> QED BY <1>1, Invariant, PTL

\* door_at_rest and roots_word say "verified" only of bytes that are valid in
\* every element, script and root and pay what the request asks, read in one
\* slice or in many, by one request or with the cursors of others.
THEOREM VerdictsAreSound == Spec => []VerifiedIsSound
  <1>1. Inv => VerifiedIsSound
    BY DEF Inv, RequestOk, VerifiedIsSound, Verdict, Bad, Pays, BadAt, IsPaid, Roots, Content,
           Subject, TermsOf, How
  <1> QED BY <1>1, Invariant, PTL

\* "A body that pays nothing costs one structural pass and no script", whoever
\* saved the cursor a request takes up.
THEOREM NoScriptUnpaid == Spec => []ScriptsArePaidFor
  <1>1. Inv => ScriptsArePaidFor
    <2> SUFFICES ASSUME Inv, NEW q \in Requests, req[q].phase \in {"scripts", "roots"}
                 PROVE  /\ BadAt(req[q].stamp, "structure") = 0
                        /\ \E r \in Requests : IsPaid(req[q].stamp, TermsOf(r))
      BY DEF ScriptsArePaidFor
    <2>1. CursorOk(work, req[q])
      BY OwnRequest DEF RequestOk, Blank
    <2> QED BY <2>1 DEF CursorOk, SomePays, Bad, Pays, BadAt, IsPaid, Content, Subject, TermsOf,
                        Requests
  <1> QED BY <1>1, Invariant, PTL

-----------------------------------------------------------------------------
(* TURN credentials *)

MintSteps == {"new", "off", "notCaller", "misconfigured", "charge", "ask", "spent",
              "unavailable", "charged", "record", "provider", "success", "undo", "unrecorded"}
RevokeSteps == {"owner", "off", "invalid", "misconfigured", "provider", "notFound", "unavailable",
                "forget", "failed", "revoked"}
MintRecs == [pc : MintSteps, window : WindowsOf, started : WindowsOf, n : 1 .. Names]
Owners == {"nobody"} \cup {turnWork.mints[q].by : q \in Mints}
Records == [by : Owners, until : Int]
Endings == [of : Usernames, by : {"relay"} \cup {Revoker(r) : r \in Revokes}]

TurnTypeOK ==
    /\ turnWork \in TurnWorks
    /\ mint \in [Mints -> MintRecs]
    /\ revoke \in [Revokes -> RevokeSteps]
    /\ budget \in [WindowsOf -> [Keys -> Nat]]
    /\ record \in [Usernames -> Records]
    /\ live \in [Usernames -> Int]
    /\ now \in WindowsOf
    /\ asked \in SUBSET Mints
    /\ handed \in [Usernames -> Records]
    /\ ended \in SUBSET Endings

Minter(q) == turnWork.mints[q].by

\* The mints charged to a key in a window, and of those the ones let through.
ChargedTo(v, key) ==
    {q \in Mints : /\ mint[q].window = v /\ key \in Charges(q)
                   /\ q \in asked \/ MintAt(q, "charged")}
AskedIn(v, key) == {q \in asked : mint[q].window = v /\ key \in Charges(q)}

\* A mint is in no window to come, and past its charge once it counts.
MintsInTime ==
    \A q \in Mints : /\ mint[q].window <= WindowOf(now)
                     /\ q \in asked => ~MintAt(q, "new") /\ ~MintAt(q, "charge")

\* The windows still open, this one and the ones to come, hold what was charged.
OpenWindowsExact ==
    \A v \in WindowsOf, key \in Keys :
        v >= WindowOf(now) => budget[v][key] = Cardinality(ChargedTo(v, key))

AskedWithinCaps ==
    \A v \in WindowsOf, key \in Keys : Cardinality(AskedIn(v, key)) <= Cap(key)

\* What is handed out is what a mint that succeeded recorded, whole.
HandedByMint ==
    \A q \in Mints, n \in 1 .. Names :
        handed[Username(q, n)] = IF MintAt(q, "success") THEN Mine(q) ELSE NoRecord

\* A username is recorded from the step of its mint to its expiry or its end.
RecordStands ==
    \A q \in Mints, n \in 1 .. Names :
        (MintAt(q, "success") \/ (MintAt(q, "record") /\ n < mint[q].n)) =>
            \/ record[Username(q, n)] = Mine(q)
            \/ Until(q) < now
            \/ MintAt(q, "success") /\ Ending(Username(q, n), Minter(q)) \in ended

\* A revoke is of a username handed out, by the identity that minted it, and
\* forgets what that identity ended.
RevokesInOrder ==
    \A r \in Revokes :
        /\ revoke[r] \in {"provider", "forget"} =>
              MintAt(turnWork.revokes[r].of, "success") /\ Revoker(r) = Minter(turnWork.revokes[r].of)
        /\ revoke[r] = "forget" => Ending(Revoked(r), Revoker(r)) \in ended

\* A username is on record under the identity that minted it, or not at all.
RecordOfMint ==
    \A q \in Mints, n \in 1 .. Names : record[Username(q, n)].by \in {"nobody", Minter(q)}

\* Ended: by the relay before anything was handed out, or by the minter after.
EndedByOwner ==
    \A e \in ended : \/ mint[e.of[1]].pc \in {"undo", "unrecorded"}
                     \/ MintAt(e.of[1], "success") /\ e.by = Minter(e.of[1])

BudgetInv == TurnTypeOK /\ MintsInTime /\ OpenWindowsExact /\ AskedWithinCaps
OwnersHold == RecordOfMint /\ EndedByOwner
RecordInv == TurnTypeOK /\ HandedByMint /\ RecordStands /\ RevokesInOrder /\ OwnersHold

-----------------------------------------------------------------------------
(* The windows of the clock *)

\* A window opens no later than the times it holds (bucket of the charge).
LEMMA WindowOpens ==
    ASSUME NEW t \in Nat
    PROVE  WindowOf(t) \in Nat /\ WindowOf(t) <= t
<1>1. t % Window \in 0 .. Window - 1 /\ t = Window * (t \div Window) + (t % Window)
  BY TurnBounds
<1>2. t \div Window \in Nat
  BY TurnBounds
<1>3. Window * (t \div Window) \in Nat
  BY TurnBounds, <1>2
<1> QED
  BY <1>1, <1>3 DEF WindowOf

\* The clock never goes back to an earlier window.
LEMMA WindowsAdvance ==
    ASSUME NEW t \in Nat
    PROVE  WindowOf(t) <= WindowOf(t + 1)
<1> DEFINE d == t \div Window
           e == (t + 1) \div Window
<1>1. d \in Int /\ e \in Int
  BY TurnBounds
<1>2. /\ t % Window \in 0 .. Window - 1 /\ t = Window * d + (t % Window)
      /\ (t + 1) % Window \in 0 .. Window - 1 /\ t + 1 = Window * e + ((t + 1) % Window)
  BY TurnBounds
<1>3. Window * d \in Int /\ Window * e \in Int
  BY <1>1, TurnBounds
<1>4. WindowOf(t) = Window * d /\ WindowOf(t + 1) = Window * e
  BY <1>2, <1>3, TurnBounds DEF WindowOf
<1> HIDE DEF d, e
<1>5. CASE e >= d
  BY <1>1, <1>4, <1>5, TurnBounds
<1>6. CASE e <= d - 1
  <2>1. Window * e <= Window * (d - 1)
    BY <1>1, <1>6, TurnBounds
  <2>2. Window * (d - 1) = Window * d - Window
    BY <1>1, TurnBounds
  <2> QED
    BY <1>1, <1>2, <1>3, <2>1, <2>2, TurnBounds
<1> QED
  BY <1>1, <1>5, <1>6

-----------------------------------------------------------------------------
(* Types *)

\* What the requests of a workload name is there, and the bounds are numbers.
LEMMA WorkFacts ==
    ASSUME TurnTypeOK
    PROVE  /\ turnWork.ticks \in Nat /\ IsFiniteSet(Mints)
           /\ \A q \in Mints, n \in 1 .. Names : Username(q, n) \in Usernames
           /\ \A r \in Revokes : Revoked(r) \in Usernames /\ Ending(Revoked(r), Revoker(r)) \in Endings
           /\ \A q \in Mints : /\ Charges(q) \subseteq Keys
                               /\ Until(q) \in Nat /\ Mine(q) \in Records
           /\ NoRecord \in Records
           /\ WindowOf(now) \in WindowsOf
<1>1. turnWork \in TurnWorks /\ turnWork.ticks \in Nat /\ IsFiniteSet(Mints)
  BY TurnWorksTyped DEF TurnTypeOK, Mints
<1>2. \A q \in Mints, n \in 1 .. Names : Username(q, n) \in Usernames
  BY DEF Usernames
<1>3. \A r \in Revokes : Revoked(r) \in Usernames /\ Ending(Revoked(r), Revoker(r)) \in Endings
  <2>1. \A r \in Revokes : Revoked(r) \in Usernames
    BY <1>1, <1>2, TurnWorksTyped DEF Revokes, Revoked, Mints
  <2> QED
    BY <2>1 DEF Ending, Endings
<1>4. \A q \in Mints : Charges(q) \subseteq Keys
  BY DEF Keys
<1>5. \A q \in Mints : Until(q) \in Nat /\ Mine(q) \in Records
  BY <1>1, TurnBounds DEF TurnTypeOK, MintRecs, Until, Mine, Records, Owners, WindowsOf
<1>6. NoRecord \in Records
  BY DEF NoRecord, Records, Owners
<1>7. WindowOf(now) \in WindowsOf
  BY <1>1, WindowOpens DEF TurnTypeOK, WindowsOf
<1> QED
  BY <1>1, <1>2, <1>3, <1>4, <1>5, <1>6, <1>7

\* Every key a mint charges has a bound.
LEMMA CapsOfKeys ==
    ASSUME NEW key \in Keys
    PROVE  Cap(key) \in Nat
<1>1. PICK q \in Mints : key \in Charges(q)
  BY DEF Keys
<1>2. key[1] \in {"identity", "source", "prefix48", "total"}
  BY <1>1 DEF Charges, ChargesOf, Key
<1> QED
  BY <1>2, CapsAreNat DEF Cap

\* No step changes the workload, and so none the sets drawn from it.
LEMMA WorkStays ==
    ASSUME [TurnNext]_turnVars
    PROVE  /\ turnWork' = turnWork /\ Mints' = Mints /\ Revokes' = Revokes /\ Usernames' = Usernames
           /\ WindowsOf' = WindowsOf /\ Keys' = Keys /\ Owners' = Owners /\ Records' = Records
           /\ MintRecs' = MintRecs /\ Endings' = Endings
           /\ \A q : Charges(q)' = Charges(q) /\ Minter(q)' = Minter(q)
           /\ \A r : Revoked(r)' = Revoked(r) /\ Revoker(r)' = Revoker(r)
<1>1. turnWork' = turnWork
  BY DEF TurnNext, turnVars, MintArrives, Charge, ChargeUnanswered, Generate, Record, RecordFails,
         Undo, ReadOwner, RevokeAtProvider, Forget, RevokeAgain, ForgetWindows,
         ForgetExpired, Tick
<1> QED
  BY <1>1 DEF Mints, Revokes, Usernames, WindowsOf, Keys, Charges, Owners, Records, Revoked, MintRecs,
              Endings, Revoker, Minter

\* Taking from the budgets leaves counts.
LEMMA TakenTyped ==
    ASSUME TurnTypeOK, NEW w \in WindowsOf, NEW keys
    PROVE  Taken(w, keys) \in [WindowsOf -> [Keys -> Nat]]
BY DEF Taken, TurnTypeOK

\* The updates the steps make of a mint give a mint.
LEMMA MintAnswered ==
    ASSUME mint \in [Mints -> MintRecs], NEW q \in Mints, NEW a \in MintSteps
    PROVE  [mint EXCEPT ![q].pc = a] \in [Mints -> MintRecs]
<1> DEFINE m == [mint[q] EXCEPT !.pc = a]
<1>1. m \in MintRecs
  BY DEF MintRecs
<1>2. [mint EXCEPT ![q].pc = a] = [mint EXCEPT ![q] = m]
  OBVIOUS
<1> HIDE DEF m
<1> QED
  BY <1>1, <1>2

\* A mint that notes the window it charges.
LEMMA MintWindowed ==
    ASSUME mint \in [Mints -> MintRecs], NEW q \in Mints, NEW a \in MintSteps, NEW v \in WindowsOf
    PROVE  [mint EXCEPT ![q].pc = a, ![q].window = v] \in [Mints -> MintRecs]
<1> DEFINE m == [mint[q] EXCEPT !.pc = a, !.window = v]
<1>1. m \in MintRecs
  BY DEF MintRecs
<1>2. [mint EXCEPT ![q].pc = a, ![q].window = v] = [mint EXCEPT ![q] = m]
  OBVIOUS
<1> HIDE DEF m
<1> QED
  BY <1>1, <1>2

\* A mint that notes when it called the provider.
LEMMA MintStarted ==
    ASSUME mint \in [Mints -> MintRecs], NEW q \in Mints, NEW a \in MintSteps, NEW v \in WindowsOf
    PROVE  [mint EXCEPT ![q].pc = a, ![q].started = v] \in [Mints -> MintRecs]
<1> DEFINE m == [mint[q] EXCEPT !.pc = a, !.started = v]
<1>1. m \in MintRecs
  BY DEF MintRecs
<1>2. [mint EXCEPT ![q].pc = a, ![q].started = v] = [mint EXCEPT ![q] = m]
  OBVIOUS
<1> HIDE DEF m
<1> QED
  BY <1>1, <1>2

\* A mint that goes on with another username.
LEMMA MintCounted ==
    ASSUME mint \in [Mints -> MintRecs], NEW q \in Mints, NEW a \in MintSteps, NEW k \in 1 .. Names
    PROVE  [mint EXCEPT ![q].pc = a, ![q].n = k] \in [Mints -> MintRecs]
<1> DEFINE m == [mint[q] EXCEPT !.pc = a, !.n = k]
<1>1. m \in MintRecs
  BY DEF MintRecs
<1>2. [mint EXCEPT ![q].pc = a, ![q].n = k] = [mint EXCEPT ![q] = m]
  OBVIOUS
<1> HIDE DEF m
<1> QED
  BY <1>1, <1>2

\* A mint that counts one username more.
LEMMA MintNext ==
    ASSUME mint \in [Mints -> MintRecs], NEW q \in Mints, NEW k \in 1 .. Names
    PROVE  [mint EXCEPT ![q].n = k] \in [Mints -> MintRecs]
<1> DEFINE m == [mint[q] EXCEPT !.n = k]
<1>1. m \in MintRecs
  BY DEF MintRecs
<1>2. [mint EXCEPT ![q].n = k] = [mint EXCEPT ![q] = m]
  OBVIOUS
<1> HIDE DEF m
<1> QED
  BY <1>1, <1>2

\* Budgets, records and the two histories keep their types.
LEMMA TypeStep ==
    ASSUME TurnTypeOK, [TurnNext]_turnVars
    PROVE  TurnTypeOK'
<1> USE DEF MintAt, MintAnswer, RevokeAt
<1>1. /\ turnWork' = turnWork /\ Mints' = Mints /\ Revokes' = Revokes /\ Usernames' = Usernames
      /\ WindowsOf' = WindowsOf /\ Keys' = Keys /\ Records' = Records /\ MintRecs' = MintRecs
      /\ Endings' = Endings
  BY WorkStays
<1>2. /\ \A q \in Mints, n \in 1 .. Names : Username(q, n) \in Usernames
      /\ \A r \in Revokes : Revoked(r) \in Usernames /\ Ending(Revoked(r), Revoker(r)) \in Endings
      /\ \A q \in Mints : Mine(q) \in Records
      /\ NoRecord \in Records
      /\ WindowOf(now) \in WindowsOf
      /\ \A q \in Mints : mint[q].n \in 1 .. Names
  BY WorkFacts DEF TurnTypeOK, MintRecs
<1>3. CASE UNCHANGED turnVars
  BY <1>1, <1>3 DEF TurnTypeOK, turnVars
<1>4. ASSUME NEW q \in Mints, MintArrives(q) PROVE TurnTypeOK'
  <2> DEFINE a == CASE ~turnWork.on -> "off"
                    [] turnWork.on /\ ~turnWork.mints[q].own -> "notCaller"
                    [] turnWork.on /\ turnWork.mints[q].own /\ ~turnWork.key -> "misconfigured"
                    [] OTHER -> "charge"
             v == WindowOf(now)
  <2>1. a \in MintSteps
    BY DEF MintSteps
  <2>2. mint' = [mint EXCEPT ![q].pc = a, ![q].window = v]
    BY <1>4 DEF MintArrives
  <2> HIDE DEF a, v
  <2>3. mint' \in [Mints -> MintRecs]
    BY <1>2, <2>1, <2>2, MintWindowed DEF TurnTypeOK, v
  <2> QED
    BY <1>1, <1>4, <2>3 DEF TurnTypeOK, MintArrives
<1>5. ASSUME NEW q \in Mints, Charge(q) PROVE TurnTypeOK'
  <2>1. Taken(mint[q].window, Charges(q)) \in [WindowsOf -> [Keys -> Nat]]
    BY TakenTyped DEF TurnTypeOK, MintRecs
  <2> DEFINE a == IF \A key \in Charges(q) : budget[mint[q].window][key] < Cap(key)
                  THEN "ask" ELSE "spent"
  <2>2. a \in MintSteps
    BY DEF MintSteps
  <2>3. mint' = [mint EXCEPT ![q].pc = a, ![q].started = now]
    BY <1>5 DEF Charge
  <2> HIDE DEF a
  <2>4. mint' \in [Mints -> MintRecs]
    BY <2>2, <2>3, MintStarted DEF TurnTypeOK
  <2> QED
    BY <1>1, <1>5, <2>1, <2>4 DEF TurnTypeOK, Charge
<1>6. ASSUME NEW q \in Mints, ChargeUnanswered(q) PROVE TurnTypeOK'
  <2>1. Taken(mint[q].window, Charges(q)) \in [WindowsOf -> [Keys -> Nat]]
    BY TakenTyped DEF TurnTypeOK, MintRecs
  <2> DEFINE a == IF budget' = budget THEN "unavailable" ELSE "charged"
  <2>2. a \in MintSteps
    BY DEF MintSteps
  <2>3. mint' = [mint EXCEPT ![q].pc = a]
    BY <1>6 DEF ChargeUnanswered
  <2> HIDE DEF a
  <2>4. mint' \in [Mints -> MintRecs]
    BY <2>2, <2>3, MintAnswered DEF TurnTypeOK
  <2> QED
    BY <1>1, <1>6, <2>1, <2>4 DEF TurnTypeOK, ChargeUnanswered
<1>7. ASSUME NEW q \in Mints, Generate(q) PROVE TurnTypeOK'
  <2>1. now + Ttl \in Int /\ 1 \in 1 .. Names /\ now \in Nat
    BY TurnBounds, WorkFacts DEF TurnTypeOK, WindowsOf
  <2>2. mint' \in [Mints -> MintRecs]
    <3>1. "record" \in MintSteps /\ "provider" \in MintSteps
      BY DEF MintSteps
    <3>2. CASE mint' = [mint EXCEPT ![q].pc = "record", ![q].n = 1]
      BY <2>1, <3>1, <3>2, MintCounted DEF TurnTypeOK
    <3>3. CASE mint' = [mint EXCEPT ![q].pc = "provider"]
      BY <3>1, <3>3, MintAnswered DEF TurnTypeOK
    <3> QED
      BY <1>7, <3>2, <3>3 DEF Generate
  <2> QED
    BY <1>1, <1>7, <2>1, <2>2 DEF TurnTypeOK, Generate
<1>8. ASSUME NEW q \in Mints, Record(q) PROVE TurnTypeOK'
  <2>1. mint[q].n < Names => mint[q].n + 1 \in 1 .. Names
    BY TurnBounds DEF TurnTypeOK, MintRecs
  <2>2. mint' \in [Mints -> MintRecs]
    <3>1. CASE mint[q].n < Names
      BY <1>8, <2>1, <3>1, MintNext DEF TurnTypeOK, Record
    <3>2. CASE ~(mint[q].n < Names)
      <4>1. mint' = [mint EXCEPT ![q].pc = "success"] /\ "success" \in MintSteps
        BY <1>8, <3>2 DEF Record, MintSteps
      <4> QED
        BY <4>1, MintAnswered DEF TurnTypeOK
    <3> QED
      BY <3>1, <3>2
  <2>3. record' \in [Usernames -> Records] /\ handed' \in [Usernames -> Records]
    BY <1>2, <1>8 DEF TurnTypeOK, Record
  <2> QED
    BY <1>1, <1>8, <2>2, <2>3 DEF TurnTypeOK, Record
<1>9. ASSUME NEW q \in Mints, RecordFails(q) PROVE TurnTypeOK'
  <2>1. mint' \in [Mints -> MintRecs]
    <3>1. /\ mint' = [mint EXCEPT ![q].pc = "undo", ![q].n = 1]
          /\ "undo" \in MintSteps /\ 1 \in 1 .. Names
      BY <1>9, TurnBounds DEF RecordFails, MintSteps
    <3> QED
      BY <3>1, MintCounted DEF TurnTypeOK
  <2> QED
    BY <1>1, <1>2, <1>9, <2>1 DEF TurnTypeOK, RecordFails
<1>10. ASSUME NEW q \in Mints, Undo(q) PROVE TurnTypeOK'
  <2>1. mint[q].n < Names => mint[q].n + 1 \in 1 .. Names
    BY TurnBounds DEF TurnTypeOK, MintRecs
  <2>2. mint' \in [Mints -> MintRecs]
    <3>1. CASE mint[q].n < Names
      BY <1>10, <2>1, <3>1, MintNext DEF TurnTypeOK, Undo
    <3>2. CASE ~(mint[q].n < Names)
      <4>1. mint' = [mint EXCEPT ![q].pc = "unrecorded"] /\ "unrecorded" \in MintSteps
        BY <1>10, <3>2 DEF Undo, MintSteps
      <4> QED
        BY <4>1, MintAnswered DEF TurnTypeOK
    <3> QED
      BY <3>1, <3>2
  <2>3. live' \in [Usernames -> Int] /\ ended' \in SUBSET Endings
    <3>1. Username(q, mint[q].n) \in Usernames
      BY <1>2 DEF TurnTypeOK, MintRecs
    <3>2. Ending(Username(q, mint[q].n), "relay") \in Endings
      BY <3>1 DEF Ending, Endings
    <3> QED
      BY <1>2, <1>10, <3>2 DEF TurnTypeOK, Undo, End
  <2> QED
    BY <1>1, <1>10, <2>2, <2>3 DEF TurnTypeOK, Undo
<1>11. ASSUME NEW r \in Revokes, ReadOwner(r) PROVE TurnTypeOK'
  <2>1. RevokeRefusal(r) \in {"off", "invalid", "misconfigured", "none"}
    BY DEF RevokeRefusal
  <2> QED
    BY <1>1, <1>11, <2>1 DEF TurnTypeOK, RevokeSteps, ReadOwner
<1>12. ASSUME NEW r \in Revokes, RevokeAtProvider(r) PROVE TurnTypeOK'
  BY <1>1, <1>2, <1>12 DEF TurnTypeOK, RevokeSteps, RevokeAtProvider, End
<1>13. ASSUME NEW r \in Revokes, Forget(r) PROVE TurnTypeOK'
  BY <1>1, <1>2, <1>13 DEF TurnTypeOK, RevokeSteps, Forget
<1>14. ASSUME NEW r \in Revokes, RevokeAgain(r) PROVE TurnTypeOK'
  BY <1>1, <1>14 DEF TurnTypeOK, RevokeSteps, RevokeAgain
<1>15. CASE ForgetWindows
  <2>1. NoCounts \in [Keys -> Nat]
    BY DEF NoCounts
  <2> QED
    BY <1>1, <1>15, <2>1 DEF TurnTypeOK, ForgetWindows
<1>16. CASE ForgetExpired
  BY <1>1, <1>2, <1>16 DEF TurnTypeOK, ForgetExpired
<1>17. CASE Tick
  <2>1. now' \in WindowsOf
    BY <1>17, WorkFacts DEF TurnTypeOK, Tick, WindowsOf
  <2> QED
    BY <1>1, <1>17, <2>1 DEF TurnTypeOK, Tick
<1> QED
  BY <1>3, <1>4, <1>5, <1>6, <1>7, <1>8, <1>9, <1>10, <1>11, <1>12, <1>13, <1>14, <1>15,
     <1>16, <1>17 DEF TurnNext

\* The type holds at the start.
LEMMA TypeInit == TurnInit => TurnTypeOK
<1> SUFFICES ASSUME TurnInit PROVE TurnTypeOK
  OBVIOUS
<1>1. turnWork.ticks \in Nat
  BY TurnWorksTyped DEF TurnInit
<1>2. 0 \in WindowsOf /\ 1 \in 1 .. Names
  BY <1>1, TurnBounds DEF WindowsOf
<1>3. NoRecord \in Records /\ NoCounts \in [Keys -> Nat]
  BY DEF NoRecord, Records, Owners, NoCounts
<1> QED
  BY <1>2, <1>3 DEF TurnInit, TurnTypeOK, MintRecs, MintSteps, RevokeSteps

-----------------------------------------------------------------------------
(* What is handed out can be revoked *)

\* What a mint may do and leave what was handed out and recorded as it was: it
\* is neither recording nor done, before and after.
LEMMA MintAside ==
    ASSUME RecordInv, turnWork' = turnWork, NEW p \in Mints,
           mint[p].pc \notin {"record", "success"}, mint'[p].pc # "success",
           mint'[p].pc = "record" => mint'[p].n = 1,
           \A q \in Mints : q # p => mint'[q] = mint[q],
           UNCHANGED <<revoke, record, handed, now>>, ended \subseteq ended'
    PROVE  (HandedByMint /\ RecordStands /\ RevokesInOrder)'
<1>1. /\ Mints' = Mints /\ Revokes' = Revokes /\ \A q : Minter(q)' = Minter(q)
      /\ \A r : Revoked(r)' = Revoked(r) /\ Revoker(r)' = Revoker(r)
  BY DEF Mints, Revokes, Revoked, Revoker, Minter
<1>2. \A q \in Mints : q # p => Mine(q)' = Mine(q) /\ Until(q)' = Until(q)
  BY DEF Mine, Until
<1>3. HandedByMint'
  BY <1>1, <1>2 DEF RecordInv, HandedByMint, MintAt
<1>4. RecordStands'
  BY <1>1, <1>2 DEF RecordInv, RecordStands, MintAt
<1>5. RevokesInOrder'
  <2>1. \A r \in Revokes : revoke[r] \in {"provider", "forget"} => turnWork.revokes[r].of # p
    BY DEF RecordInv, RevokesInOrder, MintAt
  <2>2. \A r \in Revokes : turnWork.revokes[r].of \in Mints
    BY TurnWorksTyped DEF RecordInv, TurnTypeOK, Revokes, Mints
  <2> QED
    BY <1>1, <2>1, <2>2 DEF RecordInv, RevokesInOrder, MintAt
<1> QED
  BY <1>3, <1>4, <1>5

\* With no mint at work, the history stands while records go only after their
\* end or their expiry.
LEMMA MintsRest ==
    ASSUME RecordInv, UNCHANGED <<turnWork, mint, handed>>, ended \subseteq ended',
           now' \in Nat, now <= now',
           \A u \in Usernames : \/ record'[u] = record[u]
                                \/ record[u].until < now
                                \/ \A q \in Mints : u[1] = q => /\ mint[q].pc = "success"
                                                               /\ Ending(u, Minter(q)) \in ended
    PROVE  (HandedByMint /\ RecordStands)'
<1>1. /\ Mints' = Mints
      /\ \A q : Mine(q)' = Mine(q) /\ Until(q)' = Until(q) /\ Mine(q).until = Until(q)
      /\ \A q : Minter(q)' = Minter(q)
  BY DEF Mints, Mine, Until, Minter
<1>2. HandedByMint'
  BY <1>1 DEF RecordInv, HandedByMint, MintAt
<1>3. RecordStands'
  <2> SUFFICES ASSUME NEW q \in Mints, NEW n \in 1 .. Names,
                      MintAt(q, "success") \/ (MintAt(q, "record") /\ n < mint[q].n)
               PROVE  \/ record'[Username(q, n)] = Mine(q)
                      \/ Until(q) < now'
                      \/ MintAt(q, "success") /\ Ending(Username(q, n), Minter(q)) \in ended'
    BY <1>1 DEF RecordStands, MintAt
  <2> DEFINE u == Username(q, n)
  <2>1. u \in Usernames /\ u[1] = q /\ Until(q) \in Nat /\ now \in Nat
    BY WorkFacts DEF RecordInv, Username, TurnTypeOK, WindowsOf
  <2>2. \/ record[u] = Mine(q) \/ Until(q) < now
        \/ MintAt(q, "success") /\ Ending(u, Minter(q)) \in ended
    BY DEF RecordInv, RecordStands
  <2>3. CASE Until(q) < now
    BY <2>1, <2>3
  <2>4. CASE MintAt(q, "success") /\ Ending(u, Minter(q)) \in ended
    BY <2>4
  <2>5. CASE record[u] = Mine(q)
    <3>1. \/ record'[u] = record[u] \/ record[u].until < now
          \/ Ending(u, Minter(q)) \in ended /\ mint[q].pc = "success"
      BY <2>1
    <3>2. record[u].until < now => Until(q) < now
      BY <1>1, <2>5
    <3> HIDE DEF u
    <3>3. CASE record'[u] = record[u]
      BY <2>5, <3>3 DEF u
    <3>4. CASE Until(q) < now
      BY <2>1, <3>4
    <3>5. CASE Ending(u, Minter(q)) \in ended /\ mint[q].pc = "success"
      BY <3>5 DEF u, MintAt
    <3> QED
      BY <3>1, <3>2, <3>3, <3>4, <3>5
  <2> QED
    BY <2>2, <2>3, <2>4, <2>5
<1> QED
  BY <1>2, <1>3

\* No step records a username for another, nor ends one handed out for another.
LEMMA OwnersStep ==
    ASSUME RecordInv, [TurnNext]_turnVars
    PROVE  OwnersHold'
<1> USE DEF MintAt, MintAnswer, RevokeAt
<1>1. /\ turnWork' = turnWork /\ Mints' = Mints /\ \A q : Minter(q)' = Minter(q)
  BY WorkStays
<1>2. /\ TurnTypeOK /\ OwnersHold /\ mint \in [Mints -> MintRecs]
      /\ \A r \in Revokes : Revoked(r) \in Usernames /\ turnWork.revokes[r].of \in Mints
      /\ \A q \in Mints, n \in 1 .. Names : Username(q, n) \in Usernames
      /\ \A q \in Mints : mint[q].n \in 1 .. Names
  <2>1. TurnTypeOK /\ OwnersHold /\ mint \in [Mints -> MintRecs]
    BY DEF RecordInv, TurnTypeOK
  <2>2. \A r \in Revokes : turnWork.revokes[r].of \in Mints
    BY <2>1, TurnWorksTyped DEF TurnTypeOK, Revokes, Mints
  <2> QED
    BY <2>1, <2>2, WorkFacts DEF MintRecs
<1>3. \A e \in ended : e.of[1] \in Mints
  <2> SUFFICES ASSUME NEW e \in ended PROVE e.of[1] \in Mints
    OBVIOUS
  <2>1. e.of \in Usernames
    BY <1>2 DEF TurnTypeOK, Endings
  <2> QED
    BY <2>1 DEF Usernames, Username
<1>4. ASSUME UNCHANGED <<record, mint, ended>> PROVE OwnersHold'
  BY <1>1, <1>2, <1>4 DEF OwnersHold, RecordOfMint, EndedByOwner
<1>5. ASSUME NEW p \in Mints, mint[p].pc \notin {"success", "undo", "unrecorded"},
             \A q \in Mints : q # p => mint'[q] = mint[q], ended' = ended
      PROVE  EndedByOwner'
  BY <1>1, <1>2, <1>3, <1>5 DEF OwnersHold, EndedByOwner
<1>6. ASSUME NEW p \in Mints, UNCHANGED record \/
                 record' = [record EXCEPT ![Username(p, mint[p].n)] = Mine(p)]
      PROVE  RecordOfMint'
  <2>1. Mine(p).by = Minter(p)
    BY DEF Mine, Minter
  <2>2. \A q \in Mints, n \in 1 .. Names :
            \/ record'[Username(q, n)] = record[Username(q, n)]
            \/ q = p /\ record'[Username(q, n)] = Mine(p)
    BY <1>2, <1>6 DEF TurnTypeOK, Username
  <2> QED
    BY <1>1, <1>2, <2>1, <2>2 DEF OwnersHold, RecordOfMint
<1>7. ASSUME NEW p \in Mints,
             MintArrives(p) \/ Charge(p) \/ ChargeUnanswered(p) \/ Generate(p) \/ Record(p) \/ RecordFails(p)
      PROVE  OwnersHold'
  <2>1. /\ mint[p].pc \in {"new", "charge", "ask", "record"} /\ ended' = ended
        /\ \A q \in Mints : q # p => mint'[q] = mint[q]
    <3>1. CASE MintArrives(p)
      BY <1>2, <3>1 DEF MintArrives
    <3>2. CASE Charge(p)
      BY <1>2, <3>2 DEF Charge
    <3>3. CASE ChargeUnanswered(p)
      BY <1>2, <3>3 DEF ChargeUnanswered
    <3>4. CASE Generate(p)
      BY <1>2, <3>4 DEF Generate
    <3>5. CASE Record(p)
      BY <1>2, <3>5 DEF Record
    <3>6. CASE RecordFails(p)
      BY <1>2, <3>6 DEF RecordFails
    <3> QED
      BY <1>7, <3>1, <3>2, <3>3, <3>4, <3>5, <3>6
  <2>2. \/ UNCHANGED record
        \/ record' = [record EXCEPT ![Username(p, mint[p].n)] = Mine(p)]
    BY <1>7 DEF MintArrives, Charge, ChargeUnanswered, Generate, Record, RecordFails
  <2> QED
    BY <1>5, <1>6, <2>1, <2>2 DEF OwnersHold
<1>8. ASSUME NEW p \in Mints, Undo(p) PROVE OwnersHold'
  <2>1. /\ mint[p].pc = "undo" /\ mint'[p].pc \in {"undo", "unrecorded"} /\ record' = record
        /\ \A q \in Mints : q # p => mint'[q] = mint[q]
    BY <1>2, <1>8 DEF Undo, MintRecs
  <2>2. \A e \in ended' : e \in ended \/ e.of[1] = p
    BY <1>8 DEF Undo, End, Ending, Username
  <2>3. EndedByOwner'
    <3>1. ASSUME NEW e \in ended'
          PROVE  \/ mint'[e.of[1]].pc \in {"undo", "unrecorded"}
                 \/ mint'[e.of[1]].pc = "success" /\ e.by = Minter(e.of[1])
      <4>1. CASE e.of[1] = p
        BY <2>1, <4>1
      <4>2. CASE e \in ended /\ e.of[1] # p
        BY <1>2, <1>3, <2>1, <4>2 DEF OwnersHold, EndedByOwner
      <4> QED
        BY <2>2, <4>1, <4>2
    <3> QED
      BY <1>1, <3>1 DEF EndedByOwner
  <2> QED
    BY <1>6, <2>1, <2>3 DEF OwnersHold
<1>9. ASSUME NEW r \in Revokes, RevokeAtProvider(r) PROVE OwnersHold'
  <2>1. /\ mint[turnWork.revokes[r].of].pc = "success" /\ UNCHANGED <<mint, record>>
        /\ Revoker(r) = Minter(turnWork.revokes[r].of)
    BY <1>9 DEF RevokeAtProvider, RecordInv, RevokesInOrder
  <2>2. \A e \in ended' : \/ e \in ended
                          \/ e.of[1] = turnWork.revokes[r].of /\ e.by = Revoker(r)
    BY <1>9 DEF RevokeAtProvider, End, Ending, Revoked, Username
  <2>3. EndedByOwner'
    BY <1>1, <1>2, <1>3, <2>1, <2>2 DEF OwnersHold, EndedByOwner
  <2>4. RecordOfMint'
    BY <1>1, <1>2, <2>1 DEF OwnersHold, RecordOfMint
  <2> QED
    BY <2>3, <2>4 DEF OwnersHold
<1>10. ASSUME UNCHANGED <<mint, ended>>,
              \A u \in Usernames : record'[u] = record[u] \/ record'[u] = NoRecord
       PROVE  OwnersHold'
  <2>1. RecordOfMint'
    BY <1>1, <1>2, <1>10 DEF OwnersHold, RecordOfMint, NoRecord
  <2> QED
    BY <1>1, <1>2, <1>10, <2>1 DEF OwnersHold, EndedByOwner
<1>11. ASSUME NEW r \in Revokes, ReadOwner(r) \/ RevokeAgain(r) PROVE OwnersHold'
  BY <1>4, <1>11 DEF ReadOwner, RevokeAgain
<1>12. ASSUME NEW r \in Revokes, Forget(r) PROVE OwnersHold'
  <2>1. \A u \in Usernames : record'[u] = record[u] \/ record'[u] = NoRecord
    BY <1>2, <1>12 DEF Forget, TurnTypeOK
  <2> QED
    BY <1>10, <1>12, <2>1 DEF Forget
<1>13. CASE ForgetExpired
  <2>1. \A u \in Usernames : record'[u] = record[u] \/ record'[u] = NoRecord
    BY <1>13 DEF ForgetExpired
  <2> QED
    BY <1>10, <1>13, <2>1 DEF ForgetExpired
<1>14. CASE ForgetWindows \/ Tick \/ UNCHANGED turnVars
  BY <1>4, <1>14 DEF ForgetWindows, Tick, turnVars
<1> QED
  BY <1>7, <1>8, <1>9, <1>11, <1>12, <1>13, <1>14 DEF TurnNext

\* One step per action: a mint records before it answers, a revoke forgets what
\* the provider ended, and a record goes early for no other reason.
LEMMA RecordStep ==
    ASSUME RecordInv, [TurnNext]_turnVars
    PROVE  RecordInv'
<1> DEFINE Kept == (HandedByMint /\ RecordStands /\ RevokesInOrder)'
<1> USE DEF MintAt, MintAnswer, RevokeAt
<1>1. /\ turnWork' = turnWork /\ Mints' = Mints /\ Revokes' = Revokes /\ Usernames' = Usernames
      /\ \A r : Revoked(r)' = Revoked(r) /\ Revoker(r)' = Revoker(r)
      /\ \A q : Minter(q)' = Minter(q)
  BY WorkStays
<1>2. TurnTypeOK /\ TurnTypeOK'
  BY TypeStep DEF RecordInv
<1>3. /\ mint \in [Mints -> MintRecs] /\ DOMAIN mint = Mints
      /\ now \in Nat /\ now' \in Nat
      /\ \A q \in Mints, n \in 1 .. Names : Username(q, n) \in Usernames
      /\ \A r \in Revokes : Revoked(r) \in Usernames /\ turnWork.revokes[r].of \in Mints
      /\ \A q \in Mints : mint[q].n \in 1 .. Names /\ Until(q) \in Nat
  <2>1. mint \in [Mints -> MintRecs] /\ now \in Nat /\ now' \in Nat
    BY <1>1, <1>2, WorkFacts DEF TurnTypeOK, WindowsOf
  <2>2. \A r \in Revokes : turnWork.revokes[r].of \in Mints
    BY <1>2, TurnWorksTyped DEF TurnTypeOK, Revokes, Mints
  <2>3. \A q \in Mints : mint[q].n \in 1 .. Names
    BY <2>1 DEF MintRecs
  <2> QED
    BY <1>2, <2>1, <2>2, <2>3, WorkFacts
<1>4. ASSUME UNCHANGED turnVars PROVE Kept
  <2>1. (HandedByMint /\ RecordStands)'
    BY <1>3, <1>4, MintsRest DEF turnVars
  <2>2. RevokesInOrder'
    BY <1>1, <1>4 DEF turnVars, RecordInv, RevokesInOrder
  <2> QED
    BY <2>1, <2>2
<1>5. ASSUME NEW p \in Mints, MintArrives(p) PROVE Kept
  <2>1. /\ mint[p].pc = "new" /\ mint'[p].pc \in {"off", "notCaller", "misconfigured", "charge"}
        /\ \A q \in Mints : q # p => mint'[q] = mint[q]
    BY <1>3, <1>5 DEF MintArrives, MintRecs
  <2> QED
    BY <1>1, <1>5, <2>1, MintAside DEF MintArrives
<1>6. ASSUME NEW p \in Mints, Charge(p) PROVE Kept
  <2>1. /\ mint[p].pc = "charge" /\ mint'[p].pc \in {"ask", "spent"}
        /\ \A q \in Mints : q # p => mint'[q] = mint[q]
    BY <1>3, <1>6 DEF Charge, MintRecs
  <2> QED
    BY <1>1, <1>6, <2>1, MintAside DEF Charge
<1>7. ASSUME NEW p \in Mints, ChargeUnanswered(p) PROVE Kept
  <2>1. /\ mint[p].pc = "charge" /\ mint'[p].pc \in {"unavailable", "charged"}
        /\ \A q \in Mints : q # p => mint'[q] = mint[q]
    BY <1>3, <1>7 DEF ChargeUnanswered, MintRecs
  <2> QED
    BY <1>1, <1>7, <2>1, MintAside DEF ChargeUnanswered
<1>8. ASSUME NEW p \in Mints, Generate(p) PROVE Kept
  <2>1. /\ mint[p].pc = "ask" /\ mint'[p].pc \in {"record", "provider"}
        /\ mint'[p].pc = "record" => mint'[p].n = 1
        /\ \A q \in Mints : q # p => mint'[q] = mint[q]
    BY <1>3, <1>8 DEF Generate, MintRecs
  <2> QED
    BY <1>1, <1>8, <2>1, MintAside DEF Generate
<1>9. ASSUME NEW p \in Mints, Undo(p) PROVE Kept
  <2>1. /\ mint[p].pc = "undo" /\ mint'[p].pc \in {"undo", "unrecorded"}
        /\ \A q \in Mints : q # p => mint'[q] = mint[q]
    BY <1>3, <1>9 DEF Undo, MintRecs
  <2>2. ended \subseteq ended'
    BY <1>9 DEF Undo, End
  <2> QED
    BY <1>1, <1>9, <2>1, <2>2, MintAside DEF Undo
<1>10. ASSUME NEW p \in Mints, RecordFails(p) PROVE Kept
  <2>1. /\ mint[p].pc = "record" /\ mint'[p].pc = "undo" /\ mint'[p].started = mint[p].started
        /\ \A q \in Mints : q # p => mint'[q] = mint[q]
    BY <1>3, <1>10 DEF RecordFails, MintRecs
  <2>2. \A q \in Mints, n \in 1 .. Names :
            q # p => record'[Username(q, n)] = record[Username(q, n)]
    BY <1>2, <1>3, <1>10 DEF RecordFails, TurnTypeOK, Username
  <2>3. \A q \in Mints : Mine(q)' = Mine(q) /\ Until(q)' = Until(q)
    BY <1>1, <2>1 DEF Mine, Until
  <2>4. HandedByMint'
    <3>1. handed' = handed /\ HandedByMint /\ Mints' = Mints
      BY <1>1, <1>10 DEF RecordFails, RecordInv
    <3>2. \A q \in Mints : MintAt(q, "success")' = MintAt(q, "success")
      BY <2>1 DEF MintAt
    <3> QED
      BY <2>3, <3>1, <3>2 DEF HandedByMint
  <2>5. RecordStands'
    <3> SUFFICES ASSUME NEW q \in Mints, NEW n \in 1 .. Names,
                        mint'[q].pc = "success" \/ (mint'[q].pc = "record" /\ n < mint'[q].n)
                 PROVE  \/ record'[Username(q, n)] = Mine(q)
                        \/ Until(q) < now
                        \/ /\ mint'[q].pc = "success"
                           /\ Ending(Username(q, n), Minter(q)) \in ended
      BY <1>1, <1>10, <2>3 DEF RecordStands, RecordFails
    <3>1. q # p
      BY <2>1
    <3> QED
      BY <2>1, <2>2, <3>1 DEF RecordInv, RecordStands
  <2>6. RevokesInOrder'
    BY <1>1, <1>3, <1>10, <2>1 DEF RecordFails, RecordInv, RevokesInOrder
  <2> QED
    BY <2>4, <2>5, <2>6
<1>11. ASSUME NEW p \in Mints, Record(p) PROVE Kept
  <2> DEFINE last == ~(mint[p].n < Names)
  <2>1. /\ mint[p].pc = "record" /\ mint'[p].started = mint[p].started
        /\ mint'[p].pc = (IF last THEN "success" ELSE "record")
        /\ last => mint[p].n = Names
        /\ ~last => mint'[p].n = mint[p].n + 1
        /\ \A q \in Mints : q # p => mint'[q] = mint[q]
    <3>1. CASE mint[p].n < Names
      BY <1>3, <1>11, <3>1 DEF Record, MintRecs
    <3>2. CASE ~(mint[p].n < Names)
      <4>1. mint' = [mint EXCEPT ![p].pc = "success"]
        BY <1>11, <3>2 DEF Record
      <4>2. mint[p].n = Names
        BY <1>3, <3>2, TurnBounds
      <4> QED
        BY <1>3, <1>11, <3>2, <4>1, <4>2 DEF Record, MintRecs
    <3> QED
      BY <3>1, <3>2
  <2>2. record' = [record EXCEPT ![Username(p, mint[p].n)] = Mine(p)]
    BY <1>11 DEF Record
  <2>3. \A q \in Mints, n \in 1 .. Names :
            record'[Username(q, n)] = IF q = p /\ n = mint[p].n THEN Mine(p)
                                      ELSE record[Username(q, n)]
    BY <1>2, <1>3, <2>2 DEF TurnTypeOK, Username
  <2>4. \A q \in Mints : Mine(q)' = Mine(q) /\ Until(q)' = Until(q)
    BY <1>1, <2>1 DEF Mine, Until
  <2>5. \A q \in Mints, n \in 1 .. Names :
            handed'[Username(q, n)] = IF last /\ q = p THEN Mine(p) ELSE handed[Username(q, n)]
    <3>1. handed' = IF last THEN [v \in Usernames |-> IF v[1] = p THEN Mine(p) ELSE handed[v]]
                    ELSE handed
      BY <1>11 DEF Record
    <3>2. \A q \in Mints, n \in 1 .. Names :
              Username(q, n) \in Usernames /\ Username(q, n)[1] = q
      BY DEF Username, Usernames
    <3> QED
      BY <3>1, <3>2
  <2>6. HandedByMint'
    BY <1>1, <2>1, <2>4, <2>5 DEF RecordInv, HandedByMint
  <2>7. RecordStands'
    <3> SUFFICES ASSUME NEW q \in Mints, NEW n \in 1 .. Names,
                        mint'[q].pc = "success" \/ (mint'[q].pc = "record" /\ n < mint'[q].n)
                 PROVE  \/ record'[Username(q, n)] = Mine(q)
                        \/ Until(q) < now
                        \/ /\ mint'[q].pc = "success"
                           /\ Ending(Username(q, n), Minter(q)) \in ended
      BY <1>1, <1>11, <2>4 DEF RecordStands, Record
    <3>1. CASE q # p
      BY <2>1, <2>3, <3>1 DEF RecordInv, RecordStands
    <3>2. CASE q = p /\ n = mint[p].n
      BY <2>3, <3>2
    <3>3. CASE q = p /\ n # mint[p].n
      <4>1. n < mint[p].n
        BY <1>3, <2>1, <3>3, TurnBounds
      <4> QED
        BY <2>1, <2>3, <3>3, <4>1 DEF RecordInv, RecordStands
    <3> QED
      BY <3>1, <3>2, <3>3
  <2>8. RevokesInOrder'
    BY <1>1, <1>3, <1>11, <2>1 DEF Record, RecordInv, RevokesInOrder
  <2> QED
    BY <2>6, <2>7, <2>8
<1>12. ASSUME NEW r \in Revokes, ReadOwner(r) PROVE Kept
  <2>1. (HandedByMint /\ RecordStands)'
    BY <1>3, <1>12, MintsRest DEF ReadOwner
  <2>2. ASSUME revoke'[r] \in {"provider", "forget"}
        PROVE  /\ revoke'[r] = "provider" /\ MintAt(turnWork.revokes[r].of, "success")
               /\ Revoker(r) = Minter(turnWork.revokes[r].of)
    <3>1. turnWork.revokes[r].n \in 1 .. Names /\ Revoker(r) # "nobody"
      BY <1>2, TurnWorksTyped DEF TurnTypeOK, Revokes, Revoker
    <3>2. RevokeRefusal(r) \in {"off", "invalid", "misconfigured", "none"} /\ r \in DOMAIN revoke
      BY <1>2 DEF RevokeRefusal, TurnTypeOK
    <3>3. /\ handed[Revoked(r)] # NoRecord /\ revoke'[r] = "provider"
          /\ record[Revoked(r)].by = Revoker(r)
      BY <1>12, <2>2, <3>2 DEF ReadOwner
    <3>4. MintAt(turnWork.revokes[r].of, "success")
      BY <1>3, <3>1, <3>3 DEF RecordInv, HandedByMint, Revoked
    <3>5. record[Revoked(r)].by \in {"nobody", Minter(turnWork.revokes[r].of)}
      BY <1>3, <3>1 DEF RecordInv, OwnersHold, RecordOfMint, Revoked
    <3> QED
      BY <3>1, <3>3, <3>4, <3>5
  <2>3. RevokesInOrder'
    <3>1. /\ UNCHANGED <<mint, ended>> /\ \A t \in Revokes : t # r => revoke'[t] = revoke[t]
      BY <1>2, <1>12 DEF ReadOwner, TurnTypeOK
    <3> QED
      BY <1>1, <2>2, <3>1 DEF RecordInv, RevokesInOrder
  <2> QED
    BY <2>1, <2>3
<1>13. ASSUME NEW r \in Revokes, RevokeAtProvider(r) PROVE Kept
  <2>1. ended \subseteq ended' /\ (revoke'[r] = "forget" => Ending(Revoked(r), Revoker(r)) \in ended')
    BY <1>2, <1>13 DEF RevokeAtProvider, End, TurnTypeOK
  <2>2. (HandedByMint /\ RecordStands)'
    BY <1>3, <1>13, <2>1, MintsRest DEF RevokeAtProvider
  <2>3. RevokesInOrder'
    BY <1>1, <1>2, <1>13, <2>1 DEF RevokeAtProvider, RecordInv, RevokesInOrder, TurnTypeOK
  <2> QED
    BY <2>2, <2>3
<1>14. ASSUME NEW r \in Revokes, Forget(r) PROVE Kept
  <2>1. /\ Ending(Revoked(r), Minter(turnWork.revokes[r].of)) \in ended
        /\ mint[turnWork.revokes[r].of].pc = "success"
    BY <1>14 DEF Forget, RecordInv, RevokesInOrder
  <2>2. Revoked(r)[1] = turnWork.revokes[r].of
    BY DEF Revoked, Username
  <2>3. \A u \in Usernames : u # Revoked(r) => record'[u] = record[u]
    BY <1>2, <1>14 DEF Forget, TurnTypeOK
  <2>4. (HandedByMint /\ RecordStands)'
    BY <1>3, <1>14, <2>1, <2>2, <2>3, MintsRest DEF Forget
  <2>5. RevokesInOrder'
    BY <1>1, <1>2, <1>14 DEF Forget, RecordInv, RevokesInOrder, TurnTypeOK
  <2> QED
    BY <2>4, <2>5
<1>15. ASSUME NEW r \in Revokes, RevokeAgain(r) PROVE Kept
  <2>1. (HandedByMint /\ RecordStands)'
    BY <1>3, <1>15, MintsRest DEF RevokeAgain
  <2>2. RevokesInOrder'
    BY <1>1, <1>2, <1>15 DEF RevokeAgain, RecordInv, RevokesInOrder, TurnTypeOK
  <2> QED
    BY <2>1, <2>2
<1>16. ASSUME ForgetWindows PROVE Kept
  <2>1. (HandedByMint /\ RecordStands)'
    BY <1>3, <1>16, MintsRest DEF ForgetWindows
  <2>2. RevokesInOrder'
    BY <1>1, <1>16 DEF ForgetWindows, RecordInv, RevokesInOrder
  <2> QED
    BY <2>1, <2>2
<1>17. ASSUME ForgetExpired PROVE Kept
  <2>1. \A u \in Usernames : record'[u] = record[u] \/ record[u].until < now
    BY <1>17 DEF ForgetExpired
  <2>2. (HandedByMint /\ RecordStands)'
    BY <1>3, <1>17, <2>1, MintsRest DEF ForgetExpired
  <2>3. RevokesInOrder'
    BY <1>1, <1>17 DEF ForgetExpired, RecordInv, RevokesInOrder
  <2> QED
    BY <2>2, <2>3
<1>18. ASSUME Tick PROVE Kept
  <2>1. (HandedByMint /\ RecordStands)'
    BY <1>3, <1>18, MintsRest DEF Tick
  <2>2. RevokesInOrder'
    BY <1>1, <1>18 DEF Tick, RecordInv, RevokesInOrder
  <2> QED
    BY <2>1, <2>2
<1> QED
  BY <1>2, <1>4, <1>5, <1>6, <1>7, <1>8, <1>9, <1>10, <1>11, <1>12, <1>13, <1>14, <1>15,
     <1>16, <1>17, <1>18, OwnersStep DEF TurnNext, RecordInv

\* For any requests, faults and time to live: a username handed out is on record
\* under the identity that minted it until it expires or that identity ended it,
\* and nobody else ends it (mint, revoke and forget_expired of turn_credentials).
THEOREM HandedCanBeRevoked == TurnSpec => []HandedIsRevocable
<1>1. TurnInit => RecordInv
  <2> SUFFICES ASSUME TurnInit PROVE RecordInv
    OBVIOUS
  <2>1. TurnTypeOK
    BY TypeInit
  <2>2. HandedByMint /\ RecordStands /\ RevokesInOrder
    BY <2>1, WorkFacts, TurnWorksTyped
       DEF TurnInit, HandedByMint, RecordStands, RevokesInOrder, MintAt, Mints, Revokes
  <2>3. OwnersHold
    BY <2>1, WorkFacts DEF TurnInit, OwnersHold, RecordOfMint, EndedByOwner, NoRecord
  <2> QED
    BY <2>1, <2>2, <2>3 DEF RecordInv
<1>2. RecordInv /\ [TurnNext]_turnVars => RecordInv'
  BY RecordStep
<1>3. RecordInv => HandedIsRevocable
  <2> SUFFICES ASSUME RecordInv PROVE HandedIsRevocable
    OBVIOUS
  <2>1. \A q \in Mints, n \in 1 .. Names :
            handed[Username(q, n)] # NoRecord =>
                MintAt(q, "success") /\ handed[Username(q, n)] = Mine(q)
    BY DEF RecordInv, HandedByMint
  <2>2. ASSUME NEW u \in Usernames, handed[u] # NoRecord, now <= handed[u].until
        PROVE  record[u] = handed[u] \/ Ending(u, handed[u].by) \in ended
    <3>1. PICK q \in Mints, n \in 1 .. Names : u = Username(q, n)
      BY DEF Usernames
    <3>2. MintAt(q, "success") /\ handed[u] = Mine(q)
      BY <2>1, <2>2, <3>1
    <3>3. record[u] = Mine(q) \/ Until(q) < now \/ Ending(u, Minter(q)) \in ended
      BY <3>1, <3>2 DEF RecordInv, RecordStands
    <3>4. /\ handed[u].until = Until(q) /\ handed[u].by = Minter(q)
          /\ Until(q) \in Nat /\ now \in Nat
      BY <3>2, WorkFacts DEF Mine, Minter, RecordInv, TurnTypeOK, WindowsOf
    <3> QED
      BY <2>2, <3>2, <3>3, <3>4
  <2>3. ASSUME NEW e \in ended, handed[e.of] # NoRecord
        PROVE  e.by = handed[e.of].by
    <3>1. e.of \in Usernames
      BY DEF RecordInv, TurnTypeOK, Endings
    <3>2. PICK q \in Mints, n \in 1 .. Names : e.of = Username(q, n)
      BY <3>1 DEF Usernames
    <3>3. MintAt(q, "success") /\ handed[e.of] = Mine(q) /\ e.of[1] = q
      BY <2>1, <2>3, <3>2 DEF Username
    <3>4. e.by = Minter(q)
      BY <3>3 DEF RecordInv, OwnersHold, EndedByOwner, MintAt
    <3> QED
      BY <3>3, <3>4 DEF Mine, Minter
  <2> QED
    BY <2>2, <2>3 DEF HandedIsRevocable
<1> QED
  BY <1>1, <1>2, <1>3, PTL DEF TurnSpec

-----------------------------------------------------------------------------
(* The budgets bind *)

\* Sets of mints are finite: one mint more counts one more.
LEMMA CountOne ==
    ASSUME TurnTypeOK, NEW S \in SUBSET Mints, NEW p \in Mints \ S
    PROVE  /\ Cardinality(S) \in Nat
           /\ Cardinality(S \cup {p}) = Cardinality(S) + 1
<1>1. IsFiniteSet(S)
  BY WorkFacts, FS_Subset
<1> QED
  BY <1>1, FS_AddElement, FS_CardinalityType

\* A part has no more mints than the whole.
LEMMA CountLess ==
    ASSUME TurnTypeOK, NEW S \in SUBSET Mints, NEW T \in SUBSET S
    PROVE  Cardinality(T) <= Cardinality(S) /\ Cardinality(T) \in Nat /\ Cardinality(S) \in Nat
<1>1. IsFiniteSet(S)
  BY WorkFacts, FS_Subset
<1> QED
  BY <1>1, FS_Subset, FS_CardinalityType

\* A step that charges nothing: who counts in a window is who did, and the open
\* windows are as they were.
LEMMA NoCharge ==
    ASSUME BudgetInv, [TurnNext]_turnVars, UNCHANGED asked,
           now' \in Nat, WindowOf(now) <= WindowOf(now'),
           \A q \in Mints : /\ MintAt(q, "charged")' <=> MintAt(q, "charged")
                            /\ (~MintAt(q, "new") /\ ~MintAt(q, "charge")) =>
                                   (~MintAt(q, "new") /\ ~MintAt(q, "charge"))'
                            /\ \/ mint'[q].window = mint[q].window
                               \/ MintAt(q, "new") /\ mint'[q].window = WindowOf(now),
           \A v \in WindowsOf : v >= WindowOf(now') => budget'[v] = budget[v]
    PROVE  BudgetInv'
<1>1. /\ turnWork' = turnWork /\ Mints' = Mints /\ WindowsOf' = WindowsOf /\ Keys' = Keys
      /\ \A q : Charges(q)' = Charges(q)
  BY WorkStays
<1>2. TurnTypeOK /\ TurnTypeOK'
  BY TypeStep DEF BudgetInv
<1>3. /\ WindowOf(now) \in Nat /\ WindowOf(now') \in Nat /\ WindowsOf \subseteq Nat
      /\ \A q \in Mints : mint[q].window \in Nat
      /\ asked \subseteq Mints
  <2>1. WindowsOf \subseteq Nat /\ asked \subseteq Mints /\ now \in WindowsOf
    BY <1>2, WorkFacts DEF TurnTypeOK, WindowsOf
  <2>2. \A q \in Mints : mint[q].window \in WindowsOf
    BY <1>2 DEF TurnTypeOK, MintRecs
  <2> QED
    BY <2>1, <2>2, WindowOpens
<1>4. MintsInTime'
  BY <1>1, <1>3 DEF BudgetInv, MintsInTime
<1>5. \A q \in Mints : q \in asked \/ MintAt(q, "charged") => mint'[q].window = mint[q].window
  BY DEF BudgetInv, MintsInTime, MintAt
<1>6. ASSUME NEW v \in WindowsOf, NEW key \in Keys
      PROVE  ChargedTo(v, key)' = ChargedTo(v, key) /\ AskedIn(v, key)' = AskedIn(v, key)
  BY <1>1, <1>3, <1>5 DEF ChargedTo, AskedIn
<1>7. OpenWindowsExact'
  <2> SUFFICES ASSUME NEW v \in WindowsOf, NEW key \in Keys, v >= WindowOf(now')
               PROVE  budget'[v][key] = Cardinality(ChargedTo(v, key)')
    BY <1>1 DEF OpenWindowsExact
  <2>1. v >= WindowOf(now)
    BY <1>3
  <2> QED
    BY <1>6, <2>1 DEF BudgetInv, OpenWindowsExact
<1>8. AskedWithinCaps'
  <2> SUFFICES ASSUME NEW v \in WindowsOf, NEW key \in Keys
               PROVE  Cardinality(AskedIn(v, key)') <= Cap(key)
    BY <1>1 DEF AskedWithinCaps, Cap
  <2> QED
    BY <1>6 DEF BudgetInv, AskedWithinCaps
<1> QED
  BY <1>2, <1>4, <1>7, <1>8 DEF BudgetInv

\* A step that charges a mint to every budget of its window, with none of them
\* spent: it counts from then on, if its window is open still.
LEMMA OneCharge ==
    ASSUME BudgetInv, [TurnNext]_turnVars, NEW p \in Mints, MintAt(p, "charge"),
           \A key \in Charges(p) : budget[mint[p].window][key] < Cap(key),
           budget' = Taken(mint[p].window, Charges(p)),
           UNCHANGED now,
           mint'[p].window = mint[p].window,
           mint'[p].pc \notin {"new", "charge"},
           \A q \in Mints : q # p => mint'[q] = mint[q],
           \/ /\ mint[p].window = WindowOf(now) => asked' = asked \cup {p}
              /\ mint[p].window # WindowOf(now) => asked' = asked
              /\ mint'[p].pc # "charged"
           \/ asked' = asked /\ mint'[p].pc = "charged"
    PROVE  BudgetInv'
<1> DEFINE w == mint[p].window
           in == p \in asked' \/ mint'[p].pc = "charged"
<1>1. /\ turnWork' = turnWork /\ Mints' = Mints /\ WindowsOf' = WindowsOf /\ Keys' = Keys
      /\ \A q : Charges(q)' = Charges(q)
  BY WorkStays
<1>2. TurnTypeOK /\ TurnTypeOK'
  BY TypeStep DEF BudgetInv
<1>3. /\ w \in WindowsOf /\ WindowOf(now) \in WindowsOf /\ WindowsOf \subseteq Nat
      /\ asked \subseteq Mints /\ Charges(p) \subseteq Keys
      /\ budget \in [WindowsOf -> [Keys -> Nat]]
      /\ w \in Nat /\ WindowOf(now) \in Nat
  BY <1>2, WorkFacts DEF TurnTypeOK, WindowsOf, MintRecs
<1>4. p \notin asked /\ w <= WindowOf(now)
  BY DEF BudgetInv, MintsInTime
<1>5. MintsInTime'
  BY <1>1, <1>3, <1>4 DEF BudgetInv, MintsInTime, MintAt
<1>6. w = WindowOf(now) => in
  OBVIOUS
<1>7. \A v \in WindowsOf, key \in Keys :
          /\ ChargedTo(v, key) \subseteq Mints /\ p \notin ChargedTo(v, key)
          /\ ChargedTo(v, key)' = IF v = w /\ key \in Charges(p) /\ in
                                  THEN ChargedTo(v, key) \cup {p} ELSE ChargedTo(v, key)
  BY <1>1, <1>3, <1>4 DEF ChargedTo, MintAt
<1>8. \A v \in WindowsOf, key \in Keys :
          /\ AskedIn(v, key) \subseteq ChargedTo(v, key)
          /\ AskedIn(v, key)' = IF v = w /\ key \in Charges(p) /\ p \in asked'
                                THEN AskedIn(v, key) \cup {p} ELSE AskedIn(v, key)
  BY <1>1, <1>3, <1>4 DEF ChargedTo, AskedIn, MintAt
<1>9. \A v \in WindowsOf, key \in Keys :
          budget'[v][key] = IF v = w /\ key \in Charges(p) THEN budget[v][key] + 1
                            ELSE budget[v][key]
  <2>1. ~\E key \in Charges(p) : budget[w][key] >= Cap(key)
    <3> SUFFICES ASSUME NEW key \in Charges(p) PROVE ~(budget[w][key] >= Cap(key))
      OBVIOUS
    <3>1. budget[w][key] \in Nat /\ Cap(key) \in Nat
      BY <1>3, CapsOfKeys
    <3> QED
      BY <3>1
  <2> QED
    BY <1>3, <2>1 DEF Taken
<1>10. OpenWindowsExact'
  <2> SUFFICES ASSUME NEW v \in WindowsOf, NEW key \in Keys, v >= WindowOf(now)
               PROVE  budget'[v][key] = Cardinality(ChargedTo(v, key)')
    BY <1>1 DEF OpenWindowsExact
  <2>1. budget[v][key] = Cardinality(ChargedTo(v, key))
    BY DEF BudgetInv, OpenWindowsExact
  <2>2. v = w => in
    <3> HIDE DEF w, in
    <3> QED
      BY <1>3, <1>4, <1>6
  <2>3. Cardinality(ChargedTo(v, key) \cup {p}) = Cardinality(ChargedTo(v, key)) + 1
    BY <1>2, <1>7, CountOne
  <2> HIDE DEF in, w
  <2> QED
    BY <1>7, <1>9, <2>1, <2>2, <2>3
<1>11. AskedWithinCaps'
  <2> SUFFICES ASSUME NEW v \in WindowsOf, NEW key \in Keys
               PROVE  Cardinality(AskedIn(v, key)') <= Cap(key)
    BY <1>1 DEF AskedWithinCaps, Cap
  <2>1. CASE v = w /\ key \in Charges(p) /\ p \in asked'
    <3>1. w = WindowOf(now)
      BY <1>4, <2>1
    <3>2. budget[w][key] = Cardinality(ChargedTo(w, key))
      <4> HIDE DEF w
      <4>1. w >= WindowOf(now) /\ w \in WindowsOf
        BY <1>3, <3>1
      <4> QED
        BY <4>1 DEF BudgetInv, OpenWindowsExact
    <3>3. Cardinality(ChargedTo(w, key)) < Cap(key) /\ Cap(key) \in Nat
      BY <2>1, <3>2, CapsOfKeys
    <3>4. /\ Cardinality(AskedIn(w, key)) <= Cardinality(ChargedTo(w, key))
          /\ Cardinality(AskedIn(w, key)) \in Nat /\ Cardinality(ChargedTo(w, key)) \in Nat
      <4>1. AskedIn(w, key) \subseteq ChargedTo(w, key) /\ ChargedTo(w, key) \subseteq Mints
        BY <1>3, <1>7, <1>8
      <4> HIDE DEF w
      <4> QED
        BY <1>2, <4>1, CountLess
    <3>5. Cardinality(AskedIn(w, key) \cup {p}) = Cardinality(AskedIn(w, key)) + 1
      BY <1>2, <1>3, <1>7, <1>8, CountOne
    <3>6. AskedIn(v, key)' = AskedIn(w, key) \cup {p}
      BY <1>8, <2>1
    <3> HIDE DEF w
    <3> QED
      BY <3>3, <3>4, <3>5, <3>6
  <2>2. CASE ~(v = w /\ key \in Charges(p) /\ p \in asked')
    BY <1>8, <2>2 DEF BudgetInv, AskedWithinCaps
  <2> QED
    BY <2>1, <2>2
<1> QED
  BY <1>2, <1>5, <1>10, <1>11 DEF BudgetInv

\* One step per action: only a charge counts, and only in its own window.
LEMMA BudgetStep ==
    ASSUME BudgetInv, [TurnNext]_turnVars
    PROVE  BudgetInv'
<1> USE DEF MintAt, MintAnswer
<1>1. TurnTypeOK /\ TurnTypeOK' /\ WindowsOf' = WindowsOf
  BY TypeStep, WorkStays DEF BudgetInv
<1>2. /\ mint \in [Mints -> MintRecs] /\ DOMAIN mint = Mints
      /\ now \in Nat /\ now' \in Nat /\ WindowOf(now) \in Nat
      /\ WindowOf(now) <= WindowOf(now)
      /\ \A q \in Mints : mint[q].window \in WindowsOf
  <2>1. WindowsOf \subseteq Nat /\ now \in WindowsOf /\ now' \in WindowsOf
    <3>1. WindowsOf \subseteq Nat
      BY <1>1, WorkFacts DEF WindowsOf
    <3> QED
      BY <1>1, <3>1 DEF TurnTypeOK
  <2>2. \A q \in Mints : mint[q].window \in WindowsOf
    BY <1>1 DEF TurnTypeOK, MintRecs
  <2> QED
    BY <1>1, <2>1, <2>2, WindowOpens DEF TurnTypeOK
<1>3. CASE UNCHANGED turnVars
  BY <1>2, <1>3, NoCharge DEF turnVars
<1>4. ASSUME NEW p \in Mints, MintArrives(p) PROVE BudgetInv'
  <2>1. /\ mint[p].pc = "new" /\ mint'[p].window = WindowOf(now)
        /\ mint'[p].pc \in {"off", "notCaller", "misconfigured", "charge"}
        /\ \A q \in Mints : q # p => mint'[q] = mint[q]
    BY <1>2, <1>4 DEF MintArrives, MintRecs
  <2> QED
    BY <1>2, <1>4, <2>1, NoCharge DEF MintArrives
<1>5. ASSUME NEW p \in Mints, Charge(p) PROVE BudgetInv'
  <2> DEFINE w == mint[p].window
             passes == \A key \in Charges(p) : budget[w][key] < Cap(key)
  <2>1. /\ mint[p].pc = "charge" /\ mint'[p].window = w
        /\ mint'[p].pc = (IF passes THEN "ask" ELSE "spent")
        /\ \A q \in Mints : q # p => mint'[q] = mint[q]
    BY <1>2, <1>5 DEF Charge, MintRecs
  <2>2. CASE passes
    <3>1. /\ budget' = Taken(w, Charges(p))
          /\ asked' = IF w = WindowOf(now) THEN asked \cup {p} ELSE asked
          /\ UNCHANGED now
      BY <1>5, <2>2 DEF Charge
    <3> QED
      BY <2>1, <2>2, <3>1, OneCharge
  <2>3. CASE ~passes
    <3>1. budget' = budget /\ asked' = asked /\ UNCHANGED now
      <4>1. PICK key \in Charges(p) : ~(budget[w][key] < Cap(key))
        BY <2>3
      <4>2. budget[w][key] \in Nat /\ Cap(key) \in Nat
        BY <1>1, <1>2, WorkFacts, CapsOfKeys DEF TurnTypeOK
      <4>3. Taken(w, Charges(p)) = budget
        BY <4>1, <4>2 DEF Taken
      <4> QED
        BY <1>5, <2>3, <4>3 DEF Charge
    <3> HIDE DEF passes
    <3> QED
      BY <1>2, <2>1, <2>3, <3>1, NoCharge
  <2> QED
    BY <2>2, <2>3
<1>6. ASSUME NEW p \in Mints, ChargeUnanswered(p) PROVE BudgetInv'
  <2> DEFINE w == mint[p].window
  <2>1. /\ mint[p].pc = "charge" /\ mint'[p].window = w
        /\ mint'[p].pc = (IF budget' = budget THEN "unavailable" ELSE "charged")
        /\ \A q \in Mints : q # p => mint'[q] = mint[q]
        /\ UNCHANGED <<now, asked>>
    BY <1>2, <1>6 DEF ChargeUnanswered, MintRecs
  <2>2. CASE budget' = budget
    BY <1>2, <2>1, <2>2, NoCharge
  <2>3. CASE budget' # budget
    <3>1. budget' = Taken(w, Charges(p))
      BY <1>6, <2>3 DEF ChargeUnanswered
    <3>2. ASSUME NEW key \in Charges(p) PROVE budget[w][key] < Cap(key)
      <4>1. ~(budget[w][key] >= Cap(key))
        BY <2>3, <3>1 DEF Taken
      <4>2. budget[w][key] \in Nat /\ Cap(key) \in Nat
        BY <1>1, <1>2, WorkFacts, CapsOfKeys DEF TurnTypeOK
      <4> QED
        BY <4>1, <4>2
    <3> QED
      BY <2>1, <2>3, <3>1, <3>2, OneCharge
  <2> QED
    BY <2>2, <2>3
<1>7. ASSUME NEW p \in Mints, Generate(p) \/ Record(p) \/ RecordFails(p) \/ Undo(p)
      PROVE  BudgetInv'
  <2>1. /\ mint[p].pc \in {"ask", "record", "undo"} /\ mint'[p].window = mint[p].window
        /\ mint'[p].pc \in {"record", "provider", "success", "undo", "unrecorded"}
        /\ \A q \in Mints : q # p => mint'[q] = mint[q]
        /\ UNCHANGED <<budget, now, asked>>
    <3>1. CASE Generate(p)
      BY <1>2, <3>1 DEF Generate, MintRecs
    <3>2. CASE Record(p)
      BY <1>2, <3>2 DEF Record, MintRecs
    <3>3. CASE RecordFails(p)
      BY <1>2, <3>3 DEF RecordFails, MintRecs
    <3>4. CASE Undo(p)
      BY <1>2, <3>4 DEF Undo, MintRecs
    <3> QED
      BY <1>7, <3>1, <3>2, <3>3, <3>4
  <2> QED
    BY <1>2, <2>1, NoCharge
<1>8. ASSUME NEW r \in Revokes,
             ReadOwner(r) \/ RevokeAtProvider(r) \/ Forget(r) \/ RevokeAgain(r)
      PROVE  BudgetInv'
  <2>1. UNCHANGED <<mint, budget, now, asked>>
    BY <1>8 DEF ReadOwner, RevokeAtProvider, Forget, RevokeAgain
  <2> QED
    BY <1>2, <2>1, NoCharge
<1>9. CASE ForgetWindows
  <2>1. \A v \in WindowsOf : v >= WindowOf(now) => budget'[v] = budget[v]
    <3> SUFFICES ASSUME NEW v \in WindowsOf, v >= WindowOf(now) PROVE budget'[v] = budget[v]
      OBVIOUS
    <3>1. ~(v < WindowOf(now))
      BY <1>1, <1>2, WorkFacts DEF WindowsOf
    <3> QED
      BY <1>9, <3>1 DEF ForgetWindows
  <2> QED
    BY <1>2, <1>9, <2>1, NoCharge DEF ForgetWindows
<1>10. CASE ForgetExpired
  BY <1>2, <1>10, NoCharge DEF ForgetExpired
<1>11. CASE Tick
  <2>1. WindowOf(now) <= WindowOf(now')
    BY <1>2, <1>11, WindowsAdvance DEF Tick
  <2> QED
    BY <1>2, <1>11, <2>1, NoCharge DEF Tick
<1> QED
  BY <1>3, <1>4, <1>5, <1>6, <1>7, <1>8, <1>9, <1>10, <1>11 DEF TurnNext

\* For any requests, bounds and window: what an open window's budgets hold is
\* what was charged to them, and no budget lets through more than its bound
\* (take_sql and charge of turn_credentials, forget_windows).
THEOREM BudgetsAlwaysBind == TurnSpec => []BudgetsBind
<1>1. TurnInit => BudgetInv
  <2> SUFFICES ASSUME TurnInit PROVE BudgetInv
    OBVIOUS
  <2>1. TurnTypeOK
    BY TypeInit
  <2>2. MintsInTime
    BY <2>1, WindowOpens DEF TurnInit, MintsInTime
  <2>3. \A v \in WindowsOf, key \in Keys : ChargedTo(v, key) = {} /\ AskedIn(v, key) = {}
    BY DEF TurnInit, ChargedTo, AskedIn, MintAt
  <2>4. OpenWindowsExact
    BY <2>3, FS_EmptySet DEF TurnInit, OpenWindowsExact, NoCounts
  <2>5. AskedWithinCaps
    BY <2>3, FS_EmptySet, CapsOfKeys DEF AskedWithinCaps
  <2> QED
    BY <2>1, <2>2, <2>4, <2>5 DEF BudgetInv
<1>2. BudgetInv /\ [TurnNext]_turnVars => BudgetInv'
  BY BudgetStep
<1>3. BudgetInv => BudgetsBind
  <2> SUFFICES ASSUME BudgetInv PROVE BudgetsBind
    OBVIOUS
  <2>1. WindowOf(now) \in WindowsOf /\ WindowOf(now) >= WindowOf(now)
    BY WorkFacts DEF BudgetInv, WindowsOf
  <2>2. \A key \in Keys : budget[WindowOf(now)][key] = Cardinality(ChargedTo(WindowOf(now), key))
    BY <2>1 DEF BudgetInv, OpenWindowsExact
  <2> QED
    BY <2>2 DEF BudgetInv, BudgetsBind, AskedWithinCaps, ChargedTo, AskedIn
<1> QED
  BY <1>1, <1>2, <1>3, PTL DEF TurnSpec

\* Every request is at a step the code has, in a window the clock has been in,
\* and every count is a number of requests.
THEOREM TurnTyped == TurnSpec => []TurnTypeOK
<1>1. TurnTypeOK /\ [TurnNext]_turnVars => TurnTypeOK'
  BY TypeStep
<1> QED
  BY <1>1, TypeInit, PTL DEF TurnSpec
=============================================================================
