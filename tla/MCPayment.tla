------------------------------ MODULE MCPayment ------------------------------
(***************************************************************************)
(* Instances of PaymentObject.  The sends and the scheduled events are     *)
(* model values named in the configurations; a behaviour has one of the    *)
(* settings below, chosen at its start.                                    *)
(***************************************************************************)
EXTENDS PaymentObject, TLC

CONSTANTS s1, s2, c1, c2, e1, e2

SendPair == {s1, s2}
CronPair == {c1, c2}

Paying(fees, paid, crons, fail) ==
    [spooled |-> FALSE, uploads |-> {e1}, fee |-> fees, row |-> paid, crons |-> crons, fail |-> fail]

\* One upload sent twice, its delivery fee by one and its recipient by the
\* other, and the scheduled event.
TwoSends(c) == Paying({s1}, {s2}, {c}, FALSE)

\* One send and two scheduled events that overlap.
TwoCrons == Paying({s1}, {}, {c1, c2}, FALSE)

\* The same inline payment sent twice, to one spool, with failing stores.
OneSpool == [spooled |-> TRUE, uploads |-> {}, fee |-> {s1, s2}, row |-> {s1, s2},
             crons |-> {}, fail |-> TRUE]

\* Two uploads to one URL, each sent with its delivery fee: the second may be
\* deferred while the first one's fee is in the ledger.
Replaced == [Paying({s1, s2}, {}, {}, FALSE) EXCEPT !.uploads = {e1, e2}]

\* A set that no exchange of the scheduled events changes.
Races == {TwoSends(c1), TwoSends(c2), TwoCrons, OneSpool, Replaced}

CronsAlike == Permutations(CronPair)

\* One send, of the recipient's payment or of the fee, the scheduled event and
\* failing stores.
Failing == {Paying({}, {s1}, {c1}, TRUE), Paying({s1}, {}, {c1}, TRUE)}
=============================================================================
