-------------------------------- MODULE MCSend --------------------------------
(* SendRoute on small workloads. *)
EXTENDS SendRoute

CONSTANTS a, b, x, y, m, k, hi, ho

MCBudget == [sends |-> 2, bytes |-> 3]
MCFees == {-1, 0, 1}

Idle == [store |-> "d1", sends |-> <<>>, sets |-> <<>>, quotes |-> <<>>, faults |-> {},
         ticks |-> 0, delivery |-> 0, resends |-> 0, acks |-> FALSE, off |-> FALSE]

Out(tag, index) == [tag |-> tag, index |-> index]
TwoOuts == <<Out(None, 0), Out(None, 1)>>
Of(s, to, text, pays) ==
    [from |-> s, to |-> to, text |-> text, pays |-> pays, live |-> FALSE, valid |-> TRUE,
     outputs |-> IF pays = "no" THEN <<>> ELSE TwoOuts]
Live(send) == [send EXCEPT !.live = TRUE]
Invalid(send) == [send EXCEPT !.valid = FALSE]
Is(who, id) == [who |-> who, id |-> id]
To1 == <<Is(x, m)>>
To2 == <<Is(x, m), Is(y, k)>>

\* Two senders race for one id while D1 stalls; one sends again.
Racing == [Idle EXCEPT !.sends = <<Of(a, To2, hi, "no"), Live(Of(b, To1, ho, "no"))>>,
                       !.faults = {"stall"}, !.resends = 1]
\* And the row is acknowledged between the attempts.
Acked == [Racing EXCEPT !.sends = <<Of(a, To1, hi, "no"), Of(b, To1, ho, "no")>>, !.acks = TRUE]
\* The same at the hubs, whose mailboxes hold one row.
AtHubs == [Acked EXCEPT !.store = "sql", !.faults = {"hop", "push"},
                         !.sends = <<Of(a, To2, hi, "no"), Of(a, <<Is(x, k)>>, hi, "no")>>]
\* Paid rows.
Paid == [Racing EXCEPT !.store = "sql", !.delivery = 1, !.resends = 1,
                       !.sets = <<[to |-> x, from |-> Anyone, fee |-> 1]>>,
                       !.sends = <<Of(a, To1, hi, "inline"), Of(a, To1, hi, "no")>>]
\* No delivery fee: a named object's row is D1's, an inline payment's the hub's.
Unjudging == [Paid EXCEPT !.delivery = 0,
                          !.sends = <<Of(a, To1, hi, "named"), Of(b, To1, ho, "inline")>>]
\* Two recipients owed a fee, and outputs that are too few, tagged or have no index.
Tagging == [Idle EXCEPT !.delivery = 1,
                        !.sets = <<[to |-> x, from |-> a, fee |-> 1],
                                   [to |-> y, from |-> a, fee |-> 1]>>,
                        !.sends = <<[Of(a, To2, hi, "inline") EXCEPT !.outputs = TwoOuts],
                                    [Of(a, To2, ho, "inline") EXCEPT
                                        !.outputs = <<Out(None, 0), Out(y, 1), Out(None, 2)>>]>>]
\* Fees change under the hubs' copies.
Changing == [Idle EXCEPT !.store = "sql", !.faults = {"ask"}, !.ticks = 2, !.resends = 1,
                         !.sends = <<Of(a, To1, hi, "no")>>,
                         !.sets = <<[to |-> x, from |-> a, fee |-> -1]>>]
\* One identity spends its windows.
Spending == [Idle EXCEPT !.faults = {"charge"}, !.ticks = 2, !.delivery = 0,
                         !.sends = <<Of(a, To1, hi, "no"), Of(a, <<Is(x, k)>>, hi, "inline"),
                                     Of(a, <<Is(y, m)>>, hi, "no")>>]
\* A quote writes the box-wide default.
Quoting == [Idle EXCEPT !.quotes = <<[to |-> x, from |-> a], [to |-> x, from |-> b]>>,
                        !.sets = <<[to |-> x, from |-> a, fee |-> 1],
                                   [to |-> x, from |-> Anyone, fee |-> -1]>>,
                        !.sends = <<Of(a, To1, hi, "no"), Of(b, <<Is(x, k)>>, ho, "inline")>>]
\* What ends before anything is read.
Off == [Idle EXCEPT !.off = TRUE,
                    !.sends = LET send == Of(a, To1, hi, "no")
                              IN  <<send, Live(send), Invalid(send), Invalid(Live(send))>>]

MCWorks == {Racing, Acked, AtHubs, Paid, Unjudging, Tagging, Changing, Spending, Quoting, Off}
=============================================================================
