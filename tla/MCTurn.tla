-------------------------------- MODULE MCTurn --------------------------------
(* TurnCredentials on small workloads. *)
EXTENDS TurnCredentials

CONSTANTS a, b, p, s, p48

MCCaps == [identity |-> 1, source |-> 1, prefix48 |-> 2, total |-> 2]

Idle == [mints |-> <<>>, revokes |-> <<>>, faults |-> {}, ticks |-> 0, on |-> TRUE, key |-> TRUE]
Of(by, group, prefix48) == [by |-> by, group |-> group, prefix48 |-> prefix48, own |-> TRUE]
Rv(by, of, n) == [by |-> by, of |-> of, n |-> n, valid |-> TRUE]

\* Three mints race for the same budgets over two windows.
Racing == [Idle EXCEPT !.mints = <<Of(a, p, p48), Of(b, p, p48), Of(a, s, p48)>>,
                       !.faults = {"charge"}, !.ticks = 2]
\* Revokes of what was minted, by its owner and by another.
Revoking == [Idle EXCEPT !.mints = <<Of(a, p, NoPrefix)>>,
                         !.revokes = <<Rv(a, 1, 1), Rv(b, 1, 2), Rv(a, 1, 1)>>,
                         !.faults = {"d1", "provider"}, !.ticks = 3]
\* Refused before anything is charged, or read.
Off == [Revoking EXCEPT !.on = FALSE,
                        !.revokes = <<Rv(a, 1, 1), [Rv(a, 1, 1) EXCEPT !.valid = FALSE]>>]
NoKey == [Off EXCEPT !.on = TRUE, !.key = FALSE]
Other == [Off EXCEPT !.on = TRUE, !.mints = <<[Of(a, p, NoPrefix) EXCEPT !.own = FALSE]>>]

MCWorks == {Racing, Revoking, Off, NoKey, Other}
=============================================================================
