-------------------------------- MODULE MCDoor --------------------------------
(* BeefDoor on small payments. *)
EXTENDS BeefDoor

CONSTANTS fee, other

Asked == {fee, other}

RootAt(height, carried) == [height |-> height, carried |-> carried]

Good == [steps |-> [structure |-> 2, scripts |-> 2], bad |-> [structure |-> 0, scripts |-> 0],
         untimely |-> FALSE, long |-> FALSE, subject |-> "loose", pays |-> {fee},
         roots |-> <<RootAt(1, TRUE), RootAt(1, TRUE), RootAt(2, TRUE), RootAt(3, TRUE)>>]
BadStructure == [Good EXCEPT !.bad.structure = 1]
BadScript == [Good EXCEPT !.bad.scripts = 2]
BadRoot == [Good EXCEPT !.roots[3] = RootAt(2, FALSE)]
NoRoot == [Good EXCEPT !.roots = <<>>]
TooHigh == [Good EXCEPT !.roots[4] = RootAt(MaxHeight + 1, TRUE)]
Unpaid == [Good EXCEPT !.pays = {}]
Untimely(c) == [c EXCEPT !.untimely = TRUE]
Long == [Good EXCEPT !.long = TRUE]
Mined == [Good EXCEPT !.subject = "mined"]
NoSubject == [Good EXCEPT !.subject = "none"]

Of(how, terms) == [how |-> how, terms |-> terms]

\* Two requests of one payment over an object that stays.
Plain == [contents |-> <<Good>>, object |-> 1, ahead |-> <<>>, headers |-> TRUE, faults |-> 1,
          named |-> FALSE, requests |-> <<Of("named", fee), Of("named", fee)>>]
\* Two that ask for different outputs.
Apart == [Plain EXCEPT !.requests = <<Of("named", fee), Of("named", other)>>]
\* The object is replaced under the reading, and put back.
Replaced(c) == [Plain EXCEPT !.contents = <<Good, c>>, !.ahead = <<2, 1>>, !.faults = 0]
\* It ends as the other content.
Ended(c) == [Plain EXCEPT !.contents = <<Good, c>>, !.ahead = <<2>>, !.faults = 1,
                          !.requests = <<Of("named", fee)>>]
Gone == [Ended(Good) EXCEPT !.contents[1] = Mined, !.ahead = <<0, 1, 0>>]
\* An inline payment sent twice at once.
Inline(c) == [Plain EXCEPT !.contents = <<c>>, !.object = 0, !.faults = 0,
                           !.requests = <<Of("spooled", fee), Of("spooled", fee)>>]
\* Sent once, past failures and a reclaim of its spool.
InlineAlone == [Inline(Good) EXCEPT !.faults = 2, !.ahead = <<0>>,
                                    !.requests = <<Of("spooled", fee)>>]
\* Sent before: a row names its bytes, and no failure ends the spool.
InlineNamed == [Inline(Good) EXCEPT !.object = 1, !.named = TRUE, !.faults = 1]
\* Three ways with no object.
InRequest(c) == [Inline(c) EXCEPT !.faults = 1,
                                  !.requests = <<Of("hand", fee), Of("free", fee)>>]
Unconfigured == [Inline(Good) EXCEPT !.headers = FALSE,
                     !.requests = <<Of("spooled", fee), Of("hand", fee)>>]

\* No wallet payment of the request's own sender, whichever way it comes.
Unclaimed == {[Plain EXCEPT !.requests = <<Of("named", fee), Of(how, None)>>] :
                  how \in {"named", "spooled", "hand"}}

Contents == {Good, BadStructure, BadScript, BadRoot, NoRoot, TooHigh, Unpaid, Mined, NoSubject,
             Untimely(BadStructure), Untimely(BadScript), Long}
MCWorks ==
    {Plain, Apart, Gone, InlineAlone, InlineNamed, Unconfigured} \cup Unclaimed
        \cup {Replaced(c) : c \in {BadScript, Unpaid}}
        \cup {Ended(c) : c \in Contents}
        \cup {Inline(c) : c \in {Good, BadScript, Unpaid, Untimely(BadScript)}}
        \cup {[InlineAlone EXCEPT !.contents = <<BadScript>>]}
        \cup {InRequest(c) : c \in Contents}
=============================================================================
