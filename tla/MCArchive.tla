------------------------------ MODULE MCArchive ------------------------------
(***************************************************************************)
(* Instances of MailboxArchive and the transcripts over it: two hubs, a    *)
(* retained box and one that is not, a short body and one too long for the *)
(* queue, and the workloads that put a few calls each in one behaviour.    *)
(***************************************************************************)
EXTENDS Transcript

MCBodies == {"short", "long"}
MCSizeOf == [b \in MCBodies |-> IF b = "short" THEN 1 ELSE 2]

\* "o1" sends into the retained box, "o2" into one that is not.
MCBoxOf == [o \in Origins |-> IF o = "o1" THEN "kept" ELSE "plain"]

SendOf(hub, id, origin, body) ==
    [hub |-> hub, id |-> id, origin |-> origin, body |-> body, paid |-> FALSE, n |-> 0]

KeptLong   == SendOf("h1", "m1", "o1", "long")
KeptShort  == SendOf("h1", "m1", "o1", "short")
PlainShort == SendOf("h1", "m1", "o2", "short")
ToOther    == SendOf("h2", "m1", "o1", "short")
Paid       == [SendOf("h1", "m2", "o1", "long") EXCEPT !.paid = TRUE]

AckOf(ids, n) == [hub |-> "h1", ids |-> ids, n |-> n]
AckOne  == AckOf({"m1"}, 0)
AckBoth == AckOf({"m1", "m2"}, 0)

ListOf(box) == [hub |-> "h1", box |-> box, n |-> 0]

MCSends == {KeptLong, KeptShort, PlainShort, ToOther, Paid}
MCAcks  == {AckOne, AckBoth}
MCLists == {ListOf("kept"), ListOf("plain")}

\* the one message of the liveness run
OneSend == {KeptLong}
OneAck  == {AckOne}
OneList == {ListOf("plain")}
NoEnding == {SweepCall}

Doing(callset, flaky, listset, n) ==
    [calls |-> callset, flaky |-> flaky, lists |-> listset,
     consumers |-> CHOOSE C \in SUBSET Consumers : Cardinality(C) = n, ends |-> {}]

\* a long message into a retained box, its acknowledgment over hops that fail
Retained == Doing({KeptLong, AckOne}, {AckOne}, {}, 1)
\* a send and an acknowledgment over hops that fail, where acknowledging deletes
Plain == Doing({PlainShort, AckOne}, {PlainShort}, {}, 1)
\* two invocations of the consumer at once
Overlapping == Doing({KeptLong, AckOne}, {}, {}, 2)
\* a listing of a row in the hub and a paid row in D1
Listed == Doing({KeptShort, Paid, AckBoth}, {}, {ListOf("kept")}, 1)
\* one id sent to two recipients
Collision == Doing({KeptShort, ToOther, AckOne}, {}, {}, 1)

TranscriptOp(op, who) == [op |-> op, who |-> who, box |-> "kept"]
MCPurges  == {TranscriptOp("purge", "h1"), TranscriptOp("purge", "h2")}
MCReads   == {TranscriptOp("list", "h1"), TranscriptOp("list", "author")}
MCEndings == MCPurges \cup MCReads \cup {SweepCall}

\* a row of D1 alone, purged, expired and read by either party
Ending == [Doing({Paid}, {}, {}, 0) EXCEPT !.ends = MCEndings]
\* a row the archive goes on writing, purged by its recipient or expired
Purging  == [Doing({KeptShort}, {}, {}, 1) EXCEPT !.ends =
                {TranscriptOp("purge", "h1"), TranscriptOp("list", "h1")}]
Expiring == [Doing({KeptShort}, {}, {}, 1) EXCEPT !.ends =
                {TranscriptOp("list", "author"), SweepCall}]

Races     == {Retained, Plain, Overlapping, Listed, Collision,
              Ending, Purging, Expiring}
Relisting == {Doing({KeptLong, AckOne}, {}, {ListOf("plain")}, 1)}
=============================================================================
