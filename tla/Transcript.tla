----------------------------- MODULE Transcript -----------------------------
(***************************************************************************)
(* The transcripts of the retained boxes (src/retention.rs): their rows in *)
(* D1 are read whole by either party, purged by the recipient, and expired *)
(* by the scheduled sweep, each in several statements with an await in     *)
(* between.  A marker (transcript_tombstones) tells a transcript that was  *)
(* cut from one that never was.  D1's rows are those of MailboxArchive,    *)
(* which the hubs, the archive and the acknowledgments go on writing.      *)
(***************************************************************************)
EXTENDS MailboxArchive

CONSTANTS
    Author,   \* the sender of every message
    Purges,   \* /purgeTranscript calls
    Reads     \* /listTranscript calls

Identities == Hubs \cup {Author}
Everyone == "*"

SweepCall == [op |-> "sweep"]
TranscriptCall(op) == [op : {op}, who : Identities, box : Boxes]

ASSUME AuthorIsNoHub == Author \notin Hubs
ASSUME TranscriptCallsTyped ==
    /\ Purges \subseteq TranscriptCall("purge") /\ Reads \subseteq TranscriptCall("list")
    /\ Endings = Purges \cup Reads \cup {SweepCall}

VARIABLES
    old,      \* ids whose created_at is past RETAIN_TTL_DAYS
    owned,    \* message_boxes: who has a box of which type
    markers,  \* transcript_tombstones, one per box and purged_for
    sweep,    \* the scheduled sweep: its next statement, 0 between sweeps
    purges,   \* per purge: how far, and the rows it deleted
    reads,    \* per read: how far, and what it saw
    cut       \* history: rows deleted under a marker within its 2 x TTL

ends  == <<old, owned, markers, sweep, purges, reads, cut>>
relay == <<work, mail, queue, pass, posts, calls, hops, legacy, lists>>
tvars == <<vars, ends>>

-----------------------------------------------------------------------------
(* D1 *)

Stored == {id \in Ids : d1[id].state # "none"}
InBox(b) == {id \in Stored : BoxOf[d1[id].origin] = b}

\* transcript_select_sql: what the caller received or sent.
Transcript(who, b) == {id \in InBox(b) : who \in {d1[id].recipient, Author}}

\* purge_delete_sql: only what the caller received.
Received(who, b) == {id \in InBox(b) : d1[id].recipient = who}

Without(gone) == [id \in Ids |-> IF id \in gone THEN NoCopy ELSE d1[id]]

Expired == {id \in old \cap Stored : BoxOf[d1[id].origin] \in RetainedBoxes}

\* participant_check_sql
IsParticipant(who, b) == <<who, b>> \in owned \/ Transcript(who, b) # {}

\* INSERT OR REPLACE of the markers of these boxes for one party or everyone
Marked(boxes, who) ==
    {m \in markers : m.box \notin boxes \/ m.who # who}
        \cup {[box |-> b, who |-> who, stale |-> FALSE] : b \in boxes}

\* tombstone_select_sql
IsMarked(who, b) == \E m \in markers : m.box = b /\ m.who \in {who, Everyone}

CutRow(id, by) == [id |-> id, box |-> BoxOf[d1[id].origin], recipient |-> d1[id].recipient,
                   by |-> by]

\* A row this caller could see was cut under a marker it can see.
IsCut(r) ==
    \E c \in cut : /\ c.box = r.box /\ c.by \in {r.who, Everyone}
                   /\ r.who \in {c.recipient, Author} /\ c.id \notin Stored

-----------------------------------------------------------------------------
(* handle_purge_transcript *)

PurgeGate(p) ==
    /\ p \in work.ends /\ purges[p].step = "new"
    /\ purges' = [purges EXCEPT ![p].step =
          IF p.box \in RetainedBoxes /\ IsParticipant(p.who, p.box) THEN "delete" ELSE "refused"]
    /\ UNCHANGED <<relay, d1, old, owned, markers, sweep, reads, cut>>

PurgeDelete(p) ==
    LET gone == Received(p.who, p.box) IN
    /\ purges[p].step = "delete"
    /\ d1' = Without(gone)
    /\ purges' = [purges EXCEPT ![p] = [step |-> "mark", gone |-> {CutRow(id, p.who) : id \in gone}]]
    /\ sweep' = [sweep EXCEPT !.seen = @ \ gone]
    /\ UNCHANGED <<relay, old, owned, markers, reads, cut>>

PurgeMark(p) ==
    /\ purges[p].step = "mark"
    /\ markers' = Marked({p.box}, p.who)
    /\ purges' = [purges EXCEPT ![p].step = "answered"]
    /\ cut' = cut \cup purges[p].gone
    /\ UNCHANGED <<relay, d1, old, owned, sweep, reads>>

\* A statement fails past its retries, and may have landed: the caller is told.
PurgeFails(p) ==
    LET gone == Received(p.who, p.box) IN
    /\ purges[p].step \in {"delete", "mark"}
    /\ purges' = [purges EXCEPT ![p].step = "failed"]
    /\ \/ UNCHANGED <<d1, sweep, markers>>
       \/ /\ purges[p].step = "delete" /\ d1' = Without(gone)
          /\ sweep' = [sweep EXCEPT !.seen = @ \ gone]
          /\ UNCHANGED markers
       \/ /\ purges[p].step = "mark" /\ markers' = Marked({p.box}, p.who)
          /\ UNCHANGED <<d1, sweep>>
    /\ UNCHANGED <<relay, old, owned, reads, cut>>

-----------------------------------------------------------------------------
(* sweep_expired_transcripts, in the scheduled event *)

\* Faulty: the rows go before their markers are written.
SweepRowsFirst == <<"rows", "markers", "boxes", "stale">>

\* Its statements, in order: a crash between two leaves a marker and no gap.
SweepOrder == <<"markers", "rows", "boxes", "stale">>

\* "rows" deletes what is past the age by its own now.  seen is what was so
\* when the sweep began.
Statement(what) ==
    CASE what = "markers" ->
            /\ markers' = Marked({BoxOf[d1[id].origin] : id \in Expired}, Everyone)
            /\ UNCHANGED <<d1, owned, cut>>
      [] what = "rows" ->
            /\ d1' = Without(Expired)
            /\ cut' = cut \cup {CutRow(id, Everyone) : id \in Expired \cap sweep.seen}
            /\ UNCHANGED <<owned, markers>>
      [] what = "boxes" ->   \* those empty and old enough
            /\ \E gone \in SUBSET {o \in owned : o[2] \in RetainedBoxes
                                                 /\ Received(o[1], o[2]) = {}} :
                  owned' = owned \ gone
            /\ UNCHANGED <<d1, markers, cut>>
      [] what = "stale" ->   \* past 2 x TTL
            /\ markers' = {m \in markers : ~m.stale}
            /\ UNCHANGED <<d1, owned, cut>>

SweepBegins ==
    /\ SweepCall \in work.ends /\ RetainedBoxes # {} /\ sweep.step = 0
    /\ sweep' = [step |-> 1, seen |-> Expired]
    /\ UNCHANGED <<relay, d1, old, owned, markers, purges, reads, cut>>

SweepStep ==
    /\ sweep.step # 0
    /\ Statement(SweepOrder[sweep.step])
    /\ sweep' = IF sweep.step = Len(SweepOrder) THEN [step |-> 0, seen |-> {}]
                ELSE [sweep EXCEPT !.step = @ + 1]
    /\ UNCHANGED <<relay, old, purges, reads>>

\* A statement fails past its retries, or the event dies, landed or not: the
\* rest waits for the next event.
SweepFails ==
    /\ sweep.step # 0
    /\ UNCHANGED <<d1, owned, markers, cut>> \/ Statement(SweepOrder[sweep.step])
    /\ sweep' = [step |-> 0, seen |-> {}]
    /\ UNCHANGED <<relay, old, purges, reads>>

-----------------------------------------------------------------------------
(* handle_list_transcript: the rows, their bodies from R2, then the marker *)

ReadRows(r) ==
    /\ r \in work.ends /\ reads[r].step = "new"
    /\ reads' = [reads EXCEPT ![r] =
          IF r.box \in RetainedBoxes
          THEN [reads[r] EXCEPT !.step = "marker", !.rows = Transcript(r.who, r.box),
                                !.cut = IsCut(r)]
          ELSE [reads[r] EXCEPT !.step = "refused"]]
    /\ UNCHANGED <<relay, d1, old, owned, markers, sweep, purges, cut>>

\* A marker that cannot be read is an error, never "not purged".
ReadMarker(r) ==
    /\ reads[r].step = "marker"
    /\ \E step \in {"answered", "failed"} :
          reads' = [reads EXCEPT ![r].step = step, ![r].said = IsMarked(r.who, r.box)]
    /\ UNCHANGED <<relay, d1, old, owned, markers, sweep, purges, cut>>

-----------------------------------------------------------------------------
(* Time *)

\* RETAIN_TTL_DAYS pass for one row.
RowAges(id) ==
    /\ SweepCall \in work.ends /\ id \in Stored \ old
    /\ old' = old \cup {id}
    /\ UNCHANGED <<relay, d1, owned, markers, sweep, purges, reads, cut>>

\* Twice that, which no request and no scheduled event lasts.
WindowPasses ==
    /\ sweep.step = 0
    /\ \A p \in Purges : purges[p].step \notin {"delete", "mark"}
    /\ \A r \in Reads : reads[r].step # "marker"
    /\ \E m \in markers : ~m.stale
    /\ markers' = {[m EXCEPT !.stale = TRUE] : m \in markers}
    /\ old' = old \cup Stored
    /\ cut' = {}
    /\ UNCHANGED <<relay, d1, owned, sweep, purges, reads>>

-----------------------------------------------------------------------------

TInit ==
    /\ Init
    /\ old = {} /\ owned = {} /\ markers = {} /\ cut = {}
    /\ sweep = [step |-> 0, seen |-> {}]
    /\ purges = [p \in Purges |-> [step |-> "new", gone |-> {}]]
    /\ reads = [r \in Reads |-> [step |-> "new", rows |-> {}, cut |-> FALSE, said |-> FALSE]]

\* A step of the mailbox and its archive; the box of a row is there before it.
Relay ==
    /\ Next
    /\ owned' = owned \cup {<<d1'[id].recipient, BoxOf[d1'[id].origin]>> :
                               id \in {x \in Ids : d1'[x].state # "none"}}
    /\ UNCHANGED <<old, markers, sweep, purges, reads, cut>>

TNext ==
    \/ Relay
    \/ \E p \in Purges : PurgeGate(p) \/ PurgeDelete(p) \/ PurgeMark(p) \/ PurgeFails(p)
    \/ SweepBegins \/ SweepStep \/ SweepFails
    \/ \E r \in Reads : ReadRows(r) \/ ReadMarker(r)
    \/ \E id \in Ids : RowAges(id)
    \/ WindowPasses

TSpec == TInit /\ [][TNext]_tvars

\* The relay's own fairness; nothing is asked of the transcripts.
TFairSpec == TSpec /\ Fairness

-----------------------------------------------------------------------------
(* Properties *)

Parties == Identities \cup {Everyone}
Marker == [box : Boxes, who : Parties, stale : BOOLEAN]
Cut == [id : Ids, box : Boxes, recipient : Hubs, by : Parties]

\* Type correctness of the transcripts: the boxes, the markers, the sweep, and
\* how far each purge and each read is.
TranscriptTypeOK ==
    /\ old \subseteq Ids /\ owned \subseteq Hubs \X Boxes
    /\ markers \subseteq Marker /\ cut \subseteq Cut
    /\ sweep \in [step : 0 .. Len(SweepOrder), seen : SUBSET Ids]
    /\ purges \in [Purges -> [step : {"new", "delete", "mark", "answered", "refused", "failed"},
                              gone : SUBSET Cut]]
    /\ reads \in [Reads -> [step : {"new", "marker", "answered", "refused", "failed"},
                            rows : SUBSET Ids, cut : BOOLEAN, said : BOOLEAN]]

\* A transcript that was cut says so: an answer that misses a row expired by
\* the sweep, or purged by the caller in a purge already answered, carries the
\* marker, whatever sweep, purge or archive write ran between its two reads or
\* died half-way, and for as long as a marker is kept (transcript_response:
\* "never a silent alias for purged").
CutIsSaid == \A r \in Reads : reads[r].step = "answered" /\ reads[r].cut => reads[r].said

=============================================================================
