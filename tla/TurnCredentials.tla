--------------------------- MODULE TurnCredentials ---------------------------
(***************************************************************************)
(* POST /turn-credentials and its revoke (src/turn_credentials): a mint is *)
(* charged to every budget it counts against or to none, then asked of the *)
(* provider, then recorded username by username before it is handed out.   *)
(* The scheduled event forgets closed windows and expired records.         *)
(* Requests interleave at every call to D1 or to the provider.             *)
(***************************************************************************)
EXTENDS Integers, FiniteSets

CONSTANTS
    TurnWorks,      \* the workloads
    Names,      \* the TURN entries of one provider answer, 1 .. n
    Caps,       \* identity_hour, source_hour, prefix48_hour and total_hour
    Ttl,        \* ttl_secs
    Window      \* WINDOW_SECS

ASSUME TurnBounds == Ttl \in Nat /\ Window \in Nat \ {0} /\ Names \in Nat \ {0}
ASSUME CapsAreNat == Caps \in [{"identity", "source", "prefix48", "total"} -> Nat]
ASSUME TurnWorksTyped ==
    \A w \in TurnWorks :
        /\ w.ticks \in Nat /\ IsFiniteSet(DOMAIN w.mints)
        /\ \A r \in DOMAIN w.revokes : /\ w.revokes[r].of \in DOMAIN w.mints
                                        /\ w.revokes[r].n \in 1 .. Names
                                        /\ w.revokes[r].by # "nobody"

VARIABLES
    turnWork,       \* chosen once: mints, revokes, faults, ticks, the switch and the key
    mint,       \* per mint request: how far it is
    revoke,     \* per revoke request: how far it is
    budget,     \* turn_budget: window to key to count
    record,     \* turn_credentials: username to owner and expiry
    live,       \* the provider: username to when it ends
    now,
    asked,      \* history: mints let through, with their window, while it was open
    handed,     \* history: usernames handed out, with owner and expiresAt
    ended       \* history: usernames revoked at the provider, and for whom

turnVars == <<turnWork, mint, revoke, budget, record, live, now, asked, handed, ended>>

-----------------------------------------------------------------------------
Mints == DOMAIN turnWork.mints
Revokes == DOMAIN turnWork.revokes
Can(fault) == fault \in turnWork.faults
NoPrefix == "none"
WindowOf(t) == t - (t % Window)
WindowsOf == 0 .. turnWork.ticks
Username(q, n) == <<q, n>>
Usernames == {Username(q, n) : q \in Mints, n \in 1 .. Names}
NoRecord == [by |-> "nobody", until |-> -1]

\* charges: the identity, the source group, the /48 of an IPv6 source, the total.
Key(name, of) == <<name, of>>
ChargesOf(m) ==
    {Key("identity", m.by), Key("source", m.group), Key("total", "all")}
        \cup (IF m.prefix48 = NoPrefix THEN {} ELSE {Key("prefix48", m.prefix48)})
Charges(q) == ChargesOf(turnWork.mints[q])
Keys == UNION {Charges(q) : q \in Mints}
Cap(key) == Caps[key[1]]

MintAt(q, pc) == mint[q].pc = pc
MintAnswer(q, a) == mint' = [mint EXCEPT ![q].pc = a]
RevokeAt(r, pc) == revoke[r] = pc

-----------------------------------------------------------------------------
(* A mint *)

\* The switch, the caller rule and the key, before anything is charged; the
\* window is that of the clock now.
MintArrives(q) ==
    /\ MintAt(q, "new")
    /\ LET refused == CASE ~turnWork.on -> "off"
                        [] turnWork.on /\ ~turnWork.mints[q].own -> "notCaller"
                        [] turnWork.on /\ turnWork.mints[q].own /\ ~turnWork.key -> "misconfigured"
                        [] OTHER -> "charge"
       IN  mint' = [mint EXCEPT ![q].pc = refused, ![q].window = WindowOf(now)]
    /\ UNCHANGED <<turnWork, revoke, budget, record, live, now, asked, handed, ended>>

\* Faulty: each budget is guarded by its own bound alone.
TakenEach(w, keys) ==
    [budget EXCEPT ![w] = [key \in Keys |->
        IF key \in keys /\ budget[w][key] < Cap(key) THEN @[key] + 1 ELSE @[key]]]

\* take_sql: every budget counts one more, or none when any is spent.
Taken(w, keys) ==
    IF \E key \in keys : budget[w][key] >= Cap(key) THEN budget
    ELSE [budget EXCEPT ![w] = [key \in Keys |-> IF key \in keys THEN @[key] + 1 ELSE @[key]]]

\* The batch of charge: open the rows, take, read.
Charge(q) ==
    LET w == mint[q].window
        keys == Charges(q)
        passes == \A key \in keys : budget[w][key] < Cap(key)
    IN  /\ MintAt(q, "charge")
        /\ budget' = Taken(w, keys)
        /\ mint' = [mint EXCEPT ![q].pc = IF passes THEN "ask" ELSE "spent",
                                ![q].started = now]
        /\ asked' = IF passes /\ w = WindowOf(now) THEN asked \cup {q} ELSE asked
        /\ UNCHANGED <<turnWork, revoke, record, live, now, handed, ended>>

\* A store that does not answer mints nothing, though the batch may have run.
ChargeUnanswered(q) ==
    /\ MintAt(q, "charge") /\ Can("charge")
    /\ \/ UNCHANGED budget
       \/ budget' = Taken(mint[q].window, Charges(q))
    /\ mint' = [mint EXCEPT ![q].pc = IF budget' = budget THEN "unavailable" ELSE "charged"]
    /\ UNCHANGED <<turnWork, revoke, record, live, now, asked, handed, ended>>

\* provider.generate: the credentials begin at the provider, whose answer may
\* be lost or unusable; the charge stands.
Generate(q) ==
    /\ MintAt(q, "ask")
    /\ \/ /\ live' = [u \in Usernames |-> IF u[1] = q THEN now + Ttl ELSE live[u]]
          /\ \/ mint' = [mint EXCEPT ![q].pc = "record", ![q].n = 1]
             \/ Can("provider") /\ MintAnswer(q, "provider")
       \/ /\ Can("provider") /\ MintAnswer(q, "provider")
          /\ UNCHANGED live
    /\ UNCHANGED <<turnWork, revoke, budget, record, now, asked, handed, ended>>

Until(q) == mint[q].started + Ttl
Mine(q) == [by |-> turnWork.mints[q].by, until |-> Until(q)]

\* The username at hand is recorded; after the last one all are handed out.
Record(q) ==
    LET u == Username(q, mint[q].n)
    IN  /\ MintAt(q, "record")
        /\ record' = [record EXCEPT ![u] = Mine(q)]
        /\ IF mint[q].n < Names
           THEN mint' = [mint EXCEPT ![q].n = @ + 1] /\ UNCHANGED handed
           ELSE /\ MintAnswer(q, "success")
                /\ handed' = [v \in Usernames |-> IF v[1] = q THEN Mine(q) ELSE handed[v]]
        /\ UNCHANGED <<turnWork, revoke, budget, live, now, asked, ended>>

\* Faulty: a username that cannot be recorded is passed over.
RecordPassesOver(q) ==
    /\ MintAt(q, "record") /\ Can("d1")
    /\ IF mint[q].n < Names
       THEN mint' = [mint EXCEPT ![q].n = @ + 1] /\ UNCHANGED handed
       ELSE /\ MintAnswer(q, "success")
            /\ handed' = [v \in Usernames |-> IF v[1] = q THEN Mine(q) ELSE handed[v]]
    /\ UNCHANGED <<turnWork, revoke, budget, record, live, now, asked, ended>>

\* A username that cannot be recorded: none is handed out, all are revoked.
RecordFails(q) ==
    /\ MintAt(q, "record") /\ Can("d1")
    /\ mint' = [mint EXCEPT ![q].pc = "undo", ![q].n = 1]
    /\ \/ UNCHANGED record
       \/ record' = [record EXCEPT ![Username(q, mint[q].n)] = Mine(q)]
    /\ UNCHANGED <<turnWork, revoke, budget, live, now, asked, handed, ended>>

Ending(u, who) == [of |-> u, by |-> who]
End(u, who) == live' = [live EXCEPT ![u] = -1] /\ ended' = ended \cup {Ending(u, who)}

\* Best effort: a revoke that fails is let be.
Undo(q) ==
    /\ MintAt(q, "undo")
    /\ \/ End(Username(q, mint[q].n), "relay")
       \/ Can("provider") /\ UNCHANGED <<live, ended>>
    /\ IF mint[q].n < Names THEN mint' = [mint EXCEPT ![q].n = @ + 1]
       ELSE MintAnswer(q, "unrecorded")
    /\ UNCHANGED <<turnWork, revoke, budget, record, now, asked, handed>>

-----------------------------------------------------------------------------
(* A revoke *)

Revoked(r) == Username(turnWork.revokes[r].of, turnWork.revokes[r].n)
Revoker(r) == turnWork.revokes[r].by

\* The switch, the body and the key, before anything is read.
RevokeRefusal(r) ==
    CASE ~turnWork.on -> "off"
      [] turnWork.on /\ ~turnWork.revokes[r].valid -> "invalid"
      [] turnWork.on /\ turnWork.revokes[r].valid /\ ~turnWork.key -> "misconfigured"
      [] OTHER -> "none"

\* Only the identity that minted a username revokes it.  A username is known
\* once it was handed out.
ReadOwner(r) ==
    /\ RevokeAt(r, "owner")
    /\ \/ /\ RevokeRefusal(r) # "none"
          /\ revoke' = [revoke EXCEPT ![r] = RevokeRefusal(r)]
       \/ /\ RevokeRefusal(r) = "none" /\ handed[Revoked(r)] # NoRecord
          /\ \/ revoke' = [revoke EXCEPT ![r] =
                    IF record[Revoked(r)].by = Revoker(r) THEN "provider" ELSE "notFound"]
             \/ Can("d1") /\ revoke' = [revoke EXCEPT ![r] = "unavailable"]
    /\ UNCHANGED <<turnWork, mint, budget, record, live, now, asked, handed, ended>>

\* provider.revoke: one that fails may have been done all the same.
RevokeAtProvider(r) ==
    /\ RevokeAt(r, "provider")
    /\ \/ End(Revoked(r), Revoker(r)) /\ revoke' = [revoke EXCEPT ![r] = "forget"]
       \/ /\ Can("provider")
          /\ revoke' = [revoke EXCEPT ![r] = "failed"]
          /\ \/ End(Revoked(r), Revoker(r))
             \/ UNCHANGED <<live, ended>>
    /\ UNCHANGED <<turnWork, mint, budget, record, now, asked, handed>>

\* The record goes; one that stays goes with its expiry.
Forget(r) ==
    /\ RevokeAt(r, "forget")
    /\ revoke' = [revoke EXCEPT ![r] = "revoked"]
    /\ \/ record' = [record EXCEPT ![Revoked(r)] = NoRecord]
       \/ Can("d1") /\ UNCHANGED record
    /\ UNCHANGED <<turnWork, mint, budget, live, now, asked, handed, ended>>

\* The client asks again after a revoke that failed.
RevokeAgain(r) ==
    /\ revoke[r] \in {"failed", "unavailable", "notFound"}
    /\ revoke' = [revoke EXCEPT ![r] = "owner"]
    /\ UNCHANGED <<turnWork, mint, budget, record, live, now, asked, handed, ended>>

-----------------------------------------------------------------------------
(* The scheduled event and time *)

NoCounts == [key \in Keys |-> 0]

ForgetWindows ==
    /\ \E w \in WindowsOf : w < WindowOf(now) /\ budget[w] # NoCounts
    /\ budget' = [w \in WindowsOf |-> IF w < WindowOf(now) THEN NoCounts ELSE budget[w]]
    /\ UNCHANGED <<turnWork, mint, revoke, record, live, now, asked, handed, ended>>

ForgetExpired ==
    /\ \E u \in Usernames : record[u] # NoRecord /\ record[u].until < now
    /\ record' = [u \in Usernames |-> IF record[u].until < now THEN NoRecord ELSE record[u]]
    /\ UNCHANGED <<turnWork, mint, revoke, budget, live, now, asked, handed, ended>>

Tick ==
    /\ now < turnWork.ticks
    /\ now' = now + 1
    /\ live' = [u \in Usernames |-> IF live[u] < now' THEN -1 ELSE live[u]]
    /\ UNCHANGED <<turnWork, mint, revoke, budget, record, asked, handed, ended>>

-----------------------------------------------------------------------------
TurnInit ==
    /\ turnWork \in TurnWorks
    /\ mint = [q \in Mints |-> [pc |-> "new", window |-> 0, started |-> 0, n |-> 1]]
    /\ revoke = [r \in Revokes |-> "owner"]
    /\ budget = [w \in WindowsOf |-> NoCounts]
    /\ record = [u \in Usernames |-> NoRecord]
    /\ live = [u \in Usernames |-> -1]
    /\ now = 0
    /\ asked = {} /\ ended = {}
    /\ handed = record

TurnNext ==
    \/ \E q \in Mints : MintArrives(q) \/ Charge(q) \/ ChargeUnanswered(q) \/ Generate(q)
                        \/ Record(q) \/ RecordFails(q) \/ Undo(q)
    \/ \E r \in Revokes : ReadOwner(r) \/ RevokeAtProvider(r) \/ Forget(r) \/ RevokeAgain(r)
    \/ ForgetWindows
    \/ ForgetExpired
    \/ Tick

TurnSpec == TurnInit /\ [][TurnNext]_turnVars

-----------------------------------------------------------------------------
\* What a window's budgets hold while it is open is what was charged to them,
\* mints let through and batches whose answer was lost: a mint refused by one
\* budget has charged none of the others, and no budget ever lets through more
\* than its bound, however requests and the forgetting interleave (take_sql).
BudgetsBind ==
    LET w == WindowOf(now)
        charged(key) == {q \in Mints : /\ mint[q].window = w /\ key \in Charges(q)
                                       /\ q \in asked \/ MintAt(q, "charged")}
    IN  /\ \A key \in Keys : budget[w][key] = Cardinality(charged(key))
        /\ \A key \in Keys, v \in WindowsOf :
               Cardinality({q \in asked : mint[q].window = v /\ key \in Charges(q)}) <= Cap(key)

\* A username handed out can be revoked by the identity that minted it until it
\* expires: its record names that identity, or that identity ended it at the
\* provider already.  And by nobody else: whoever ended a username handed out is
\* who minted it (mint records before it answers; revoke reads the owner, and
\* asks the provider before it forgets).
HandedIsRevocable ==
    /\ \A u \in Usernames :
          (handed[u] # NoRecord /\ now <= handed[u].until) =>
              (record[u] = handed[u] \/ Ending(u, handed[u].by) \in ended)
    /\ \A e \in ended : handed[e.of] # NoRecord => e.by = handed[e.of].by
=============================================================================
