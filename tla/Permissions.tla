----------------------------- MODULE Permissions -----------------------------
(***************************************************************************)
(* Who may send to whom and for which fee (src/permissions.rs, the         *)
(* message_permissions table of src/storage.rs), for one message box, and  *)
(* the copy of D1's answers a recipient's hub keeps under HUB_STORE = sql  *)
(* (src/mailbox/mod.rs, src/message_hub_sql.rs).  SendRoute reads both.    *)
(*                                                                         *)
(* A fee is -1 (blocked), 0 (free) or positive.  A step is one statement   *)
(* at D1 or one call to a hub.                                             *)
(***************************************************************************)
EXTENDS Integers, Sequences, SequencesExt, FiniteSets, FiniteSetsExt, Functions

CONSTANTS
    Senders, Recipients,
    Fees,       \* the fees settings name
    DefaultFee, \* smart_default_fee of the box
    Ttl,        \* PERMISSIONS_COPY_TTL_MS, in ticks longer than a hop's bound
    Attempts,   \* D1_WRITE_ATTEMPTS
    Works       \* the workloads

ASSUME PermissionBounds ==
    /\ Fees \subseteq Int \ {-9} /\ DefaultFee \in Int \ {-9}
    /\ Ttl \in Nat \ {0} /\ Attempts \in Nat \ {0}

VARIABLES
    work,       \* the workload: chosen once
    perms,      \* message_permissions, per recipient: by sender, and box-wide rows
    copy,       \* permissions_copy of each recipient's hub: fee and stamp
    setting,    \* the settings of work.sets, made one after another
    dropped,    \* attempts at a setting given up on, which may still land
    quotes,     \* /permissions/quote requests of work.quotes
    now,
    seen        \* history: per tick, the answers D1 could give in it

permVars == <<perms, copy, setting, dropped, quotes, seen>>

-----------------------------------------------------------------------------
None == -9      \* no fee: outside Fees
Anyone == "anyone"
Never == -1
NoCopy == [fee |-> None, at |-> Never]

ASSUME PermissionWorks ==
    \A w \in Works :
        /\ Len(w.sets) \in Nat /\ DOMAIN w.sets = 1 .. Len(w.sets)
        /\ \A n \in DOMAIN w.sets :
               /\ w.sets[n].to \in Recipients /\ w.sets[n].from \in Senders \cup {Anyone}
               /\ w.sets[n].fee \in Fees
        /\ \A n \in DOMAIN w.quotes :
               w.quotes[n].to \in Recipients /\ w.quotes[n].from \in Senders

Sql == work.store = "sql"
\* What may go wrong: stall (a statement at D1), charge (the budget's), ask (a
\* call to a hub about permissions), hop (an insert at a hub), push.
Can(fault) == fault \in work.faults

\* The statement of read_send_context: the sender's own row first, then the
\* first box-wide row, then the default.
FeeIn(p, r, s) ==
    CASE p[r].by[s] # None -> p[r].by[s]
      [] p[r].by[s] = None /\ p[r].wide # <<>> -> Head(p[r].wide)
      [] OTHER -> DefaultFee

Answers(p) == {<<r, s, FeeIn(p, r, s)>> : r \in Recipients, s \in Senders}
SeenNow(p) == [seen EXCEPT ![now] = @ \cup Answers(p)]

\* permissions_copy: the copy while younger than its TTL.
CopyIsFresh(r, s) == copy[r][s].at # Never /\ now - copy[r][s].at < Ttl

\* Faulty: the copy is stamped when it is kept.
KeepStampsLate(r, s, fee, stamp) ==
    copy' = [copy EXCEPT ![r][s] = [fee |-> fee, at |-> now]]

\* keep_permissions, with the time taken before D1 was asked.
Keep(r, s, fee, stamp) ==
    copy' = [copy EXCEPT ![r][s] = [fee |-> fee, at |-> stamp]]

-----------------------------------------------------------------------------
(* POST /permissions/set *)

\* set_permission: the upsert finds a sender's own row; a box-wide row has a
\* NULL sender, which conflicts with nothing, so each one is another row.
Upserted(p, x) ==
    IF x.from = Anyone THEN [p EXCEPT ![x.to].wide = Append(@, x.fee)]
                       ELSE [p EXCEPT ![x.to].by[x.from] = x.fee]

Setting == work.sets[setting.n]

\* The recipient's next setting arrives.
SetArrives ==
    /\ setting.pc \in {"answered", "failed"} /\ setting.n < Len(work.sets)
    /\ setting' = [n |-> setting.n + 1, pc |-> "write", tries |-> 0]
    /\ UNCHANGED <<work, perms, copy, dropped, quotes, now, seen>>

\* The upsert runs; under sql the hub's copy is forgotten next.
SetPermission ==
    /\ setting.pc = "write"
    /\ perms' = Upserted(perms, Setting)
    /\ seen' = SeenNow(perms')
    /\ setting' = [setting EXCEPT !.pc = IF Sql THEN "forget" ELSE "answered"]
    /\ UNCHANGED <<work, copy, dropped, quotes, now>>

\* with_d1_write_retry: an attempt that stalls is dropped and made again, and
\* the last one answers ERR_DATABASE_ERROR, forgetting nothing.
SetStalls ==
    /\ setting.pc = "write" /\ Can("stall")
    /\ dropped' = dropped \cup {setting.n}
    /\ setting' = [setting EXCEPT !.tries = @ + 1,
                                  !.pc = IF setting.tries + 1 = Attempts THEN "failed" ELSE @]
    /\ UNCHANGED <<work, perms, copy, quotes, now, seen>>

DroppedSetLands(n) ==
    /\ n \in dropped
    /\ dropped' = dropped \ {n}
    /\ perms' = Upserted(perms, work.sets[n])
    /\ seen' = SeenNow(perms')
    /\ UNCHANGED <<work, copy, setting, quotes, now>>

\* forget_permissions: every copy of the hub goes, if the call arrives.
ForgetPermissions ==
    /\ setting.pc = "forget"
    /\ \/ copy' = [copy EXCEPT ![Setting.to] = [s \in Senders |-> NoCopy]]
       \/ Can("ask") /\ UNCHANGED copy
    /\ setting' = [setting EXCEPT !.pc = "answered"]
    /\ UNCHANGED <<work, perms, dropped, quotes, now, seen>>

-----------------------------------------------------------------------------
(* GET /permissions/quote *)

\* get_recipient_fee: the sender's own row, then the box-wide row, then the
\* default, written as a box-wide row.
QuoteReadsOwn(n) ==
    /\ quotes[n] = "own"
    /\ quotes' = [quotes EXCEPT ![n] =
           IF perms[work.quotes[n].to].by[work.quotes[n].from] # None THEN "answered" ELSE "wide"]
    /\ UNCHANGED <<work, perms, copy, setting, dropped, now, seen>>

QuoteReadsWide(n) ==
    /\ quotes[n] = "wide"
    /\ quotes' = [quotes EXCEPT ![n] =
           IF perms[work.quotes[n].to].wide # <<>> THEN "answered" ELSE "create"]
    /\ UNCHANGED <<work, perms, copy, setting, dropped, now, seen>>

QuoteCreatesDefault(n) ==
    /\ quotes[n] = "create"
    /\ quotes' = [quotes EXCEPT ![n] = "answered"]
    /\ perms' = Upserted(perms, [to |-> work.quotes[n].to, from |-> Anyone, fee |-> DefaultFee])
    /\ seen' = SeenNow(perms')
    /\ UNCHANGED <<work, copy, setting, dropped, now>>

-----------------------------------------------------------------------------
PermissionInit ==
    /\ work \in Works
    /\ perms = [r \in Recipients |-> [by |-> [s \in Senders |-> None], wide |-> <<>>]]
    /\ copy = [r \in Recipients |-> [s \in Senders |-> NoCopy]]
    /\ setting = [n |-> 0, pc |-> "answered", tries |-> 0]
    /\ dropped = {}
    /\ quotes = [n \in DOMAIN work.quotes |-> "own"]
    /\ now = 0
    /\ seen = [t \in 0 .. work.ticks |-> IF t = 0 THEN Answers(perms) ELSE {}]

PermissionStep ==
    \/ SetArrives
    \/ SetPermission
    \/ SetStalls
    \/ \E n \in DOMAIN work.sets : DroppedSetLands(n)
    \/ ForgetPermissions
    \/ \E n \in DOMAIN work.quotes : QuoteReadsOwn(n)
    \/ \E n \in DOMAIN work.quotes : QuoteReadsWide(n)
    \/ \E n \in DOMAIN work.quotes : QuoteCreatesDefault(n)

PermissionTypeOK ==
    /\ work \in Works
    /\ \A r \in Recipients, s \in Senders :
           /\ perms[r].by[s] \in Fees \cup {None}
           /\ perms[r].wide \in Seq(Fees \cup {DefaultFee})
           /\ copy[r][s].at \in {Never} \cup 0 .. now
    /\ setting.n \in 0 .. Len(work.sets)
    /\ setting.pc \in {"write", "forget", "answered", "failed"}
    /\ dropped \subseteq DOMAIN work.sets
    /\ quotes \in [DOMAIN work.quotes -> {"own", "wide", "create", "answered"}]
    /\ now \in 0 .. work.ticks
=============================================================================
