------------------------------- MODULE MCSession -------------------------------
(***************************************************************************)
(* EngineSession on small instances.  Each workload spends what one hard   *)
(* case needs: rounds over both transports past the cap, an attach against *)
(* a handshake, frames and deliveries across evictions, HTTP counters out  *)
(* of order in either hub while the lane expires and the socket closes.    *)
(***************************************************************************)
EXTENDS EngineSession

Nothing == [rounds |-> 0, generals |-> 0, upgrade |-> 1, asks |-> 0, attach |-> 0, events |-> 0,
            byes |-> 0, closes |-> 0, deliveries |-> 0, https |-> 0, evicts |-> 0, ticks |-> 0]

Handshakes == [store |-> "kv", left |-> [Nothing EXCEPT !.rounds = 4, !.generals = 1, !.asks = 2,
                                            !.evicts = 1]]
Races == [store |-> "kv", left |-> [Nothing EXCEPT !.rounds = 2, !.asks = 2, !.attach = 2,
                                       !.evicts = 2, !.byes = 1, !.closes = 1]]
Frames == [store |-> "kv", left |-> [Nothing EXCEPT !.attach = 1, !.events = 3,
                                        !.deliveries = 1, !.evicts = 2]]
Https == {[store |-> s, left |-> [Nothing EXCEPT !.attach = 1, !.events = 2, !.https = 2,
                                     !.closes = 1]] : s \in {"kv", "sql"}}
Clocks == [store |-> "kv", left |-> [Nothing EXCEPT !.attach = 1, !.events = 2, !.https = 2,
                                        !.ticks = 3]]
Orders == [store |-> "kv", left |-> [Nothing EXCEPT !.attach = 1, !.events = 1, !.https = 5]]

MCWorkloads == {Handshakes, Races, Frames, Clocks, Orders} \cup Https
=============================================================================
