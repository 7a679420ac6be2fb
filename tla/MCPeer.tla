------------------------------- MODULE MCPeer -------------------------------
(***************************************************************************)
(* PeerTold on small instances: a peer that joins up to twice, and an      *)
(* owner whose sessions replace each other.                                *)
(***************************************************************************)
EXTENDS PeerTold

CastOf(sessions, joins, ticks, faults) ==
    [sessions |-> sessions, joins |-> joins, ticks |-> ticks, faults |-> faults]

\* Calls in order, of two sessions; a raw socket beside a socket.io session;
\* calls that overtake each other or fail, and time.
MCCasts == {CastOf({"io1", "io2"}, 2, 1, {}), CastOf({"ws1", "io1"}, 2, 0, {}),
            CastOf({"io1"}, 2, 2, {"reorder", "fail"}), CastOf({"io1", "io2"}, 1, 2, {"reorder", "fail"})}
=============================================================================
