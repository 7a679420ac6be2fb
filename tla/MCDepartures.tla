---------------------------- MODULE MCDepartures ----------------------------
(***************************************************************************)
(* Instances of Departures: a raw socket or two, a socket.io session or    *)
(* two, a game room and a lobby room, and casts that put a few of them and *)
(* of the faults in one behaviour.                                         *)
(***************************************************************************)
EXTENDS Departures

Casting(sessions, rooms, faults) == [sessions |-> sessions, rooms |-> rooms, faults |-> faults]

\* a raw socket and a socket.io session in one room: fan-outs, lost alarms,
\* evictions
OneRoom == Casting({"w1", "e1"}, {"game"}, {"alarm", "restart", "push"})

\* a socket.io session replaced by another, with lost alarms and late events
Replaced == Casting({"e1", "e2"}, {"game"}, {"alarm", "late"})

\* a room the owner may leave cleanly, and storage that fails
LobbyRoom == Casting({"w1", "e1"}, {"lobby"}, {"store"})

\* two rooms of one session, and storage that fails
TwoRooms == Casting({"e1"}, {"game", "lobby"}, {"store"})

\* a raw socket and a socket.io session in a lobby, and fan-outs
PushedLobby == Casting({"w1", "e1"}, {"lobby"}, {"push"})

Flaps == {OneRoom, Replaced, LobbyRoom, TwoRooms, PushedLobby}
=============================================================================
