------------------------------ MODULE MCHeartbeat ------------------------------
(***************************************************************************)
(* Heartbeat on small instances.  A tick stands for about two seconds:     *)
(* interval 12, timeout 10, and a client that nudges a ping 4 late.        *)
(***************************************************************************)
EXTENDS Heartbeat
=============================================================================
