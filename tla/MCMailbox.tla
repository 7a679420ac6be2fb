------------------------------ MODULE MCMailbox ------------------------------
(* One hub, asked anything: two ids, a short and a long body, bounds that    *)
(* two short rows or one long row meet, one row replayed per request.        *)
EXTENDS Mailbox

MCBodies == {"short", "long"}
MCSizeOf == [b \in MCBodies |-> IF b = "short" THEN 1 ELSE 3]
=============================================================================
