----------------------------- MODULE MCPingGate -----------------------------
(* A small instance of PingGate.tla: states of charge around the lock.     *)
EXTENDS PingGate

MCSoc == 0 .. 3
=============================================================================
