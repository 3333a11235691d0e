------------------------------- MODULE MCSync -------------------------------
(* Sync on three threads that contend for one recursive lock.               *)
EXTENDS Sync

CONSTANTS idle, main, p1, p2

MCThread    == {idle, main, p1, p2}
MCPriority  == [t \in MCThread |-> 1]
MCBootReady == <<p1, idle, p2>>
=============================================================================
