------------------------------ MODULE MCSched ------------------------------
(* Sched on a small instance: the boot threads and one that is forked.      *)
EXTENDS Sched

CONSTANTS idle, main, p1, p2

MCThread    == {idle, main, p1, p2}
MCPriority  == [t \in MCThread |-> IF t = p1 THEN 2 ELSE 1]
MCBootReady == <<p1, idle>>
=============================================================================
