----------------------------- MODULE MCSoftIrq -----------------------------
(* ksoftirqd, the idle thread and one process that is always ready to run.   *)
EXTENDS SoftIrq

CONSTANTS idle, ksoftirqd, p1

MCThread    == {idle, ksoftirqd, p1}
MCPriority  == [t \in MCThread |-> 1]
MCBootReady == <<idle, ksoftirqd>>
=============================================================================
