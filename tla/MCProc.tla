------------------------------- MODULE MCProc -------------------------------
(* init and three more process PCBs, so that a parent exits before its child,  *)
(* a PCB and a pid are used again, and fork runs out of PCBs.               *)
EXTENDS Proc

CONSTANTS idle, main, init, p1, p2, p3

MCThread    == {idle, main, init, p1, p2, p3}
MCPriority  == [t \in MCThread |-> 1]
MCBootReady == <<init, idle>>
=============================================================================
