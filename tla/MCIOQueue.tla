----------------------------- MODULE MCIOQueue -----------------------------
(* One reader of the keyboard that also writes the pipe, a second writer    *)
(* that competes with it for the pipe's lock, and a reader of the pipe.     *)
EXTENDS IOQueue

CONSTANTS idle, p1, p2, p3

MCThread    == {idle, p1, p2, p3}
MCPriority  == [t \in MCThread |-> 1]
MCBootReady == <<p2, idle, p3>>
=============================================================================
