------------------------------- MODULE MCIde -------------------------------
(* main and two processes on a disk that takes data at once, and main and    *)
(* one process on a slow disk, beside a process that computes.               *)
EXTENDS Ide

CONSTANTS idle, main, p, q

MCThread    == {idle, main, p, q}
MCPriority  == [t \in MCThread |-> 1]
MCBootReady == <<idle, p, q>>
MCMachines  == {[quick |-> TRUE, users |-> {main, p, q}, commands |-> 1],
                [quick |-> FALSE, users |-> {main, p}, commands |-> 2]}
=============================================================================
