------------------------------ MODULE MCMemory ------------------------------
(* Four addresses, two frames and arenas of two blocks: arenas fill up,     *)
(* empty and are given back, and addresses and frames run out, in both      *)
(* orders.  A process, which uses the whole interface, runs beside main,    *)
(* which is preempted anywhere.                                             *)
EXTENDS Memory

CONSTANTS process, main

\* Bound: what follows a collision is not explored; the state in which it
\* happens is still checked.
Untorn == ~ torn
=============================================================================
