------------------------------ MODULE MCSignal ------------------------------
(* Two PCBs: a process and its children, one after the other.              *)
EXTENDS Signal

CONSTANTS p1, p2, f1
=============================================================================
