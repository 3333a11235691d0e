-------------------------------- MODULE Fifo --------------------------------
(***************************************************************************)
(* What an ioqueue promises: bytes come out in the order they went in, none *)
(* lost, none made up, and never more than Capacity of them are inside.     *)
(***************************************************************************)
EXTENDS Naturals, Sequences

CONSTANTS Queue, Byte, Capacity

VARIABLE content    \* the bytes inside each queue, oldest first

FifoInit == content = [q \in Queue |-> <<>>]

Put(q, b) ==
    /\ Len(content[q]) < Capacity
    /\ content' = [content EXCEPT ![q] = Append(@, b)]

Get(q) ==
    /\ content[q] # <<>>
    /\ content' = [content EXCEPT ![q] = Tail(@)]

FifoNext == \E q \in Queue : Get(q) \/ \E b \in Byte : Put(q, b)

FifoSpec == FifoInit /\ [][FifoNext]_content
=============================================================================
