------------------------------ MODULE SoftIrq ------------------------------
(***************************************************************************)
(* The receive path of the network: the NIC and its interrupt               *)
(* (network/ne2000.c), the softirq queue and the ksoftirqd thread           *)
(* (thread/ksoftirqd.c, lib/kernel/queue.c), the pool of message buffers    *)
(* (network/socket.c) and what the protocols do with a frame                *)
(* (network/ethernet.c, network.c, transport.c), as far as it decides the   *)
(* fate of the buffer.                                                     *)
(*                                                                         *)
(* ksoftirqd runs with interrupts on, also while ne2000_recv has register    *)
(* page 1 of the NIC selected, where the handler of the NIC's interrupt     *)
(* finds CURR in place of the ISR.  No system call opens a socket yet       *)
(* (sys_socket is not in the syscall table), so nothing is queued to be     *)
(* sent and nobody listens; IP fragments are left out.                     *)
(***************************************************************************)
EXTENDS Sched, FiniteSets

CONSTANTS
    ksoftirqd_thread,
    QueueSize,    \* size of softirq_queue
    Message,      \* the buffers of msg_init
    FrameMax      \* frames the receive ring of the NIC can hold

ASSUME SoftIrqAssumption ==
    /\ ksoftirqd_thread \in Thread \ {idle_thread, main_thread}
    /\ elem_find(BootReady, ksoftirqd_thread)
    /\ QueueSize \in Nat \ {0, 1}
    /\ FrameMax \in Nat \ {0}
    /\ Message # {} /\ IsFiniteSet(Message)

(* What a frame turns out to be when ksoftirqd reads it: an ARP request for  *)
(* this host, an ARP reply, an echo request, a TCP or UDP segment,          *)
(* something whose handler sets no status (an echo reply, an unknown IP     *)
(* protocol, ARP for another protocol than IPv4), anything else.            *)
Frame == {"arp", "reply", "ping", "segment", "silent", "other"}

VARIABLES
    irqs,      \* NET_RX entries in softirq_queue
    frames,    \* frames in the receive ring of the NIC, from BNRY to CURR
    prx, ptx,  \* bits of its ISR: received; transmitted or overwritten
    irr,       \* the PIC has latched the NIC's interrupt request
    inirq,     \* intr_network_handler has read the ISR and not yet cleared it
    clobbered, \* CURR has been overwritten with 0xff
    stale,     \* history: a page that holds no frame has been received
    kpc,       \* where ksoftirqd is
    seen,      \* ne2000_recv has read a CURR that differs from BNRY
    msg,       \* its message
    free,      \* msg_free_list, as its head and next pointers link it
    waitarp    \* the last message linked into msg_waitarp_list, if any

netVars == <<irqs, frames, prx, ptx, irr, inirq, clobbered, stale,
             kpc, seen, msg, free, waitarp>>
softVars == <<schedVars, netVars>>

KPC == {"test", "sleep", "get", "rx", "starved", "recv", "curr", "page0", "astray"}

k == ksoftirqd_thread

----------------------------------------------------------------------------
(* Mutations of the definitions below, used to test the properties.        *)

\* Every interrupt of the NIC counts as a received frame.
PacketReceivedAlways == {TRUE}

\* softirq_queue_put does not wake ksoftirqd.
WakeNever == UNCHANGED schedVars

\* The buffer stays in the free list while it is used.
FreePopped == free

----------------------------------------------------------------------------
queue_empty == irqs = 0
queue_full  == irqs = QueueSize - 1

\* ne2000_recv has page 1 of the registers selected.
Page1 == kpc \in {"curr", "page0"}

\* Bit 0 of what the handler reads at the port of the ISR: PRX, or a bit of CURR.
PacketReceived == IF Page1 THEN BOOLEAN ELSE {prx}

\* The NIC sets a bit of its ISR: the PIC is edge triggered and latches a
\* request only when no bit was set before.
Raise == irr' = (irr \/ ~ (prx \/ ptx))

\* softirq_queue_put, second half: wake ksoftirqd if it sleeps.
WakeKsoftirqd ==
    IF status[k] = "TASK_WAITING"
    THEN thread_unblock(k) /\ UNCHANGED <<ticks, cur, intr, saved>>
    ELSE UNCHANGED schedVars

\* softirq_queue_put(NET_RX): a full queue drops the entry.
softirq_queue_put ==
    /\ irqs' = IF queue_full THEN irqs ELSE irqs + 1
    /\ WakeKsoftirqd

\* intr_network_handler reads the ISR of the NIC ...
intr_network_handler ==
    /\ intr = "INTR_ON"
    /\ irr
    /\ ~ inirq
    /\ irr' = FALSE
    /\ inirq' = TRUE
    /\ \E bit \in PacketReceived :
          IF bit THEN softirq_queue_put ELSE UNCHANGED <<irqs, schedVars>>
    /\ UNCHANGED <<frames, prx, ptx, clobbered, stale, kpc, seen, msg, free, waitarp>>

\* ... and clears all of it, the bits set in the meantime included; with page 1
\* selected it overwrites CURR instead, and the ISR keeps its bits.
clear_isr ==
    /\ inirq
    /\ inirq' = FALSE
    /\ prx' = (Page1 /\ prx)
    /\ ptx' = (Page1 /\ ptx)
    /\ clobbered' = (clobbered \/ Page1)
    /\ UNCHANGED <<schedVars, irqs, frames, irr, stale, kpc, seen, msg, free, waitarp>>

\* The NIC receives a frame at any time; it drops what its ring cannot hold, which
\* raises an interrupt too (IMR is 0xff).  With CURR outside of the ring there
\* is no room at all.
FrameArrives ==
    /\ Raise
    /\ \/ /\ frames < FrameMax /\ ~ clobbered
          /\ frames' = frames + 1
          /\ prx' = TRUE
          /\ UNCHANGED ptx
       \/ /\ frames = FrameMax \/ clobbered
          /\ ptx' = TRUE
          /\ UNCHANGED <<frames, prx>>
    /\ UNCHANGED <<schedVars, irqs, inirq, clobbered, stale, kpc, seen, msg, free, waitarp>>

----------------------------------------------------------------------------
\* ksoftirqd runs, with interrupts on and no handler on top of it.
KRunning == cur = k /\ ~ inirq

\* The test of the loop; the interrupt may come right after it.
TestQueue ==
    /\ KRunning
    /\ kpc = "test"
    /\ kpc' = IF queue_empty THEN "sleep" ELSE "get"
    /\ UNCHANGED <<schedVars, irqs, frames, prx, ptx, irr, inirq, clobbered, stale,
                   seen, msg, free, waitarp>>

\* noirq_to_solve, in the loop and when there is no buffer.
noirq_to_solve ==
    /\ KRunning
    /\ kpc \in {"sleep", "starved"}
    /\ thread_block("TASK_WAITING", intr)
    /\ kpc' = IF kpc = "sleep" THEN "test" ELSE "rx"
    /\ UNCHANGED <<irqs, frames, prx, ptx, irr, inirq, clobbered, stale,
                   seen, msg, free, waitarp>>

\* queue_get, with interrupts off.
queue_get ==
    /\ KRunning
    /\ kpc = "get"
    /\ irqs' = irqs - 1
    /\ kpc' = "rx"
    /\ UNCHANGED <<schedVars, frames, prx, ptx, irr, inirq, clobbered, stale,
                   seen, msg, free, waitarp>>

\* The free list without the buffer that get_message_from_list pops.
Popped == Tail(free)

get_message_from_list ==
    /\ KRunning
    /\ kpc = "rx"
    /\ \/ free = <<>> /\ kpc' = "starved" /\ UNCHANGED <<free, msg>>
       \/ free # <<>> /\ kpc' = "recv" /\ msg' = Head(free) /\ free' = Popped
    /\ UNCHANGED <<schedVars, irqs, frames, prx, ptx, irr, inirq, clobbered, stale,
                   seen, waitarp>>

\* ne2000_recv selects page 1 ...
SelectPage1 ==
    /\ KRunning
    /\ kpc = "recv"
    /\ kpc' = "curr"
    /\ UNCHANGED <<schedVars, irqs, frames, prx, ptx, irr, inirq, clobbered, stale,
                   seen, msg, free, waitarp>>

\* ... reads CURR, to compare it with BNRY ...
ReadCurr ==
    /\ KRunning
    /\ kpc = "curr"
    /\ kpc' = "page0"
    /\ seen' = (frames # 0 \/ clobbered)
    /\ UNCHANGED <<schedVars, irqs, frames, prx, ptx, irr, inirq, clobbered, stale,
                   msg, free, waitarp>>

(* message_free; and message_free of a message that ip_send has just linked *)
(* into msg_waitarp_list.  Both lists use the one tag of a message: linking *)
(* it there made it the successor of the message linked there before, and   *)
(* if that one is in the free list, what came behind it is cut off.         *)
message_free == free' = Append(free, msg)

LinkedTwice ==
    LET before == {i \in 1..Len(free) : free[i] \in waitarp}
    IN  /\ waitarp' = {msg}
        /\ free' = IF before = {} THEN Append(free, msg)
                   ELSE Append(SubSeq(free, 1, CHOOSE i \in before : TRUE), msg)

\* ethernet_send: the NIC reports the end of the transmission.
Transmit == ptx' = TRUE /\ Raise

(* What the protocols do with f, and ksoftirqd with the status they leave:   *)
(* STATUS_FREEMSG frees the buffer, STATUS_DELIVER without a listener and    *)
(* STATUS_NOTASK lose it.                                                   *)
Protocols(f) ==
    \/ /\ f = "arp"                               \* arp_recv answers
       /\ Transmit
       /\ message_free
       /\ kpc' = "test"
       /\ UNCHANGED waitarp
    \/ /\ f = "reply" /\ waitarp = {}
       /\ message_free
       /\ kpc' = "test"
       /\ UNCHANGED <<ptx, irr, waitarp>>
    \/ /\ f = "reply" /\ waitarp # {}             \* list_traversal leaves
       /\ kpc' = "astray"                         \* msg_waitarp_list by the
       /\ UNCHANGED <<free, ptx, irr, waitarp>>   \* tail of msg_free_list
    \/ /\ f = "ping"                              \* icmp_recv answers, and sets
       /\ Transmit                                \* STATUS_FREEMSG, also when
       /\ \/ message_free /\ UNCHANGED waitarp    \* ip_send does not know the
          \/ LinkedTwice                          \* host and asks for it
       /\ kpc' = "test"
    \/ /\ f \in {"segment", "silent"}
       /\ kpc' = "test"
       /\ UNCHANGED <<free, ptx, irr, waitarp>>
    \/ /\ f = "other"
       /\ message_free
       /\ kpc' = "test"
       /\ UNCHANGED <<ptx, irr, waitarp>>

(* ... and, back on page 0, returns 0 and leaves the buffer as it was, or   *)
(* copies the frame at BNRY: what an earlier round of the ring left there   *)
(* if there is none.  An interrupt during the rest of ethernet_recv changes *)
(* nothing that it uses.                                                    *)
ethernet_recv ==
    /\ KRunning
    /\ kpc = "page0"
    /\ \E f \in Frame : Protocols(f)
    /\ frames' = IF seen /\ frames # 0 THEN frames - 1 ELSE frames
    /\ stale' = (stale \/ frames = 0)
    /\ seen' = FALSE
    /\ UNCHANGED <<schedVars, irqs, prx, inirq, clobbered, msg>>

Ksoftirqd ==
    \/ TestQueue \/ noirq_to_solve \/ queue_get
    \/ get_message_from_list \/ SelectPage1 \/ ReadCurr \/ ethernet_recv

SoftPreempt ==
    /\ ~ inirq
    /\ intr_timer_handler \/ Idle
    /\ UNCHANGED netVars

SoftInit ==
    /\ SchedInit
    /\ irqs = 0
    /\ frames = 0
    /\ prx = FALSE /\ ptx = FALSE /\ irr = FALSE /\ inirq = FALSE
    /\ clobbered = FALSE /\ stale = FALSE
    /\ kpc = "test" /\ seen = FALSE
    /\ free = CHOOSE s \in [1..Cardinality(Message) -> Message] : NoDup(s)
    /\ msg = free[1]
    /\ waitarp = {}

SoftNext ==
    \/ intr_network_handler
    \/ clear_isr
    \/ FrameArrives
    \/ Ksoftirqd
    \/ SoftPreempt

SoftSpec == SoftInit /\ [][SoftNext]_softVars

(* Pending interrupts are taken and threads go on; frames need not arrive.   *)
SoftFairSpec ==
    /\ SoftSpec
    /\ SF_softVars(SoftPreempt)
    /\ SF_softVars(intr_network_handler)
    /\ WF_softVars(clear_isr)
    /\ SF_softVars(Ksoftirqd)

----------------------------------------------------------------------------
\* Every variable has its type; the softirq queue never holds more than its
\* ring can (queue.c:28), and a full NIC ring drops what it cannot hold.
SoftTypeOK ==
    /\ irqs \in 0..(QueueSize - 1)
    /\ frames \in 0..FrameMax
    /\ prx \in BOOLEAN /\ ptx \in BOOLEAN /\ irr \in BOOLEAN /\ inirq \in BOOLEAN
    /\ clobbered \in BOOLEAN /\ stale \in BOOLEAN
    /\ kpc \in KPC /\ seen \in BOOLEAN
    /\ msg \in Message
    /\ free \in Seq(Message)
    /\ waitarp \in SUBSET Message

\* The entry ksoftirqd works on.
InHand == IF kpc \in {"rx", "starved", "recv"} \/ Page1 THEN 1 ELSE 0

\* The entry that a handler may have queued because it took a bit of CURR for
\* PRX; it is gone once it has made ksoftirqd receive what is not a frame.
Misread == IF (clobbered \/ (inirq /\ Page1)) /\ ~ stale THEN 1 ELSE 0

\* The NIC holds a frame for every NET_RX that is queued or in hand, however
\* interrupts are merged or dropped, but for at most one, ever, and that one
\* only if an interrupt has found page 1 selected (ne2000.c:217-219).  So
\* ne2000_recv never returns 0, which ethernet_recv would take for 65532 bytes
\* of an old frame (ethernet.c:43), and never resets the ring (ne2000.c:226).
ReceiveFindsFrame ==
    /\ irqs + InHand <= frames + Misread
    /\ kpc = "page0" => seen
    /\ stale => clobbered /\ irqs + InHand = 0

\* A buffer is in the free list at most once and never while it is filled,
\* although icmp_recv frees messages that are linked into msg_waitarp_list
\* (transport.c:77): that loses buffers, it does not hand one out twice.
BufferNotShared ==
    /\ NoDup(free)
    /\ kpc \in {"recv", "curr", "page0", "astray"} => ~ elem_find(free, msg)

\* A frame that arrives while ksoftirqd sleeps, for want of work or of a
\* buffer, makes it receive one or ask for a buffer again, even if the softirq
\* queue was full (ksoftirqd.c:25: the wake-up does not depend on queue_put),
\* unless an interrupt has overwritten CURR: then the ISR is never cleared
\* again (ne2000.c:122) and the edge triggered PIC sees no further request.
SleeperWoken ==
    (status[k] = "TASK_WAITING" /\ prx /\ ~ inirq /\ ~ clobbered) ~> (kpc = "rx" /\ cur = k)

\* ksoftirqd sleeps in its loop only when no softirq is queued
\* (ksoftirqd.c:46: "if no softirq needs to solve, schedule").
SleepsOnlyIdle == kpc = "test" /\ status[k] = "TASK_WAITING" => queue_empty
=============================================================================
