------------------------------ MODULE IOQueue ------------------------------
(***************************************************************************)
(* The ring buffers of device/ioqueue.c in their two uses: kbd_buf, filled  *)
(* by the keyboard interrupt (device/keyboard.c) and read by sys_read on    *)
(* standard input, and a pipe (shell/pipe.c), written and read by processes.*)
(*                                                                         *)
(* Every operation runs in a system call or an interrupt, with interrupts   *)
(* off: a process loses the CPU only where it blocks.  With interrupts off  *)
(* lock_acquire and lock_release are indivisible apart from the wait in     *)
(* sema_down, so a lock is its holder and its waiters.                      *)
(***************************************************************************)
EXTENDS Sched

CONSTANTS
    Byte,         \* what the queues carry
    Key,          \* those of them the keyboard sends
    NULL,         \* no thread
    bufsize,      \* size of the ring (kbd_buf and PIPE_BUF_SIZE)
    MaxCount,     \* bound on the count given to sys_read and sys_write
    KbdReader,    \* processes that read standard input
    PipeWriter,   \* processes that write the pipe
    PipeReader    \* processes that read the pipe

ASSUME QueueAssumption ==
    /\ bufsize \in Nat \ {0, 1}
    /\ MaxCount \in Nat \ {0}
    /\ Key \subseteq Byte
    /\ NULL \notin Thread
    /\ idle_thread \notin KbdReader \cup PipeWriter \cup PipeReader

Queue == {"kbd", "pipe"}
Pos   == 0..(bufsize - 1)

VARIABLES
    buf, head, tail,       \* the ring of each queue
    producer, consumer,    \* who sleeps in ioq_wait
    holder, waiters,       \* ioq->lock
    pc,                    \* where in its system call a process is
    queue,                 \* the queue it works on
    left                   \* bytes it still has to move

ringVars == <<buf, head, tail>>
callVars == <<pc, queue, left>>
ioqVars  == <<schedVars, ringVars, producer, consumer, holder, waiters, callVars>>

PC == {"user", "get", "put", "getlock", "putlock", "getwait", "putwait", "ret"}

----------------------------------------------------------------------------
(* Mutations of the definitions below, used to test the properties.        *)

\* The test for a full ring misses the wrap around at the end of the buffer.
ioq_full_unwrapped(q) == head[q] + 1 = tail[q]

\* wakeup clears the slot but leaves the thread asleep.
AwakenedNot(t) == UNCHANGED schedVars

\* ioq_getchar does not hold the lock while it sleeps.
HoldNothing(q) == UNCHANGED <<holder, waiters>>

\* lock_release wakes every waiter it finds by popping none.
WaitersKept(q) == waiters[q]

----------------------------------------------------------------------------
next_pos(pos) == (pos + 1) % bufsize
ioq_full(q)   == next_pos(head[q]) = tail[q]
ioq_empty(q)  == head[q] = tail[q]
ioq_length(q) == IF head[q] >= tail[q]
                 THEN head[q] - tail[q]
                 ELSE bufsize - (tail[q] - head[q])

\* thread_unblock of the thread in a waiter slot or at the head of a list.
Awaken(t) == thread_unblock(t) /\ UNCHANGED <<ticks, cur, intr, saved>>

\* wakeup: called with the thread in the slot, if there is one.
wakeup(t) == IF t = NULL THEN UNCHANGED schedVars ELSE Awaken(t)

\* The calling process takes the free lock of q.
Hold(q) == holder' = [holder EXCEPT ![q] = cur] /\ UNCHANGED waiters

\* The waiters of q without the one lock_release wakes.
WaitersLeft(q) == Tail(waiters[q])

GoTo(label) == pc' = [pc EXCEPT ![cur] = label] /\ UNCHANGED <<queue, left>>

\* lock_acquire and ioq_wait of ioq_getchar (slot = "get") or ioq_putchar
\* (slot = "put"): with the lock taken the caller puts itself into the slot
\* and sleeps; otherwise it sleeps among the waiters of the lock.  The test
\* of the queue is not repeated once the lock is there.
AcquireAndWait(q, slot) ==
    \/ /\ holder[q] = NULL
       /\ Hold(q)
       /\ IF slot = "get"
          THEN GoTo("getwait") /\ consumer' = [consumer EXCEPT ![q] = cur] /\ UNCHANGED producer
          ELSE GoTo("putwait") /\ producer' = [producer EXCEPT ![q] = cur] /\ UNCHANGED consumer
    \/ /\ holder[q] # NULL
       /\ waiters' = [waiters EXCEPT ![q] = list_append(@, cur)]
       /\ GoTo(IF slot = "get" THEN "getlock" ELSE "putlock")
       /\ UNCHANGED <<holder, producer, consumer>>

\* One turn of the loop of ioq_getchar; after the last byte the call returns.
ioq_getchar ==
    LET q == queue[cur]
    IN  /\ pc[cur] = "get"
        /\ \/ /\ ioq_empty(q)
              /\ AcquireAndWait(q, "get")
              /\ thread_block("TASK_BLOCKED", "INTR_OFF")
              /\ UNCHANGED ringVars
           \/ /\ ~ ioq_empty(q)
              /\ tail' = [tail EXCEPT ![q] = next_pos(@)]
              /\ wakeup(producer[q])
              /\ producer' = [producer EXCEPT ![q] = NULL]
              /\ left' = [left EXCEPT ![cur] = @ - 1]
              /\ pc' = [pc EXCEPT ![cur] = IF left[cur] = 1 THEN "ret" ELSE "get"]
              /\ UNCHANGED <<buf, head, consumer, holder, waiters, queue>>

\* One turn of the loop of ioq_putchar with byte b.
ioq_putchar(b) ==
    LET q == queue[cur]
    IN  /\ pc[cur] = "put"
        /\ \/ /\ ioq_full(q)
              /\ AcquireAndWait(q, "put")
              /\ thread_block("TASK_BLOCKED", "INTR_OFF")
              /\ UNCHANGED ringVars
           \/ /\ ~ ioq_full(q)
              /\ buf' = [buf EXCEPT ![q][head[q]] = b]
              /\ head' = [head EXCEPT ![q] = next_pos(@)]
              /\ wakeup(consumer[q])
              /\ consumer' = [consumer EXCEPT ![q] = NULL]
              /\ left' = [left EXCEPT ![cur] = @ - 1]
              /\ pc' = [pc EXCEPT ![cur] = IF left[cur] = 1 THEN "ret" ELSE "put"]
              /\ UNCHANGED <<tail, producer, holder, waiters, queue>>

\* sema_down woke up inside lock_acquire: it tests the semaphore again.
RetryLock ==
    /\ pc[cur] \in {"getlock", "putlock"}
    /\ AcquireAndWait(queue[cur], IF pc[cur] = "getlock" THEN "get" ELSE "put")
    /\ thread_block("TASK_BLOCKED", "INTR_OFF")
    /\ UNCHANGED ringVars

\* ioq_wait has returned: lock_release, and back to the test of the queue.
ReleaseLock ==
    LET q == queue[cur]
    IN  /\ pc[cur] \in {"getwait", "putwait"}
        /\ holder' = [holder EXCEPT ![q] = NULL]
        /\ \/ /\ waiters[q] = <<>>
              /\ UNCHANGED <<waiters, schedVars>>
           \/ /\ waiters[q] # <<>>
              /\ waiters' = [waiters EXCEPT ![q] = WaitersLeft(q)]
              /\ Awaken(Head(waiters[q]))
        /\ GoTo(IF pc[cur] = "getwait" THEN "get" ELSE "put")
        /\ UNCHANGED <<ringVars, producer, consumer>>

----------------------------------------------------------------------------
\* A process enters the kernel to move n bytes of q through the loop at label;
\* with n = 0 the call returns at once.
Enter(label, q, n) ==
    /\ pc[cur] = "user"
    /\ intr = "INTR_ON"
    /\ pc' = [pc EXCEPT ![cur] = IF n = 0 THEN "ret" ELSE label]
    /\ queue' = [queue EXCEPT ![cur] = q]
    /\ left' = [left EXCEPT ![cur] = n]
    /\ intr' = "INTR_OFF"
    /\ UNCHANGED <<status, ready, ticks, cur, saved>>
    /\ UNCHANGED <<ringVars, producer, consumer, holder, waiters>>

Least(a, b) == IF a < b THEN a ELSE b

\* sys_read on standard input: wait for every byte.
sys_read(count) == cur \in KbdReader /\ Enter("get", "kbd", count)

\* pipe_read: no more than what is in the pipe.
pipe_read(count) ==
    cur \in PipeReader /\ Enter("get", "pipe", Least(count, ioq_length("pipe")))

\* pipe_write: no more than PIPE_BUF_SIZE minus what is in the pipe, which is
\* one byte more than the ring can take.
pipe_write(count) ==
    cur \in PipeWriter /\ Enter("put", "pipe", Least(count, bufsize - ioq_length("pipe")))

\* Return to user mode.
SysReturn ==
    /\ pc[cur] = "ret"
    /\ GoTo("user")
    /\ intr' = "INTR_ON"
    /\ UNCHANGED <<status, ready, ticks, cur, saved>>
    /\ UNCHANGED <<ringVars, producer, consumer, holder, waiters>>

\* A mutation: the interrupt stores the key and leaves the reader waiting.
intr_keyboard_handler_silent(b) ==
    /\ intr = "INTR_ON"
    /\ ~ ioq_full("kbd")
    /\ buf' = [buf EXCEPT !["kbd"][head["kbd"]] = b]
    /\ head' = [head EXCEPT !["kbd"] = next_pos(@)]
    /\ UNCHANGED <<schedVars, tail, consumer, producer, holder, waiters, callVars>>

\* A key arrives while interrupts are on; a full buffer drops it.
intr_keyboard_handler(b) ==
    /\ intr = "INTR_ON"
    /\ ~ ioq_full("kbd")
    /\ buf' = [buf EXCEPT !["kbd"][head["kbd"]] = b]
    /\ head' = [head EXCEPT !["kbd"] = next_pos(@)]
    /\ wakeup(consumer["kbd"])
    /\ consumer' = [consumer EXCEPT !["kbd"] = NULL]
    /\ UNCHANGED <<tail, producer, holder, waiters, callVars>>

IOQInit ==
    /\ SchedInit
    /\ \E b \in Key : buf = [q \in Queue |-> [i \in Pos |-> b]]
    /\ head = [q \in Queue |-> 0]
    /\ tail = [q \in Queue |-> 0]
    /\ producer = [q \in Queue |-> NULL]
    /\ consumer = [q \in Queue |-> NULL]
    /\ holder = [q \in Queue |-> NULL]
    /\ waiters = [q \in Queue |-> <<>>]
    /\ pc = [t \in Thread |-> "user"]
    /\ queue = [t \in Thread |-> "kbd"]
    /\ left = [t \in Thread |-> 0]

Preempt ==
    /\ intr_timer_handler \/ Idle
    /\ UNCHANGED <<ringVars, producer, consumer, holder, waiters, callVars>>

IOQNext ==
    \/ \E n \in 1..MaxCount : sys_read(n) \/ pipe_read(n) \/ pipe_write(n)
    \/ ioq_getchar
    \/ \E b \in Byte : ioq_putchar(b)
    \/ \E b \in Key : intr_keyboard_handler(b)
    \/ RetryLock
    \/ ReleaseLock
    \/ SysReturn
    \/ Preempt

IOQSpec == IOQInit /\ [][IOQNext]_ioqVars

(* Interrupts that stay pending are taken, and the running process goes on   *)
(* with its system call; nobody has to press a key or to start a call.      *)
IOQFairSpec ==
    /\ IOQSpec
    /\ SF_ioqVars(Preempt)
    /\ WF_ioqVars(ioq_getchar \/ RetryLock \/ ReleaseLock \/ SysReturn)
    /\ WF_ioqVars(\E b \in Byte : ioq_putchar(b))

----------------------------------------------------------------------------
\* Every variable has its type; head and tail stay inside the buffer
\* (ioqueue.c:19), and pipe_write asks for at most one byte too many.
IOQTypeOK ==
    /\ head \in [Queue -> Pos] /\ tail \in [Queue -> Pos]
    /\ buf \in [Queue -> [Pos -> Byte]]
    /\ producer \in [Queue -> Thread \cup {NULL}]
    /\ consumer \in [Queue -> Thread \cup {NULL}]
    /\ holder \in [Queue -> Thread \cup {NULL}]
    /\ waiters \in [Queue -> Seq(Thread)]
    /\ pc \in [Thread -> PC]
    /\ queue \in [Thread -> Queue]
    /\ left \in [Thread -> 0..(MaxCount + 1)]

\* A waiter slot names a thread that sleeps in ioq_wait and holds the lock,
\* and both slots are empty while the lock is free or about to be released:
\* the ASSERTs of ioq_wait, wakeup and thread_unblock cannot fail.
WaiterSlotSafe ==
    \A q \in Queue :
        /\ producer[q] = NULL \/ consumer[q] = NULL
        /\ holder[q] = NULL => producer[q] = NULL /\ consumer[q] = NULL
        /\ \A t \in Thread :
              /\ consumer[q] = t => pc[t] = "getwait" /\ queue[t] = q
              /\ producer[q] = t => pc[t] = "putwait" /\ queue[t] = q
              /\ consumer[q] = t \/ producer[q] = t =>
                    status[t] = "TASK_BLOCKED" /\ holder[q] = t
              /\ pc[t] \in {"getwait", "putwait"} /\ status[t] = "TASK_BLOCKED" =>
                    t \in {consumer[queue[t]], producer[queue[t]]}

\* The lock of a queue: its waiters sleep in lock_acquire, and a free lock
\* with waiters has one on its way to take it (ioqueue.c:49, 67).
LockWaitersServed ==
    \A q \in Queue :
        /\ \A t \in Thread : elem_find(waiters[q], t) =>
              status[t] = "TASK_BLOCKED" /\ pc[t] \in {"getlock", "putlock"} /\ queue[t] = q
        /\ holder[q] = NULL /\ waiters[q] # <<>> =>
              \E t \in Thread : /\ pc[t] \in {"getlock", "putlock"}
                                /\ queue[t] = q
                                /\ status[t] # "TASK_BLOCKED"

\* The one reader of the keyboard sleeps only while no key is there: the key
\* that arrives between its test and its sleep is not missed, since both are
\* done with interrupts off (ioqueue.c:48-50, keyboard.c:158).
NoMissedKey == consumer["kbd"] # NULL => ioq_empty("kbd")

\* The bytes inside the ring of q, oldest first.
Contents(q) == [i \in 1..ioq_length(q) |-> buf[q][(tail[q] + i - 1) % bufsize]]

\* Both queues are first-in first-out and hold at most bufsize - 1 bytes.
Ring == INSTANCE Fifo WITH
            Capacity <- bufsize - 1,
            content  <- [q \in Queue |-> Contents(q)]
RingIsFifo == Ring!FifoSpec

\* A key that has arrived is read by the process that waits for it.
KeyIsRead == \A t \in KbdReader :
    (pc[t] \in {"get", "getwait"} /\ queue[t] = "kbd" /\ ~ ioq_empty("kbd"))
        ~> (pc[t] = "ret" \/ ioq_empty("kbd"))
=============================================================================
