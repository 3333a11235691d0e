--------------------------- MODULE IOQueueProofs ---------------------------
(***************************************************************************)
(* Proofs for IOQueue, for any number of processes, any size of the ring    *)
(* and any counts: the waiter slots and the lock of a queue, the reader of  *)
(* the keyboard, and that a ring is a first-in first-out queue.             *)
(***************************************************************************)
EXTENDS IOQueue, SchedProofs

Locking == {"getlock", "putlock"}
Waiting == {"getwait", "putwait"}

\* The idle thread makes no system call, and a call that is under way still
\* has a byte to move.
CallsInv ==
    /\ pc[idle_thread] = "user"
    /\ \A t \in Thread : pc[t] \notin {"user", "ret"} => left[t] > 0

\* The holder of the lock of a queue is the one thread inside ioq_wait.
HolderInv ==
    /\ \A t \in Thread : pc[t] \in Waiting => holder[queue[t]] = t
    /\ \A q \in Queue : holder[q] # NULL => pc[holder[q]] \in Waiting /\ queue[holder[q]] = q

\* A thread is linked once into the waiters of a lock.
WaitersOnce == \A q \in Queue : NoDup(waiters[q])

LockInv == HolderInv /\ WaiterSlotSafe /\ WaitersOnce /\ LockWaitersServed
RingInv == IOQTypeOK /\ CallsInv
IOQInv  == SchedInv /\ RingInv /\ LockInv

----------------------------------------------------------------------------
(* Arithmetic of the ring.                                                  *)

\* A position taken modulo the size of the buffer wraps around at most once.
LEMMA Wrap ==
    ASSUME NEW a \in Nat, a < 2 * bufsize
    PROVE  a % bufsize = IF a < bufsize THEN a ELSE a - bufsize
<1>1. bufsize \in Nat /\ bufsize > 1
  BY QueueAssumption
<1>2. CASE a < bufsize
  BY <1>1, <1>2
<1>3. CASE a >= bufsize
  BY <1>1, <1>3
<1> QED BY <1>1, <1>2, <1>3

LEMMA NextPos ==
    ASSUME NEW i \in Pos
    PROVE  /\ next_pos(i) \in Pos
           /\ next_pos(i) = IF i = bufsize - 1 THEN 0 ELSE i + 1
<1>1. bufsize \in Nat /\ bufsize > 1 /\ i \in Nat /\ i < bufsize
  BY QueueAssumption DEF Pos
<1>2. PICK a : a = i + 1
  OBVIOUS
<1>3. a \in Nat /\ a < 2 * bufsize
  BY <1>1, <1>2
<1>4. next_pos(i) = IF a < bufsize THEN a ELSE a - bufsize
  BY <1>2, <1>3, Wrap DEF next_pos
<1> QED BY <1>1, <1>2, <1>4 DEF Pos

\* How many bytes a ring holds.
LEMMA LengthLemma ==
    ASSUME head \in [Queue -> Pos], tail \in [Queue -> Pos], NEW q \in Queue
    PROVE  ioq_length(q) \in 0..(bufsize - 1)
<1>1. bufsize \in Nat /\ bufsize > 1 /\ head[q] \in 0..(bufsize - 1) /\ tail[q] \in 0..(bufsize - 1)
  BY QueueAssumption DEF Pos
<1> QED BY <1>1 DEF ioq_length

----------------------------------------------------------------------------
LEMMA IOQInitLemma == IOQInit => IOQInv
<1> SUFFICES ASSUME IOQInit PROVE IOQInv
  OBVIOUS
<1> USE ThreadAssumption, QueueAssumption
<1>1. SchedInv
  BY InitLemma DEF IOQInit
<1>2. RingInv
  <2>1. 0 \in Pos
    BY DEF Pos
  <2>2. 0 \in 0..(MaxCount + 1)
    OBVIOUS
  <2>3. buf \in [Queue -> [Pos -> Byte]]
    BY DEF IOQInit
  <2>4. waiters \in [Queue -> Seq(Thread)]
    BY DEF IOQInit
  <2>5. "kbd" \in Queue /\ "user" \in PC
    BY DEF Queue, PC
  <2>6. IOQTypeOK
    BY <2>1, <2>2, <2>3, <2>4, <2>5 DEF IOQInit, IOQTypeOK
  <2> QED BY <2>6 DEF IOQInit, RingInv, CallsInv
<1>3. LockInv
  <2>1. \A q \in Queue : waiters[q] = <<>> /\ holder[q] = NULL /\ producer[q] = NULL /\ consumer[q] = NULL
    BY DEF IOQInit
  <2>2. \A t \in Thread : pc[t] = "user"
    BY DEF IOQInit
  <2>3. NULL \notin Thread
    OBVIOUS
  <2> QED BY <2>1, <2>2, <2>3
          DEF LockInv, HolderInv, WaiterSlotSafe, WaitersOnce, LockWaitersServed,
              Waiting, NoDup, elem_find
<1> QED BY <1>1, <1>2, <1>3 DEF IOQInv

----------------------------------------------------------------------------
(* Every step is a step of Sched or leaves the scheduler alone.             *)

\* What the running thread is, and whom a slot or a list of waiters names.
LEMMA Sleepers ==
    ASSUME IOQInv
    PROVE  /\ cur \in Thread /\ status[cur] = "TASK_RUNNING"
           /\ \A q \in Queue :
                 /\ producer[q] # NULL => /\ producer[q] \in Thread \ {cur, idle_thread}
                                          /\ status[producer[q]] = "TASK_BLOCKED"
                 /\ consumer[q] # NULL => /\ consumer[q] \in Thread \ {cur, idle_thread}
                                          /\ status[consumer[q]] = "TASK_BLOCKED"
                 /\ waiters[q] # <<>> => /\ Head(waiters[q]) \in Thread \ {cur, idle_thread}
                                         /\ status[Head(waiters[q])] = "TASK_BLOCKED"
                                         /\ pc[Head(waiters[q])] \in Locking
                                         /\ queue[Head(waiters[q])] = q
<1>1. cur \in Thread /\ status[cur] = "TASK_RUNNING"
  BY DEF IOQInv, SchedInv, SchedTypeOK, ReadyExact
<1>2. pc[idle_thread] = "user"
  BY DEF IOQInv, RingInv, CallsInv
<1> SUFFICES ASSUME NEW q \in Queue
             PROVE  /\ producer[q] # NULL => /\ producer[q] \in Thread \ {cur, idle_thread}
                                             /\ status[producer[q]] = "TASK_BLOCKED"
                    /\ consumer[q] # NULL => /\ consumer[q] \in Thread \ {cur, idle_thread}
                                             /\ status[consumer[q]] = "TASK_BLOCKED"
                    /\ waiters[q] # <<>> => /\ Head(waiters[q]) \in Thread \ {cur, idle_thread}
                                            /\ status[Head(waiters[q])] = "TASK_BLOCKED"
                                            /\ pc[Head(waiters[q])] \in Locking
                                            /\ queue[Head(waiters[q])] = q
  BY <1>1
<1>3. /\ producer[q] \in Thread \cup {NULL} /\ consumer[q] \in Thread \cup {NULL}
      /\ waiters[q] \in Seq(Thread) /\ NoDup(waiters[q])
  BY DEF IOQInv, RingInv, LockInv, IOQTypeOK, WaitersOnce
<1>4. \A t \in Thread :
         /\ consumer[q] = t => pc[t] = "getwait" /\ status[t] = "TASK_BLOCKED"
         /\ producer[q] = t => pc[t] = "putwait" /\ status[t] = "TASK_BLOCKED"
         /\ elem_find(waiters[q], t) =>
               status[t] = "TASK_BLOCKED" /\ pc[t] \in Locking /\ queue[t] = q
  BY DEF IOQInv, LockInv, WaiterSlotSafe, LockWaitersServed, Locking
<1>5. waiters[q] # <<>> => Head(waiters[q]) \in Thread /\ elem_find(waiters[q], Head(waiters[q]))
  BY <1>3, PopLemma
<1> QED BY <1>1, <1>2, <1>3, <1>4, <1>5 DEF Locking

LEMMA IOQSchedStep == IOQInv /\ [IOQNext]_ioqVars => [SchedNext]_schedVars
<1> SUFFICES ASSUME IOQInv, [IOQNext]_ioqVars PROVE SchedNext \/ UNCHANGED schedVars
  OBVIOUS
<1> USE ThreadAssumption, QueueAssumption
<1>0. /\ cur \in Thread /\ queue[cur] \in Queue /\ "kbd" \in Queue
      /\ pc[cur] # "user" => cur # idle_thread
      /\ intr \in IntrStatus
  BY Sleepers DEF IOQInv, RingInv, IOQTypeOK, CallsInv, SchedInv, SchedTypeOK, Queue
<1>1. ASSUME NEW t, t \in Thread \ {cur, idle_thread}, status[t] = "TASK_BLOCKED", Awaken(t)
      PROVE  SchedNext
  BY <1>1 DEF Awaken, SchedNext, Unblock, Stopped
<1>2. ASSUME cur # idle_thread, thread_block("TASK_BLOCKED", "INTR_OFF")
      PROVE  SchedNext
  <2>1. Block("TASK_BLOCKED", "INTR_OFF")
    BY <1>2 DEF Block, Stopped
  <2> QED BY <2>1 DEF SchedNext, Stopped, IntrStatus
<1>3. CASE \E n \in 1..MaxCount : sys_read(n) \/ pipe_read(n) \/ pipe_write(n)
  <2>1. IntrDisable
    BY <1>3 DEF sys_read, pipe_read, pipe_write, Enter, IntrDisable
  <2> QED BY <2>1 DEF SchedNext
<1>4. CASE ioq_getchar
  <2>1. CASE thread_block("TASK_BLOCKED", "INTR_OFF")
    BY <1>0, <1>2, <1>4, <2>1 DEF ioq_getchar
  <2>2. CASE wakeup(producer[queue[cur]])
    BY <1>0, <1>1, <2>2, Sleepers DEF wakeup
  <2> QED BY <1>4, <2>1, <2>2 DEF ioq_getchar
<1>5. CASE \E b \in Byte : ioq_putchar(b)
  <2>1. CASE thread_block("TASK_BLOCKED", "INTR_OFF")
    BY <1>0, <1>2, <1>5, <2>1 DEF ioq_putchar
  <2>2. CASE wakeup(consumer[queue[cur]])
    BY <1>0, <1>1, <2>2, Sleepers DEF wakeup
  <2> QED BY <1>5, <2>1, <2>2 DEF ioq_putchar
<1>6. CASE \E b \in Key : intr_keyboard_handler(b)
  BY <1>0, <1>1, <1>6, Sleepers DEF wakeup, intr_keyboard_handler
<1>7. CASE RetryLock
  BY <1>0, <1>2, <1>7 DEF RetryLock
<1>8. CASE ReleaseLock
  BY <1>0, <1>1, <1>8, Sleepers DEF ReleaseLock
<1>9. CASE SysReturn
  <2>1. IntrEnable \/ UNCHANGED schedVars
    BY <1>0, <1>9 DEF SysReturn, IntrEnable, IntrStatus, schedVars
  <2> QED BY <2>1 DEF SchedNext
<1>10. CASE Preempt
  BY <1>10 DEF Preempt, SchedNext
<1>11. CASE UNCHANGED ioqVars
  BY <1>11 DEF ioqVars
<1> QED BY <1>3, <1>4, <1>5, <1>6, <1>7, <1>8, <1>9, <1>10, <1>11 DEF IOQNext

----------------------------------------------------------------------------
(* Types and counts, one step per action.                                   *)

\* lock_acquire and the sleep after it keep the types.
LEMMA AcquireRing ==
    ASSUME RingInv, cur \in Thread \ {idle_thread}, NEW q \in Queue, NEW slot \in {"get", "put"},
           pc[cur] \notin {"user", "ret"}, AcquireAndWait(q, slot), UNCHANGED ringVars
    PROVE  RingInv'
<1>1. /\ pc' \in [Thread -> PC] /\ queue' = queue /\ left' = left
      /\ \A t \in Thread : t # cur => pc'[t] = pc[t]
  BY DEF RingInv, IOQTypeOK, AcquireAndWait, GoTo, PC
<1>2. holder' \in [Queue -> Thread \cup {NULL}]
  BY DEF RingInv, IOQTypeOK, AcquireAndWait, Hold
<1>3. /\ producer' \in [Queue -> Thread \cup {NULL}]
      /\ consumer' \in [Queue -> Thread \cup {NULL}]
  BY DEF RingInv, IOQTypeOK, AcquireAndWait
<1>4. waiters' \in [Queue -> Seq(Thread)]
  <2>1. waiters[q] \in Seq(Thread) /\ Append(waiters[q], cur) \in Seq(Thread)
    BY DEF RingInv, IOQTypeOK
  <2>2. waiters' = waiters \/ waiters' = [waiters EXCEPT ![q] = Append(waiters[q], cur)]
    BY DEF AcquireAndWait, Hold, list_append
  <2> QED BY <2>1, <2>2 DEF RingInv, IOQTypeOK
<1>5. IOQTypeOK'
  BY <1>1, <1>2, <1>3, <1>4 DEF RingInv, IOQTypeOK, ringVars
<1>6. CallsInv'
  BY <1>1, ThreadAssumption DEF RingInv, CallsInv
<1> QED BY <1>5, <1>6 DEF RingInv

\* A byte is moved: the caller has one less to move and returns after the last.
LEMMA MovedRing ==
    ASSUME RingInv, cur \in Thread \ {idle_thread}, NEW label \in {"get", "put"}, pc[cur] = label,
           left' = [left EXCEPT ![cur] = @ - 1],
           pc' = [pc EXCEPT ![cur] = IF left[cur] = 1 THEN "ret" ELSE label],
           queue' = queue
    PROVE  /\ left' \in [Thread -> 0..(MaxCount + 1)] /\ pc' \in [Thread -> PC]
           /\ CallsInv'
<1>1. MaxCount \in Nat /\ left[cur] \in 0..(MaxCount + 1) /\ left[cur] > 0
  BY QueueAssumption DEF RingInv, IOQTypeOK, CallsInv
<1>2. left[cur] - 1 \in 0..(MaxCount + 1) /\ (left[cur] # 1 => left[cur] - 1 > 0)
  BY <1>1
<1>3. left' \in [Thread -> 0..(MaxCount + 1)]
  BY <1>2 DEF RingInv, IOQTypeOK
<1>4. pc' \in [Thread -> PC]
  BY DEF RingInv, IOQTypeOK, PC
<1>5. CallsInv'
  <2>1. pc'[idle_thread] = "user"
    BY ThreadAssumption DEF RingInv, IOQTypeOK, CallsInv
  <2>2. ASSUME NEW t \in Thread, pc'[t] \notin {"user", "ret"} PROVE left'[t] > 0
    <3>1. CASE t = cur
      <4>1. left'[t] = left[cur] - 1 /\ left[cur] # 1
        BY <2>2, <3>1 DEF RingInv, IOQTypeOK
      <4> QED BY <1>2, <4>1
    <3>2. CASE t # cur
      BY <2>2, <3>2 DEF RingInv, IOQTypeOK, CallsInv
    <3> QED BY <3>1, <3>2
  <2> QED BY <2>1, <2>2 DEF CallsInv
<1> QED BY <1>3, <1>4, <1>5

\* A system call begins.
LEMMA EnterRing ==
    ASSUME RingInv, cur \in Thread \ {idle_thread}, NEW label \in {"get", "put"}, NEW q \in Queue,
           NEW n \in 0..(MaxCount + 1), Enter(label, q, n)
    PROVE  RingInv'
<1>1. n > 0 \/ n = 0
  BY QueueAssumption
<1>2. IOQTypeOK'
  BY DEF RingInv, IOQTypeOK, Enter, ringVars, PC
<1>3. CallsInv'
  BY <1>1, ThreadAssumption DEF RingInv, IOQTypeOK, CallsInv, Enter
<1> QED BY <1>2, <1>3 DEF RingInv

\* A byte is stored in a ring.
LEMMA StoredRing ==
    ASSUME RingInv, NEW q \in Queue, NEW b \in Byte,
           buf' = [buf EXCEPT ![q][head[q]] = b], head' = [head EXCEPT ![q] = next_pos(@)]
    PROVE  buf' \in [Queue -> [Pos -> Byte]] /\ head' \in [Queue -> Pos]
<1>1. head[q] \in Pos /\ next_pos(head[q]) \in Pos
  BY NextPos DEF RingInv, IOQTypeOK
<1> QED BY <1>1 DEF RingInv, IOQTypeOK

LEMMA RingStep == IOQInv /\ [IOQNext]_ioqVars => RingInv'
<1> SUFFICES ASSUME IOQInv, [IOQNext]_ioqVars PROVE RingInv'
  OBVIOUS
<1> USE ThreadAssumption, QueueAssumption
<1>0. /\ cur \in Thread /\ queue[cur] \in Queue /\ "kbd" \in Queue /\ "pipe" \in Queue
      /\ pc[cur] # "user" => cur # idle_thread
      /\ RingInv
  BY Sleepers DEF IOQInv, RingInv, IOQTypeOK, CallsInv, Queue
<1>1. CASE \E n \in 1..MaxCount : sys_read(n) \/ pipe_read(n) \/ pipe_write(n)
  <2>1. PICK n \in 1..MaxCount : sys_read(n) \/ pipe_read(n) \/ pipe_write(n)
    BY <1>1
  <2>2. PICK len \in 0..(bufsize - 1) : len = ioq_length("pipe")
    BY <1>0, LengthLemma DEF RingInv, IOQTypeOK
  <2>3. /\ n \in 0..(MaxCount + 1)
        /\ Least(n, len) \in 0..(MaxCount + 1)
        /\ Least(n, bufsize - len) \in 0..(MaxCount + 1)
    BY DEF Least
  <2>4. CASE sys_read(n)
    BY <1>0, <2>3, <2>4, EnterRing DEF sys_read
  <2>5. CASE pipe_read(n)
    BY <1>0, <2>2, <2>3, <2>5, EnterRing DEF pipe_read
  <2>6. CASE pipe_write(n)
    BY <1>0, <2>2, <2>3, <2>6, EnterRing DEF pipe_write
  <2> QED BY <2>1, <2>4, <2>5, <2>6
<1>2. CASE ioq_getchar
  <2> DEFINE q == queue[cur]
  <2>1. CASE AcquireAndWait(q, "get") /\ UNCHANGED ringVars
    BY <1>0, <1>2, <2>1, AcquireRing DEF ioq_getchar
  <2>2. CASE ~ ioq_empty(q)
    <3>1. /\ tail' = [tail EXCEPT ![q] = next_pos(@)] /\ producer' = [producer EXCEPT ![q] = NULL]
          /\ left' = [left EXCEPT ![cur] = @ - 1]
          /\ pc' = [pc EXCEPT ![cur] = IF left[cur] = 1 THEN "ret" ELSE "get"]
          /\ UNCHANGED <<buf, head, consumer, holder, waiters, queue>>
          /\ pc[cur] = "get"
      BY <1>2, <2>2 DEF ioq_getchar
    <3>2. /\ left' \in [Thread -> 0..(MaxCount + 1)] /\ pc' \in [Thread -> PC]
          /\ CallsInv'
      BY <1>0, <3>1, MovedRing
    <3>3. next_pos(tail[q]) \in Pos
      BY <1>0, NextPos DEF RingInv, IOQTypeOK
    <3>4. tail' \in [Queue -> Pos] /\ producer' \in [Queue -> Thread \cup {NULL}]
      BY <1>0, <3>1, <3>3 DEF RingInv, IOQTypeOK
    <3> QED BY <1>0, <3>1, <3>2, <3>4 DEF RingInv, IOQTypeOK
  <2> QED BY <1>2, <2>1, <2>2 DEF ioq_getchar
<1>3. ASSUME NEW b \in Byte, ioq_putchar(b) PROVE RingInv'
  <2> DEFINE q == queue[cur]
  <2>1. CASE AcquireAndWait(q, "put") /\ UNCHANGED ringVars
    BY <1>0, <1>3, <2>1, AcquireRing DEF ioq_putchar
  <2>2. CASE ~ ioq_full(q)
    <3>1. /\ buf' = [buf EXCEPT ![q][head[q]] = b] /\ head' = [head EXCEPT ![q] = next_pos(@)]
          /\ consumer' = [consumer EXCEPT ![q] = NULL]
          /\ left' = [left EXCEPT ![cur] = @ - 1]
          /\ pc' = [pc EXCEPT ![cur] = IF left[cur] = 1 THEN "ret" ELSE "put"]
          /\ UNCHANGED <<tail, producer, holder, waiters, queue>>
          /\ pc[cur] = "put"
      BY <1>3, <2>2 DEF ioq_putchar
    <3>2. /\ left' \in [Thread -> 0..(MaxCount + 1)] /\ pc' \in [Thread -> PC]
          /\ CallsInv'
      BY <1>0, <3>1, MovedRing
    <3>3. buf' \in [Queue -> [Pos -> Byte]] /\ head' \in [Queue -> Pos]
      BY <1>0, <3>1, StoredRing
    <3>4. consumer' \in [Queue -> Thread \cup {NULL}]
      BY <1>0, <3>1 DEF RingInv, IOQTypeOK
    <3> QED BY <1>0, <3>1, <3>2, <3>3, <3>4 DEF RingInv, IOQTypeOK
  <2> QED BY <1>3, <2>1, <2>2 DEF ioq_putchar
<1>4. ASSUME NEW b \in Key, intr_keyboard_handler(b) PROVE RingInv'
  <2>1. buf' \in [Queue -> [Pos -> Byte]] /\ head' \in [Queue -> Pos]
    BY <1>0, <1>4, StoredRing DEF intr_keyboard_handler
  <2>2. consumer' \in [Queue -> Thread \cup {NULL}]
    BY <1>0, <1>4 DEF RingInv, IOQTypeOK, intr_keyboard_handler
  <2> QED BY <1>0, <1>4, <2>1, <2>2 DEF RingInv, IOQTypeOK, CallsInv, callVars, intr_keyboard_handler
<1>5. CASE RetryLock
  <2>1. pc[cur] \notin {"user", "ret"} /\ UNCHANGED ringVars
    BY <1>5 DEF RetryLock
  <2>2. PICK slot \in {"get", "put"} : AcquireAndWait(queue[cur], slot)
    BY <1>5 DEF RetryLock
  <2> QED BY <1>0, <2>1, <2>2, AcquireRing
<1>6. CASE ReleaseLock
  <2>1. holder' \in [Queue -> Thread \cup {NULL}]
    BY <1>0, <1>6 DEF RingInv, IOQTypeOK, ReleaseLock
  <2>2. waiters' \in [Queue -> Seq(Thread)]
    <3>1. waiters[queue[cur]] # <<>> => Tail(waiters[queue[cur]]) \in Seq(Thread)
      BY <1>0 DEF RingInv, IOQTypeOK
    <3> QED BY <1>0, <1>6, <3>1 DEF RingInv, IOQTypeOK, ReleaseLock, WaitersLeft
  <2>3. pc' \in [Thread -> PC] /\ UNCHANGED <<queue, left, ringVars, producer, consumer>>
    BY <1>0, <1>6 DEF RingInv, IOQTypeOK, ReleaseLock, GoTo, PC
  <2>4. CallsInv'
    BY <1>0, <1>6 DEF RingInv, IOQTypeOK, CallsInv, ReleaseLock, GoTo
  <2> QED BY <1>0, <2>1, <2>2, <2>3, <2>4 DEF RingInv, IOQTypeOK, ringVars
<1>7. CASE SysReturn
  <2>1. pc' \in [Thread -> PC]
    BY <1>0, <1>7 DEF RingInv, IOQTypeOK, SysReturn, GoTo, PC
  <2>2. CallsInv'
    BY <1>0, <1>7 DEF RingInv, IOQTypeOK, CallsInv, SysReturn, GoTo
  <2> QED BY <1>0, <1>7, <2>1, <2>2 DEF RingInv, IOQTypeOK, SysReturn, GoTo, ringVars
<1>8. CASE Preempt \/ UNCHANGED ioqVars
  BY <1>0, <1>8 DEF Preempt, RingInv, IOQTypeOK, CallsInv, ringVars, callVars, ioqVars
<1> QED BY <1>1, <1>2, <1>3, <1>4, <1>5, <1>6, <1>7, <1>8 DEF IOQNext

----------------------------------------------------------------------------
(* The lock and the waiter slots, one lemma per operation.                  *)

\* WaiterSlotSafe taken apart: the slots of a queue, a thread in them, and
\* where a thread asleep in ioq_wait is.
SlotsFree(q) ==
    /\ producer[q] = NULL \/ consumer[q] = NULL
    /\ holder[q] = NULL => producer[q] = NULL /\ consumer[q] = NULL
SlotAt(q, t) ==
    /\ consumer[q] = t => pc[t] = "getwait" /\ queue[t] = q
    /\ producer[q] = t => pc[t] = "putwait" /\ queue[t] = q
    /\ consumer[q] = t \/ producer[q] = t => status[t] = "TASK_BLOCKED" /\ holder[q] = t
AsleepInSlot(t) ==
    pc[t] \in Waiting /\ status[t] = "TASK_BLOCKED" => t \in {consumer[queue[t]], producer[queue[t]]}

LEMMA SlotParts ==
    WaiterSlotSafe <=> \A q \in Queue : /\ SlotsFree(q)
                                        /\ \A t \in Thread : SlotAt(q, t) /\ AsleepInSlot(t)
<1> QED BY DEF WaiterSlotSafe, SlotsFree, SlotAt, AsleepInSlot, Waiting

LEMMA SlotPartsNext ==
    WaiterSlotSafe' <=> \A q \in Queue : /\ SlotsFree(q)'
                                         /\ \A t \in Thread : SlotAt(q, t)' /\ AsleepInSlot(t)'
<1> QED BY DEF WaiterSlotSafe, SlotsFree, SlotAt, AsleepInSlot, Waiting

\* A step that touches nobody inside lock_acquire or ioq_wait.
OutsideWait ==
    \A t \in Thread : pc[t] \in Locking \cup Waiting \/ pc'[t] \in Locking \cup Waiting =>
                        pc'[t] = pc[t] /\ queue'[t] = queue[t]

LEMMA QuietLock ==
    ASSUME IOQInv, OutsideWait, UNCHANGED <<holder, waiters, producer, consumer>>,
           \A t \in Thread \ {idle_thread} : KeptStatus(t),
           pc'[idle_thread] = "user"
    PROVE  LockInv'
<1> USE DEF IOQInv, RingInv, LockInv, CallsInv, Locking, Waiting, KeptStatus, Awake
<1>1. HolderInv'
  BY DEF HolderInv, OutsideWait, IOQTypeOK
<1>2. WaiterSlotSafe'
  <2> SUFFICES ASSUME NEW q \in Queue, NEW t \in Thread
               PROVE  SlotsFree(q)' /\ SlotAt(q, t)' /\ AsleepInSlot(t)'
    BY SlotPartsNext, ThreadAssumption
  <2>1. SlotsFree(q) /\ SlotAt(q, t) /\ AsleepInSlot(t)
    BY SlotParts
  <2> QED BY <2>1 DEF SlotsFree, SlotAt, AsleepInSlot, OutsideWait
<1>3. WaitersOnce' /\ LockWaitersServed'
  BY DEF WaitersOnce, LockWaitersServed, OutsideWait
<1> QED BY <1>1, <1>2, <1>3

\* wakeup of the thread x that sleeps in a slot of q, and the slot emptied.
LEMMA WakeupLock ==
    ASSUME IOQInv, OutsideWait, UNCHANGED <<holder, waiters>>, NEW q \in Queue, NEW x,
           wakeup(x),
           \/ x = producer[q] /\ producer' = [producer EXCEPT ![q] = NULL] /\ consumer' = consumer
           \/ x = consumer[q] /\ consumer' = [consumer EXCEPT ![q] = NULL] /\ producer' = producer
    PROVE  LockInv'
<1> USE DEF IOQInv, RingInv, LockInv, Locking, Waiting
<1>0. NULL \notin Thread /\ x \in Thread \cup {NULL}
  BY QueueAssumption DEF IOQTypeOK
<1>1. /\ \A t \in Thread : t # x => status'[t] = status[t]
      /\ x \in Thread => /\ status'[x] = "TASK_READY" /\ status[x] = "TASK_BLOCKED"
                         /\ pc[x] \in Waiting /\ queue[x] = q
  BY <1>0 DEF wakeup, Awaken, thread_unblock, schedVars, SchedInv, SchedTypeOK, WaiterSlotSafe
<1>2. HolderInv'
  BY DEF HolderInv, OutsideWait, IOQTypeOK
<1>3. WaiterSlotSafe'
  <2> SUFFICES ASSUME NEW r \in Queue, NEW t \in Thread
               PROVE  SlotsFree(r)' /\ SlotAt(r, t)' /\ AsleepInSlot(t)'
    BY SlotPartsNext, ThreadAssumption
  <2>1. SlotsFree(r) /\ SlotAt(r, t) /\ AsleepInSlot(t) /\ SlotsFree(q)
    BY SlotParts
  <2>2. /\ producer'[r] = producer[r] \/ (r = q /\ producer[q] = x /\ producer'[r] = NULL)
        /\ consumer'[r] = consumer[r] \/ (r = q /\ consumer[q] = x /\ consumer'[r] = NULL)
    BY DEF IOQTypeOK
  <2>3. SlotsFree(r)'
    BY <2>1, <2>2 DEF SlotsFree
  <2>4. SlotAt(r, t)'
    <3>1. x \in Thread => consumer'[q] # x /\ producer'[q] # x
      BY <1>0, <2>1 DEF SlotsFree, IOQTypeOK
    <3>2. consumer'[r] = t \/ producer'[r] = t => t # x
      <4>1. CASE r = q
        BY <3>1, <4>1
      <4>2. CASE r # q
        BY <1>1, <2>1, <2>2, <4>2 DEF SlotAt
      <4> QED BY <4>1, <4>2
    <3> QED BY <1>0, <1>1, <2>1, <2>2, <3>2 DEF SlotAt, OutsideWait
  <2>5. AsleepInSlot(t)'
    <3> SUFFICES ASSUME pc'[t] \in Waiting, status'[t] = "TASK_BLOCKED"
                 PROVE  t \in {consumer'[queue'[t]], producer'[queue'[t]]}
      BY DEF AsleepInSlot
    <3>1. t # x /\ status[t] = "TASK_BLOCKED" /\ pc[t] \in Waiting /\ queue'[t] = queue[t]
      BY <1>1 DEF OutsideWait
    <3>2. t \in {consumer[queue[t]], producer[queue[t]]} /\ queue[t] \in Queue
      BY <2>1, <3>1 DEF AsleepInSlot, IOQTypeOK
    <3> QED BY <3>1, <3>2 DEF IOQTypeOK
  <2> QED BY <2>3, <2>4, <2>5
<1>4. WaitersOnce' /\ LockWaitersServed'
  BY <1>0, <1>1 DEF WaitersOnce, LockWaitersServed, OutsideWait
<1> QED BY <1>2, <1>3, <1>4

\* lock_acquire, and the sleep in the slot or among the waiters.
LEMMA AcquireLock ==
    ASSUME IOQInv, cur # idle_thread, NEW q \in Queue, NEW slot \in {"get", "put"},
           queue[cur] = q, pc[cur] \notin Waiting,
           AcquireAndWait(q, slot), thread_block("TASK_BLOCKED", "INTR_OFF")
    PROVE  LockInv'
<1> USE DEF IOQInv, RingInv, LockInv, Locking, Waiting
<1>0. NULL \notin Thread /\ cur \in Thread /\ status[cur] = "TASK_RUNNING" /\ pc[idle_thread] = "user"
  BY QueueAssumption, Sleepers DEF CallsInv
<1>1. /\ status'[cur] = "TASK_BLOCKED"
      /\ \A t \in Thread \ {cur, idle_thread} : status'[t] = "TASK_BLOCKED" <=> status[t] = "TASK_BLOCKED"
  BY BlockStatus DEF Stopped, IntrStatus
<1>2. CASE holder[q] = NULL
  <2>1. /\ holder' = [holder EXCEPT ![q] = cur] /\ waiters' = waiters /\ queue' = queue
        /\ \/ /\ pc' = [pc EXCEPT ![cur] = "getwait"]
              /\ consumer' = [consumer EXCEPT ![q] = cur] /\ producer' = producer
           \/ /\ pc' = [pc EXCEPT ![cur] = "putwait"]
              /\ producer' = [producer EXCEPT ![q] = cur] /\ consumer' = consumer
    BY <1>2 DEF AcquireAndWait, Hold, GoTo
  <2>2. producer[q] = NULL /\ consumer[q] = NULL
    BY <1>2 DEF WaiterSlotSafe
  <2>2a. /\ holder'[q] = cur /\ pc'[cur] \in Waiting
         /\ \A r \in Queue : r # q => /\ holder'[r] = holder[r] /\ producer'[r] = producer[r]
                                      /\ consumer'[r] = consumer[r]
         /\ \/ pc'[cur] = "getwait" /\ consumer'[q] = cur /\ producer'[q] = NULL
            \/ pc'[cur] = "putwait" /\ producer'[q] = cur /\ consumer'[q] = NULL
         /\ \A t \in Thread : t # cur => pc'[t] = pc[t]
    BY <1>0, <2>1, <2>2 DEF IOQTypeOK
  <2>3. HolderInv'
    <3>1. ASSUME NEW t \in Thread, pc'[t] \in Waiting PROVE holder'[queue[t]] = t
      <4>1. CASE t = cur
        BY <2>2a, <4>1
      <4>2. CASE t # cur
        <5>1. holder[queue[t]] = t /\ queue[t] \in Queue
          BY <2>2a, <3>1, <4>2 DEF HolderInv, IOQTypeOK
        <5> QED BY <1>0, <1>2, <2>2a, <5>1
      <4> QED BY <4>1, <4>2
    <3>2. ASSUME NEW r \in Queue, holder'[r] # NULL
          PROVE  pc'[holder'[r]] \in Waiting /\ queue[holder'[r]] = r
      <4>1. CASE r = q
        BY <2>2a, <4>1
      <4>2. CASE r # q
        <5>1. holder'[r] = holder[r] /\ holder[r] \in Thread
          BY <2>2a, <3>2, <4>2 DEF IOQTypeOK
        <5>2. pc[holder[r]] \in Waiting /\ queue[holder[r]] = r
          BY <3>2, <5>1 DEF HolderInv
        <5>3. holder[r] # cur
          BY <5>2
        <5> QED BY <2>2a, <5>1, <5>2, <5>3
      <4> QED BY <4>1, <4>2
    <3>3. queue' = queue
      BY <2>1
    <3> QED BY <3>1, <3>2, <3>3 DEF HolderInv
  <2>4. WaiterSlotSafe'
    <3> SUFFICES ASSUME NEW r \in Queue, NEW t \in Thread
                 PROVE  SlotsFree(r)' /\ SlotAt(r, t)' /\ AsleepInSlot(t)'
      BY SlotPartsNext, ThreadAssumption
    <3>1. SlotsFree(r) /\ SlotAt(r, t) /\ AsleepInSlot(t) /\ SlotAt(r, cur)
      BY <1>0, SlotParts
    <3>2. SlotsFree(r)'
      BY <1>0, <2>2a, <3>1 DEF SlotsFree
    <3>3. SlotAt(r, t)'
      <4>1. CASE r = q
        BY <1>0, <1>1, <2>1, <2>2a, <4>1 DEF SlotAt
      <4>2. CASE r # q
        BY <1>0, <1>1, <2>1, <2>2a, <3>1, <4>2 DEF SlotAt
      <4> QED BY <4>1, <4>2
    <3>4. AsleepInSlot(t)'
      <4>1. CASE t = cur
        BY <2>1, <2>2a, <4>1 DEF AsleepInSlot
      <4>2. CASE t # cur
        <5> SUFFICES ASSUME pc'[t] \in Waiting, status'[t] = "TASK_BLOCKED"
                     PROVE  t \in {consumer'[queue'[t]], producer'[queue'[t]]}
          BY DEF AsleepInSlot
        <5>1. pc[t] \in Waiting /\ status[t] = "TASK_BLOCKED" /\ queue[t] \in Queue
          BY <1>0, <1>1, <2>2a, <4>2 DEF IOQTypeOK
        <5>2. t \in {consumer[queue[t]], producer[queue[t]]}
          BY <3>1, <5>1 DEF AsleepInSlot
        <5>3. queue[t] # q
          BY <1>0, <2>2, <5>2
        <5> QED BY <2>1, <2>2a, <5>1, <5>2, <5>3
      <4> QED BY <4>1, <4>2
    <3> QED BY <3>2, <3>3, <3>4
  <2>5. WaitersOnce' /\ LockWaitersServed'
    <3>1. ASSUME NEW r \in Queue, NEW t \in Thread, elem_find(waiters'[r], t)
          PROVE  status'[t] = "TASK_BLOCKED" /\ pc'[t] \in Locking /\ queue'[t] = r
      BY <1>0, <1>1, <2>1, <2>2a, <3>1 DEF LockWaitersServed
    <3>2. ASSUME NEW r \in Queue, holder'[r] = NULL, waiters'[r] # <<>>
          PROVE  \E t \in Thread : pc'[t] \in Locking /\ queue'[t] = r /\ status'[t] # "TASK_BLOCKED"
      <4>1. r # q /\ holder[r] = NULL
        BY <1>0, <2>2a, <3>2
      <4>2. PICK t \in Thread : pc[t] \in Locking /\ queue[t] = r /\ status[t] # "TASK_BLOCKED"
        BY <2>1, <3>2, <4>1 DEF LockWaitersServed
      <4> QED BY <1>0, <1>1, <2>1, <2>2a, <4>1, <4>2
    <3> QED BY <2>1, <3>1, <3>2 DEF WaitersOnce, LockWaitersServed
  <2> QED BY <2>3, <2>4, <2>5
<1>3. CASE holder[q] # NULL
  <2>1. /\ waiters' = [waiters EXCEPT ![q] = Append(waiters[q], cur)] /\ queue' = queue
        /\ pc' = [pc EXCEPT ![cur] = IF slot = "get" THEN "getlock" ELSE "putlock"]
        /\ UNCHANGED <<holder, producer, consumer>>
    BY <1>3 DEF AcquireAndWait, GoTo, list_append
  <2>2. /\ waiters[q] \in Seq(Thread) /\ NoDup(waiters[q])
        /\ ~ elem_find(waiters[q], cur)
    BY <1>0 DEF IOQTypeOK, WaitersOnce, LockWaitersServed
  <2>3. /\ NoDup(waiters'[q])
        /\ \A t \in Thread : elem_find(waiters'[q], t) <=> (elem_find(waiters[q], t) \/ t = cur)
        /\ \A r \in Queue : r # q => waiters'[r] = waiters[r]
    <3>1. /\ waiters'[q] = Append(waiters[q], cur)
          /\ \A r \in Queue : r # q => waiters'[r] = waiters[r]
      BY <2>1 DEF IOQTypeOK
    <3> QED BY <1>0, <2>2, <3>1, AppendLemma
  <2>4. HolderInv'
    BY <1>0, <2>1 DEF HolderInv, IOQTypeOK
  <2>5. WaiterSlotSafe'
    BY <1>0, <1>1, <2>1 DEF WaiterSlotSafe, IOQTypeOK
  <2>6. WaitersOnce'
    BY <2>3 DEF WaitersOnce
  <2>7. LockWaitersServed'
    <3>1. ASSUME NEW r \in Queue, NEW t \in Thread, elem_find(waiters'[r], t)
          PROVE  status'[t] = "TASK_BLOCKED" /\ pc'[t] \in Locking /\ queue'[t] = r
      <4>1. CASE t = cur
        <5>1. r = q
          BY <1>0, <2>3, <3>1, <4>1 DEF LockWaitersServed
        <5> QED BY <1>0, <1>1, <2>1, <4>1, <5>1 DEF IOQTypeOK
      <4>2. CASE t # cur
        BY <1>0, <1>1, <2>1, <2>3, <3>1, <4>2 DEF LockWaitersServed, IOQTypeOK
      <4> QED BY <4>1, <4>2
    <3>2. ASSUME NEW r \in Queue, holder'[r] = NULL, waiters'[r] # <<>>
          PROVE  \E t \in Thread : pc'[t] \in Locking /\ queue'[t] = r /\ status'[t] # "TASK_BLOCKED"
      <4>1. r # q
        BY <1>3, <2>1, <3>2
      <4>2. PICK t \in Thread : pc[t] \in Locking /\ queue[t] = r /\ status[t] # "TASK_BLOCKED"
        BY <2>1, <2>3, <3>2, <4>1 DEF LockWaitersServed
      <4> QED BY <1>0, <1>1, <2>1, <4>1, <4>2 DEF IOQTypeOK
    <3> QED BY <3>1, <3>2 DEF LockWaitersServed
  <2> QED BY <2>4, <2>5, <2>6, <2>7
<1> QED BY <1>2, <1>3

\* lock_release: whoever comes back from ioq_wait is in no slot any more.
LEMMA ReleaseLockLemma ==
    ASSUME IOQInv, ReleaseLock
    PROVE  LockInv'
<1> DEFINE q == queue[cur]
<1> USE DEF IOQInv, RingInv, LockInv, Locking, Waiting
<1>0. /\ NULL \notin Thread /\ cur \in Thread /\ status[cur] = "TASK_RUNNING" /\ q \in Queue
      /\ pc[cur] \in Waiting /\ holder[q] = cur
  BY QueueAssumption, Sleepers DEF IOQTypeOK, ReleaseLock, HolderInv
<1>1. producer[q] = NULL /\ consumer[q] = NULL
  BY <1>0 DEF WaiterSlotSafe, IOQTypeOK
<1>2. /\ holder' = [holder EXCEPT ![q] = NULL] /\ queue' = queue
      /\ UNCHANGED <<producer, consumer>>
      /\ pc' = [pc EXCEPT ![cur] = IF pc[cur] = "getwait" THEN "get" ELSE "put"]
  BY DEF ReleaseLock, GoTo
<1>3. HolderInv'
  BY <1>0, <1>2 DEF HolderInv, IOQTypeOK
<1>4. CASE waiters[q] = <<>>
  <2>1. UNCHANGED <<waiters, status>>
    BY <1>4 DEF ReleaseLock, schedVars
  <2>2. WaiterSlotSafe'
    BY <1>0, <1>1, <1>2, <2>1 DEF WaiterSlotSafe, IOQTypeOK
  <2>3. WaitersOnce' /\ LockWaitersServed'
    BY <1>0, <1>2, <1>4, <2>1 DEF WaitersOnce, LockWaitersServed, IOQTypeOK
  <2> QED BY <1>3, <2>2, <2>3
<1>5. CASE waiters[q] # <<>>
  <2> DEFINE w == Head(waiters[q])
  <2>1. waiters' = [waiters EXCEPT ![q] = Tail(waiters[q])] /\ Awaken(w)
    BY <1>5 DEF ReleaseLock, WaitersLeft
  <2>2. /\ w \in Thread /\ w # cur /\ status[w] = "TASK_BLOCKED" /\ pc[w] \in Locking /\ queue[w] = q
    BY <1>0, <1>5, Sleepers
  <2>3. status'[w] = "TASK_READY" /\ \A t \in Thread : t # w => status'[t] = status[t]
    BY <2>1, <2>2 DEF Awaken, thread_unblock, SchedInv, SchedTypeOK
  <2>4. /\ NoDup(waiters'[q])
        /\ \A t \in Thread : elem_find(waiters'[q], t) <=> (elem_find(waiters[q], t) /\ t # w)
        /\ \A r \in Queue : r # q => waiters'[r] = waiters[r]
    <3>1. /\ waiters'[q] = Tail(waiters[q])
          /\ \A r \in Queue : r # q => waiters'[r] = waiters[r]
      BY <1>0, <2>1 DEF IOQTypeOK
    <3>2. waiters[q] \in Seq(Thread) /\ NoDup(waiters[q])
      BY <1>0 DEF IOQTypeOK, WaitersOnce
    <3> QED BY <1>5, <3>1, <3>2, PopLemma
  <2> HIDE DEF w
  <2>5. WaiterSlotSafe'
    <3> SUFFICES ASSUME NEW r \in Queue, NEW t \in Thread
                 PROVE  SlotsFree(r)' /\ SlotAt(r, t)' /\ AsleepInSlot(t)'
      BY SlotPartsNext, ThreadAssumption
    <3>1. SlotsFree(r) /\ SlotAt(r, t) /\ AsleepInSlot(t)
      BY SlotParts
    <3>2. SlotsFree(r)'
      BY <1>0, <1>1, <1>2, <3>1 DEF SlotsFree, IOQTypeOK
    <3>3. SlotAt(r, t)'
      <4>1. consumer[r] = t \/ producer[r] = t => r # q /\ t # w /\ t # cur
        BY <1>0, <1>1, <2>2, <3>1 DEF SlotAt
      <4> QED BY <1>0, <1>2, <2>3, <3>1, <4>1 DEF SlotAt, IOQTypeOK
    <3>4. AsleepInSlot(t)'
      BY <1>0, <1>2, <2>2, <2>3, <3>1 DEF AsleepInSlot, IOQTypeOK
    <3> QED BY <3>2, <3>3, <3>4
  <2>6. WaitersOnce'
    BY <2>4 DEF WaitersOnce
  <2>7. LockWaitersServed'
    <3>1. ASSUME NEW r \in Queue, NEW t \in Thread, elem_find(waiters'[r], t)
          PROVE  status'[t] = "TASK_BLOCKED" /\ pc'[t] \in Locking /\ queue'[t] = r
      <4>1. elem_find(waiters[r], t) /\ (r = q => t # w)
        BY <2>4, <3>1
      <4>2. status[t] = "TASK_BLOCKED" /\ pc[t] \in Locking /\ queue[t] = r
        BY <4>1 DEF LockWaitersServed
      <4> QED BY <1>0, <1>2, <2>2, <2>3, <4>1, <4>2 DEF IOQTypeOK
    <3>2. ASSUME NEW r \in Queue, holder'[r] = NULL, waiters'[r] # <<>>
          PROVE  \E t \in Thread : pc'[t] \in Locking /\ queue'[t] = r /\ status'[t] # "TASK_BLOCKED"
      <4>1. CASE r = q
        <5>1. pc'[w] \in Locking /\ queue'[w] = r /\ status'[w] # "TASK_BLOCKED"
          BY <1>2, <2>2, <2>3, <4>1 DEF IOQTypeOK
        <5> QED BY <2>2, <5>1
      <4>2. CASE r # q
        <5>1. holder[r] = NULL /\ waiters[r] # <<>>
          BY <1>2, <2>4, <3>2, <4>2 DEF IOQTypeOK
        <5>2. PICK t \in Thread : pc[t] \in Locking /\ queue[t] = r /\ status[t] # "TASK_BLOCKED"
          BY <5>1 DEF LockWaitersServed
        <5> QED BY <1>0, <1>2, <2>2, <2>3, <4>2, <5>2 DEF IOQTypeOK
      <4> QED BY <4>1, <4>2
    <3> QED BY <3>1, <3>2 DEF LockWaitersServed
  <2> QED BY <1>3, <2>5, <2>6, <2>7
<1> QED BY <1>4, <1>5

LEMMA LockStep == IOQInv /\ RingInv' /\ [IOQNext]_ioqVars => LockInv'
<1> SUFFICES ASSUME IOQInv, RingInv', [IOQNext]_ioqVars PROVE LockInv'
  OBVIOUS
<1> USE ThreadAssumption, QueueAssumption
<1>0. /\ cur \in Thread /\ queue[cur] \in Queue /\ "kbd" \in Queue
      /\ pc[cur] # "user" => cur # idle_thread
      /\ pc'[idle_thread] = "user"
      /\ pc \in [Thread -> PC] /\ queue \in [Thread -> Queue]
      /\ SchedInv
  BY Sleepers DEF IOQInv, RingInv, IOQTypeOK, CallsInv, Queue
<1>1. (status' = status) => \A t \in Thread \ {idle_thread} : KeptStatus(t)
  BY DEF KeptStatus
<1>2. CASE \E n \in 1..MaxCount : sys_read(n) \/ pipe_read(n) \/ pipe_write(n)
  <2>1. /\ pc[cur] = "user" /\ pc'[cur] \in {"ret", "get", "put"}
        /\ \A t \in Thread : t # cur => pc'[t] = pc[t] /\ queue'[t] = queue[t]
        /\ UNCHANGED <<status, producer, consumer, holder, waiters>>
    BY <1>0, <1>2 DEF sys_read, pipe_read, pipe_write, Enter
  <2>2. OutsideWait
    BY <2>1 DEF OutsideWait, Locking, Waiting
  <2> QED BY <1>0, <1>1, <2>1, <2>2, QuietLock
<1>3. CASE ioq_getchar
  <2> DEFINE q == queue[cur]
  <2>1. CASE AcquireAndWait(q, "get") /\ thread_block("TASK_BLOCKED", "INTR_OFF")
    BY <1>0, <1>3, <2>1, AcquireLock DEF ioq_getchar, Waiting
  <2>2. CASE ~ ioq_empty(q)
    <3>1. /\ wakeup(producer[q]) /\ producer' = [producer EXCEPT ![q] = NULL]
          /\ UNCHANGED <<consumer, holder, waiters>>
          /\ OutsideWait
      BY <1>0, <1>3, <2>2 DEF ioq_getchar, OutsideWait, Locking, Waiting
    <3> QED BY <1>0, <3>1, WakeupLock
  <2> QED BY <1>3, <2>1, <2>2 DEF ioq_getchar
<1>4. CASE \E b \in Byte : ioq_putchar(b)
  <2> DEFINE q == queue[cur]
  <2>1. CASE AcquireAndWait(q, "put") /\ thread_block("TASK_BLOCKED", "INTR_OFF")
    BY <1>0, <1>4, <2>1, AcquireLock DEF ioq_putchar, Waiting
  <2>2. CASE ~ ioq_full(q)
    <3>1. /\ wakeup(consumer[q]) /\ consumer' = [consumer EXCEPT ![q] = NULL]
          /\ UNCHANGED <<producer, holder, waiters>>
          /\ OutsideWait
      BY <1>0, <1>4, <2>2 DEF ioq_putchar, OutsideWait, Locking, Waiting
    <3> QED BY <1>0, <3>1, WakeupLock
  <2> QED BY <1>4, <2>1, <2>2 DEF ioq_putchar
<1>5. CASE \E b \in Key : intr_keyboard_handler(b)
  <2>1. /\ wakeup(consumer["kbd"]) /\ consumer' = [consumer EXCEPT !["kbd"] = NULL]
        /\ UNCHANGED <<producer, holder, waiters>>
        /\ OutsideWait
    BY <1>0, <1>5 DEF intr_keyboard_handler, OutsideWait, callVars
  <2> QED BY <1>0, <2>1, WakeupLock
<1>6. CASE RetryLock
  <2>1. PICK slot \in {"get", "put"} : AcquireAndWait(queue[cur], slot)
    BY <1>6 DEF RetryLock
  <2> QED BY <1>0, <1>6, <2>1, AcquireLock DEF RetryLock, Waiting
<1>7. CASE ReleaseLock
  BY <1>7, ReleaseLockLemma
<1>8. CASE SysReturn
  <2>1. OutsideWait /\ UNCHANGED <<status, producer, consumer, holder, waiters>>
    BY <1>0, <1>8 DEF SysReturn, GoTo, OutsideWait, Locking, Waiting
  <2> QED BY <1>0, <1>1, <2>1, QuietLock
<1>9. CASE Preempt
  <2>1. OutsideWait /\ UNCHANGED <<producer, consumer, holder, waiters>>
    BY <1>9 DEF Preempt, OutsideWait, callVars
  <2>2. \A t \in Thread \ {idle_thread} : KeptStatus(t)
    BY <1>0, <1>9, TimerStatus, IdleStatus DEF Preempt
  <2> QED BY <1>0, <2>1, <2>2, QuietLock
<1>10. CASE UNCHANGED ioqVars
  <2>1. OutsideWait /\ UNCHANGED <<status, producer, consumer, holder, waiters>>
    BY <1>10 DEF ioqVars, OutsideWait, callVars, schedVars
  <2> QED BY <1>0, <1>1, <2>1, QuietLock
<1> QED BY <1>2, <1>3, <1>4, <1>5, <1>6, <1>7, <1>8, <1>9, <1>10 DEF IOQNext

----------------------------------------------------------------------------
(* The one reader of the keyboard.                                          *)

\* Standard input is read by one process at a time.
OneReader == \A t, u \in KbdReader : t = u

\* Only the reader works on the keyboard's queue, and it never has to wait for
\* the lock: its test of the queue is not out of date when it sleeps.
KbdInv ==
    /\ \A t \in Thread : pc[t] \in {"put", "putwait", "putlock"} => queue[t] = "pipe"
    /\ \A t \in Thread : queue[t] = "kbd" /\ pc[t] \in {"get", "getwait"} => t \in KbdReader
    /\ \A t \in Thread : queue[t] = "kbd" => pc[t] # "getlock"
    /\ NoMissedKey

LEMMA KbdInitLemma == IOQInit => KbdInv
<1> QED BY DEF IOQInit, KbdInv, NoMissedKey, Queue

LEMMA KbdStep == OneReader /\ IOQInv /\ KbdInv /\ [IOQNext]_ioqVars => KbdInv'
<1> SUFFICES ASSUME OneReader, IOQInv, KbdInv, [IOQNext]_ioqVars PROVE KbdInv'
  OBVIOUS
<1> USE ThreadAssumption, QueueAssumption
<1>0. /\ cur \in Thread /\ queue[cur] \in Queue /\ Queue = {"kbd", "pipe"}
      /\ pc \in [Thread -> PC] /\ queue \in [Thread -> Queue]
      /\ consumer \in [Queue -> Thread \cup {NULL}] /\ head \in [Queue -> Pos] /\ tail \in [Queue -> Pos]
  BY Sleepers DEF IOQInv, RingInv, IOQTypeOK, Queue
<1>1. CASE UNCHANGED <<head, tail, consumer, pc, queue>>
  BY <1>1 DEF KbdInv, NoMissedKey, ioq_empty
<1>2. CASE \E n \in 1..MaxCount : sys_read(n) \/ pipe_read(n) \/ pipe_write(n)
  <2>1. PICK n : \/ cur \in KbdReader /\ Enter("get", "kbd", n)
                 \/ Enter("get", "pipe", n)
                 \/ Enter("put", "pipe", n)
    BY <1>2 DEF sys_read, pipe_read, pipe_write
  <2>2. UNCHANGED <<head, tail, consumer>>
    BY <2>1 DEF Enter, ringVars
  <2>3. \A t \in Thread : t # cur => pc'[t] = pc[t] /\ queue'[t] = queue[t]
    BY <1>0, <2>1 DEF Enter
  <2>4. \/ pc'[cur] = "ret"
        \/ pc'[cur] = "get" /\ queue'[cur] = "kbd" /\ cur \in KbdReader
        \/ pc'[cur] \in {"get", "put"} /\ queue'[cur] = "pipe"
    BY <1>0, <2>1 DEF Enter
  <2> QED BY <2>2, <2>3, <2>4 DEF KbdInv, NoMissedKey, ioq_empty
<1>3. ASSUME UNCHANGED ringVars, NEW slot \in {"get", "put"}, AcquireAndWait(queue[cur], slot),
             slot = "get" => pc[cur] = "getlock" \/ (pc[cur] = "get" /\ ioq_empty(queue[cur])),
             slot = "put" => pc[cur] \in {"put", "putlock"}
      PROVE  KbdInv'
  <2>1. /\ queue' = queue /\ UNCHANGED <<head, tail>>
        /\ \A t \in Thread : t # cur => pc'[t] = pc[t]
        /\ slot = "get" => pc'[cur] \in {"getwait", "getlock"}
        /\ slot = "put" => pc'[cur] \in {"putwait", "putlock"}
    BY <1>0, <1>3 DEF AcquireAndWait, GoTo, ringVars
  <2>2. CASE queue[cur] = "kbd"
    <3>1. slot = "get" /\ pc[cur] = "get" /\ ioq_empty("kbd") /\ cur \in KbdReader
      BY <1>0, <1>3, <2>2 DEF KbdInv
    <3>2. holder["kbd"] = NULL
      <4> SUFFICES ASSUME holder["kbd"] # NULL PROVE FALSE
        OBVIOUS
      <4>1. PICK u \in Thread : u = holder["kbd"]
        BY <1>0 DEF IOQInv, RingInv, IOQTypeOK
      <4>2. pc[u] \in Waiting /\ queue[u] = "kbd"
        BY <1>0, <4>1 DEF IOQInv, LockInv, HolderInv
      <4>3. pc[u] = "getwait" /\ u \in KbdReader
        BY <4>2 DEF KbdInv, Waiting
      <4> QED BY <3>1, <4>3 DEF OneReader
    <3>3. pc'[cur] = "getwait"
      BY <1>0, <1>3, <2>2, <3>1, <3>2 DEF AcquireAndWait, GoTo
    <3> QED BY <2>1, <2>2, <3>1, <3>3 DEF KbdInv, NoMissedKey, ioq_empty
  <2>3. CASE queue[cur] = "pipe"
    <3>1. consumer'["kbd"] = consumer["kbd"]
      BY <1>0, <1>3, <2>3 DEF AcquireAndWait
    <3> QED BY <1>3, <2>1, <2>3, <3>1 DEF KbdInv, NoMissedKey, ioq_empty
  <2> QED BY <1>0, <2>2, <2>3
<1>4. CASE ioq_getchar
  <2>1. CASE ioq_empty(queue[cur])
    BY <1>3, <1>4, <2>1 DEF ioq_getchar
  <2>2. CASE ~ ioq_empty(queue[cur])
    <3>1. /\ pc[cur] = "get" /\ pc'[cur] \in {"get", "ret"} /\ UNCHANGED <<queue, head, consumer>>
          /\ \A t \in Thread : t # cur => pc'[t] = pc[t]
          /\ \A r \in Queue : r # queue[cur] => tail'[r] = tail[r]
      BY <1>0, <1>4, <2>2 DEF ioq_getchar
    <3>2. NoMissedKey'
      BY <1>0, <2>2, <3>1 DEF KbdInv, NoMissedKey, ioq_empty
    <3> QED BY <3>1, <3>2 DEF KbdInv
  <2> QED BY <2>1, <2>2
<1>5. CASE \E b \in Byte : ioq_putchar(b)
  <2>1. CASE ioq_full(queue[cur])
    BY <1>3, <1>5, <2>1 DEF ioq_putchar
  <2>2. CASE ~ ioq_full(queue[cur])
    <3>1. /\ pc[cur] = "put" /\ pc'[cur] \in {"put", "ret"} /\ UNCHANGED <<queue, tail>>
          /\ \A t \in Thread : t # cur => pc'[t] = pc[t]
          /\ head'["kbd"] = head["kbd"] /\ consumer'["kbd"] = consumer["kbd"]
      BY <1>0, <1>5, <2>2 DEF ioq_putchar, KbdInv
    <3>2. NoMissedKey'
      BY <1>0, <2>2, <3>1 DEF KbdInv, NoMissedKey, ioq_empty
    <3> QED BY <3>1, <3>2 DEF KbdInv
  <2> QED BY <2>1, <2>2
<1>6. CASE \E b \in Key : intr_keyboard_handler(b)
  BY <1>0, <1>6 DEF intr_keyboard_handler, KbdInv, NoMissedKey, callVars
<1>7. CASE RetryLock
  BY <1>3, <1>7 DEF RetryLock
<1>8. CASE ReleaseLock
  <2>1. /\ UNCHANGED <<head, tail, consumer, queue>> /\ pc[cur] \in {"getwait", "putwait"}
        /\ pc' = [pc EXCEPT ![cur] = IF pc[cur] = "getwait" THEN "get" ELSE "put"]
    BY <1>8 DEF ReleaseLock, GoTo, ringVars
  <2> QED BY <1>0, <2>1 DEF KbdInv, NoMissedKey, ioq_empty
<1>9. CASE SysReturn
  <2>1. /\ UNCHANGED <<head, tail, consumer, queue>> /\ pc' = [pc EXCEPT ![cur] = "user"]
    BY <1>9 DEF SysReturn, GoTo, ringVars
  <2> QED BY <1>0, <2>1 DEF KbdInv, NoMissedKey, ioq_empty
<1> QED BY <1>1, <1>2, <1>4, <1>5, <1>6, <1>7, <1>8, <1>9
        DEF IOQNext, Preempt, ioqVars, ringVars, callVars

----------------------------------------------------------------------------
(* A ring is a first-in first-out queue.                                    *)

\* The bytes that a ring with buffer b, head h and tail t holds.
Used(h, t) == IF h >= t THEN h - t ELSE bufsize - (t - h)
Slot(t, i) == (t + i - 1) % bufsize
Held(b, h, t) == [i \in 1..Used(h, t) |-> b[Slot(t, i)]]

LEMMA ContentsHeld == \A q : Contents(q) = Held(buf[q], head[q], tail[q])
<1> QED BY DEF Contents, Held, Used, Slot, ioq_length

LEMMA SlotLemma ==
    ASSUME NEW t \in Pos, NEW i \in 1..bufsize
    PROVE  /\ Slot(t, i) \in Pos
           /\ Slot(t, i) = IF t + i - 1 < bufsize THEN t + i - 1 ELSE t + i - 1 - bufsize
<1>1. bufsize \in Nat /\ bufsize > 1 /\ t \in 0..(bufsize - 1)
  BY QueueAssumption DEF Pos
<1>2. PICK a : a = t + i - 1
  OBVIOUS
<1>3. a \in Nat /\ a < 2 * bufsize
  BY <1>1, <1>2
<1>4. Slot(t, i) = IF a < bufsize THEN a ELSE a - bufsize
  BY <1>2, <1>3, Wrap DEF Slot
<1> QED BY <1>1, <1>2, <1>3, <1>4 DEF Pos

LEMMA HeldType ==
    ASSUME NEW b \in [Pos -> Byte], NEW h \in Pos, NEW t \in Pos
    PROVE  /\ Used(h, t) \in 0..(bufsize - 1)
           /\ Held(b, h, t) \in Seq(Byte)
           /\ Len(Held(b, h, t)) = Used(h, t)
           /\ \A i \in 1..Used(h, t) : Held(b, h, t)[i] = b[Slot(t, i)]
<1>1. bufsize \in Nat /\ bufsize > 1 /\ t \in 0..(bufsize - 1) /\ h \in 0..(bufsize - 1)
  BY QueueAssumption DEF Pos
<1>2. Used(h, t) \in 0..(bufsize - 1)
  BY <1>1 DEF Used
<1>3. PICK n \in 0..(bufsize - 1) : n = Used(h, t)
  BY <1>2
<1>4. \A i \in 1..n : i \in 1..bufsize /\ b[Slot(t, i)] \in Byte
  <2> SUFFICES ASSUME NEW i \in 1..n PROVE i \in 1..bufsize /\ b[Slot(t, i)] \in Byte
    OBVIOUS
  <2>1. i \in 1..bufsize
    BY <1>1
  <2> QED BY <2>1, SlotLemma
<1>5. /\ Held(b, h, t) = [i \in 1..n |-> b[Slot(t, i)]]
      /\ n \in Nat
  BY <1>1, <1>3 DEF Held
<1>6. Held(b, h, t) \in [1..n -> Byte]
  BY <1>4, <1>5
<1>7. Held(b, h, t) \in Seq(Byte) /\ Len(Held(b, h, t)) = n
  BY <1>5, <1>6
<1> QED BY <1>2, <1>3, <1>5, <1>7

\* ioq_putchar on a ring that is not full appends the byte.
LEMMA PutHeld ==
    ASSUME NEW b \in [Pos -> Byte], NEW h \in Pos, NEW t \in Pos, NEW x \in Byte,
           NEW c, c = [b EXCEPT ![h] = x], next_pos(h) # t
    PROVE  /\ Len(Held(b, h, t)) < bufsize - 1
           /\ Held(c, next_pos(h), t) = Append(Held(b, h, t), x)
<1> DEFINE g == next_pos(h)
           n == Used(h, t)
<1>1. bufsize \in Nat /\ bufsize > 1 /\ t \in 0..(bufsize - 1) /\ h \in 0..(bufsize - 1)
  BY QueueAssumption DEF Pos
<1>2. g \in Pos /\ g = IF h = bufsize - 1 THEN 0 ELSE h + 1
  BY NextPos
<1>3. c \in [Pos -> Byte]
  OBVIOUS
<1>4. n \in 0..(bufsize - 2) /\ Used(g, t) = n + 1
  BY <1>1, <1>2 DEF Used
<1>5. Slot(t, n + 1) = h
  <2>1. n + 1 \in 1..bufsize
    BY <1>1, <1>4
  <2>2. Slot(t, n + 1) = IF t + (n + 1) - 1 < bufsize THEN t + (n + 1) - 1 ELSE t + (n + 1) - 1 - bufsize
    BY <2>1, SlotLemma
  <2> QED BY <1>1, <2>2 DEF Used
<1>6. ASSUME NEW i \in 1..n PROVE Slot(t, i) \in Pos /\ Slot(t, i) # h
  <2>1. i \in 1..bufsize
    BY <1>1, <1>4
  <2>2. Slot(t, i) \in Pos /\ Slot(t, i) = IF t + i - 1 < bufsize THEN t + i - 1 ELSE t + i - 1 - bufsize
    BY <2>1, SlotLemma
  <2> QED BY <1>1, <2>2 DEF Used
<1>7. /\ Held(b, h, t) \in Seq(Byte) /\ Len(Held(b, h, t)) = n
      /\ \A i \in 1..n : Held(b, h, t)[i] = b[Slot(t, i)]
  BY HeldType
<1>8. \A i \in 1..n : c[Slot(t, i)] = b[Slot(t, i)]
  BY <1>6
<1>9. c[Slot(t, n + 1)] = x
  BY <1>5
<1> HIDE DEF g, n
<1>10. /\ Held(c, g, t) \in Seq(Byte) /\ Len(Held(c, g, t)) = n + 1
       /\ \A i \in 1..(n + 1) : Held(c, g, t)[i] = c[Slot(t, i)]
  <2>1. g \in Pos /\ Used(g, t) = n + 1
    BY <1>2, <1>4
  <2>2. /\ Held(c, g, t) \in Seq(Byte) /\ Len(Held(c, g, t)) = Used(g, t)
        /\ \A i \in 1..Used(g, t) : Held(c, g, t)[i] = c[Slot(t, i)]
    BY <1>3, <2>1, HeldType
  <2> QED BY <2>1, <2>2
<1>11. PICK u \in Seq(Byte), v \in Seq(Byte) : u = Held(b, h, t) /\ v = Held(c, g, t)
  BY <1>7, <1>10
<1>12. /\ n \in Nat /\ Len(u) = n /\ Len(v) = n + 1 /\ v[n + 1] = x
       /\ \A i \in 1..n : v[i] = u[i]
  <2>1. n \in Nat /\ n + 1 \in 1..(n + 1) /\ \A i \in 1..n : i \in 1..(n + 1)
    BY <1>1, <1>4
  <2> QED BY <1>7, <1>8, <1>9, <1>10, <1>11, <2>1
<1>13. v = Append(u, x)
  BY <1>12
<1>14. Len(u) < bufsize - 1
  BY <1>1, <1>4, <1>12
<1> QED BY <1>11, <1>13, <1>14 DEF g

\* ioq_getchar on a ring that is not empty takes the oldest byte.
LEMMA GetHeld ==
    ASSUME NEW b \in [Pos -> Byte], NEW h \in Pos, NEW t \in Pos, h # t
    PROVE  /\ Held(b, h, t) # <<>>
           /\ Held(b, h, next_pos(t)) = Tail(Held(b, h, t))
<1> DEFINE g == next_pos(t)
           n == Used(h, t)
<1>1. bufsize \in Nat /\ bufsize > 1 /\ t \in 0..(bufsize - 1) /\ h \in 0..(bufsize - 1)
  BY QueueAssumption DEF Pos
<1>2. g \in Pos /\ g = IF t = bufsize - 1 THEN 0 ELSE t + 1
  BY NextPos
<1>3. n \in 1..(bufsize - 1) /\ Used(h, g) = n - 1
  BY <1>1, <1>2 DEF Used
<1>4. ASSUME NEW i \in 1..(n - 1) PROVE Slot(g, i) = Slot(t, i + 1)
  <2>1. i \in 1..bufsize /\ i + 1 \in 1..bufsize
    BY <1>1, <1>3
  <2>2. Slot(g, i) = IF g + i - 1 < bufsize THEN g + i - 1 ELSE g + i - 1 - bufsize
    BY <1>2, <2>1, SlotLemma
  <2>3. Slot(t, i + 1) = IF t + (i + 1) - 1 < bufsize THEN t + (i + 1) - 1 ELSE t + (i + 1) - 1 - bufsize
    BY <2>1, SlotLemma
  <2> QED BY <1>1, <1>2, <1>3, <2>2, <2>3
<1>5. /\ Held(b, h, t) \in Seq(Byte) /\ Len(Held(b, h, t)) = n
      /\ \A i \in 1..n : Held(b, h, t)[i] = b[Slot(t, i)]
  BY HeldType
<1>6. /\ Held(b, h, g) \in Seq(Byte) /\ Len(Held(b, h, g)) = n - 1
      /\ \A i \in 1..(n - 1) : Held(b, h, g)[i] = b[Slot(g, i)]
  BY <1>2, <1>3, HeldType
<1> HIDE DEF g, n
<1>7. PICK u \in Seq(Byte), v \in Seq(Byte) : u = Held(b, h, t) /\ v = Held(b, h, g)
  BY <1>5, <1>6
<1>8. /\ n \in Nat /\ n > 0 /\ Len(u) = n /\ Len(v) = n - 1
       /\ \A i \in 1..(n - 1) : v[i] = u[i + 1]
  <2>1. n \in Nat /\ n > 0 /\ \A i \in 1..(n - 1) : i + 1 \in 1..n
    BY <1>1, <1>3
  <2> QED BY <1>4, <1>5, <1>6, <1>7, <2>1
<1>9. u # <<>> /\ v = Tail(u)
  BY <1>8
<1> QED BY <1>7, <1>9 DEF g

\* What the step does to the contents of every queue.
PutStep(q, b) ==
    /\ ~ ioq_full(q)
    /\ buf' = [buf EXCEPT ![q][head[q]] = b]
    /\ head' = [head EXCEPT ![q] = next_pos(@)]
    /\ tail' = tail
GetStep(q) ==
    /\ ~ ioq_empty(q)
    /\ tail' = [tail EXCEPT ![q] = next_pos(@)]
    /\ UNCHANGED <<buf, head>>

\* Only ioq_putchar, ioq_getchar and the keyboard interrupt touch a ring.
LEMMA RingSteps ==
    ASSUME IOQInv, [IOQNext]_ioqVars
    PROVE  \/ \E q \in Queue : GetStep(q) \/ \E b \in Byte : PutStep(q, b)
           \/ UNCHANGED ringVars
<1>0. queue[cur] \in Queue /\ "kbd" \in Queue
  BY Sleepers DEF IOQInv, RingInv, IOQTypeOK, Queue
<1>1. CASE ioq_getchar
  BY <1>0, <1>1 DEF ioq_getchar, GetStep, ringVars
<1>2. CASE \E b \in Byte : ioq_putchar(b)
  BY <1>0, <1>2 DEF ioq_putchar, PutStep, ringVars
<1>3. CASE \E b \in Key : intr_keyboard_handler(b)
  BY <1>0, <1>3, QueueAssumption DEF intr_keyboard_handler, PutStep
<1> QED BY <1>1, <1>2, <1>3
        DEF IOQNext, sys_read, pipe_read, pipe_write, Enter, RetryLock, ReleaseLock, SysReturn,
            Preempt, ioqVars

LEMMA FifoStep == IOQInv /\ [IOQNext]_ioqVars => [Ring!FifoNext]_[q \in Queue |-> Contents(q)]
<1> SUFFICES ASSUME IOQInv, [IOQNext]_ioqVars
             PROVE  Ring!FifoNext \/ UNCHANGED [q \in Queue |-> Contents(q)]
  OBVIOUS
<1> DEFINE C == [q \in Queue |-> Contents(q)]
<1>0. /\ head \in [Queue -> Pos] /\ tail \in [Queue -> Pos] /\ buf \in [Queue -> [Pos -> Byte]]
  BY DEF IOQInv, RingInv, IOQTypeOK
<1>1. CASE UNCHANGED ringVars
  BY <1>1 DEF ringVars, Contents, ioq_length
<1>2. ASSUME NEW q \in Queue, GetStep(q) PROVE Ring!Get(q)
  <2>1. Contents(q) # <<>> /\ Contents(q)' = Tail(Contents(q))
    <3>1. /\ tail'[q] = next_pos(tail[q]) /\ head'[q] = head[q] /\ buf'[q] = buf[q]
          /\ head[q] # tail[q]
      BY <1>0, <1>2 DEF GetStep, ioq_empty
    <3>2. Contents(q)' = Held(buf'[q], head'[q], tail'[q])
      BY DEF Contents, Held, Used, Slot, ioq_length
    <3> QED BY <1>0, <3>1, <3>2, ContentsHeld, GetHeld
  <2>2. \A r \in Queue : r # q => Contents(r)' = Contents(r)
    BY <1>0, <1>2 DEF GetStep, Contents, ioq_length
  <2>3. C' = [C EXCEPT ![q] = Tail(@)]
    BY <2>1, <2>2
  <2> QED BY <2>1, <2>3 DEF Ring!Get
<1>3. ASSUME NEW q \in Queue, NEW b \in Byte, PutStep(q, b) PROVE Ring!Put(q, b)
  <2>1. Len(Contents(q)) < bufsize - 1 /\ Contents(q)' = Append(Contents(q), b)
    <3>1. /\ head'[q] = next_pos(head[q]) /\ tail'[q] = tail[q] /\ buf'[q] = [buf[q] EXCEPT ![head[q]] = b]
          /\ next_pos(head[q]) # tail[q]
      BY <1>0, <1>3 DEF PutStep, ioq_full
    <3>2. Contents(q)' = Held(buf'[q], head'[q], tail'[q])
      BY DEF Contents, Held, Used, Slot, ioq_length
    <3>3. PICK a \in [Pos -> Byte], h \in Pos, t \in Pos :
             a = buf[q] /\ h = head[q] /\ t = tail[q]
      BY <1>0
    <3>4. PICK c : c = buf'[q]
      OBVIOUS
    <3>5. c = [a EXCEPT ![h] = b] /\ next_pos(h) # t
      BY <3>1, <3>3, <3>4
    <3>6. Len(Held(a, h, t)) < bufsize - 1 /\ Held(c, next_pos(h), t) = Append(Held(a, h, t), b)
      BY <3>5, PutHeld
    <3>7. Contents(q) = Held(a, h, t)
      BY <3>3, ContentsHeld
    <3>8. Contents(q)' = Held(c, next_pos(h), t)
      BY <3>1, <3>2, <3>3, <3>4
    <3> QED BY <3>6, <3>7, <3>8, Zenon
  <2>2. \A r \in Queue : r # q => Contents(r)' = Contents(r)
    BY <1>0, <1>3 DEF PutStep, Contents, ioq_length
  <2>3. C' = [C EXCEPT ![q] = Append(@, b)]
    BY <2>1, <2>2
  <2> QED BY <2>1, <2>3 DEF Ring!Put
<1> QED BY <1>1, <1>2, <1>3, RingSteps DEF Ring!FifoNext

LEMMA FifoInitLemma == IOQInit => Ring!FifoInit
<1> SUFFICES ASSUME IOQInit, NEW q \in Queue PROVE Contents(q) = <<>>
  BY DEF Ring!FifoInit
<1>1. ioq_length(q) = 0
  BY DEF IOQInit, ioq_length
<1> QED BY <1>1 DEF Contents

----------------------------------------------------------------------------
(* Theorems.                                                                *)

\* Types, the calls under way, the locks and the slots of both queues.
THEOREM IOQInvariant == IOQSpec => []IOQInv
<1>1. IOQInit => IOQInv
  BY IOQInitLemma
<1>2. IOQInv /\ [IOQNext]_ioqVars => IOQInv'
  <2>1. IOQInv /\ [IOQNext]_ioqVars => SchedInv'
    BY IOQSchedStep, SchedStep DEF IOQInv
  <2> QED BY <2>1, RingStep, LockStep DEF IOQInv
<1> QED BY <1>1, <1>2, PTL DEF IOQSpec

\* A waiter slot names a thread that sleeps in ioq_wait with the lock, and the
\* slots are empty while the lock is free: the ASSERTs of ioq_wait, wakeup and
\* thread_unblock cannot fail (ioqueue.c).
THEOREM WaiterSlotTheorem == IOQSpec => []WaiterSlotSafe
<1>1. IOQInv => WaiterSlotSafe
  BY DEF IOQInv, LockInv
<1> QED BY <1>1, IOQInvariant, PTL

\* The waiters of a queue's lock sleep in lock_acquire, and a free lock with
\* waiters has one on its way to take it.
THEOREM LockWaitersTheorem == IOQSpec => []LockWaitersServed
<1>1. IOQInv => LockWaitersServed
  BY DEF IOQInv, LockInv
<1> QED BY <1>1, IOQInvariant, PTL

\* With one reader of standard input, the reader sleeps in ioq_wait only while
\* no key is in kbd_buf.
THEOREM NoMissedKeyTheorem == OneReader => (IOQSpec => []NoMissedKey)
<1> SUFFICES ASSUME OneReader PROVE IOQSpec => []NoMissedKey
  OBVIOUS
<1>1. IOQInit => KbdInv
  BY KbdInitLemma
<1>2. IOQInv /\ KbdInv /\ [IOQNext]_ioqVars => KbdInv'
  BY KbdStep
<1>3. KbdInv => NoMissedKey
  BY DEF KbdInv
<1> QED BY <1>1, <1>2, <1>3, IOQInvariant, PTL DEF IOQSpec

\* Both rings are first-in first-out and hold at most bufsize - 1 bytes,
\* whoever puts and whoever gets.
THEOREM RingImplementsFifo == IOQSpec => RingIsFifo
<1>1. IOQInit => Ring!FifoInit
  BY FifoInitLemma
<1>2. IOQInv /\ [IOQNext]_ioqVars => [Ring!FifoNext]_[q \in Queue |-> Contents(q)]
  BY FifoStep
<1> QED BY <1>1, <1>2, IOQInvariant, PTL DEF IOQSpec, RingIsFifo, Ring!FifoSpec

\* The queues use the scheduler as every thread does: IOQueue implements Sched.
THEOREM IOQueueImplementsSched == IOQSpec => SchedSpec
<1>1. IOQInit => SchedInit
  BY DEF IOQInit
<1>2. IOQInv /\ [IOQNext]_ioqVars => [SchedNext]_schedVars
  BY IOQSchedStep
<1> QED BY <1>1, <1>2, IOQInvariant, PTL DEF IOQSpec, SchedSpec
=============================================================================
