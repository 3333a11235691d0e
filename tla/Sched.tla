------------------------------- MODULE Sched -------------------------------
(***************************************************************************)
(* The thread scheduler: thread/thread.c (schedule, thread_yield,          *)
(* thread_block, thread_unblock, thread_exit, thread_start, idle), the     *)
(* timer interrupt of device/timer.c and the interrupt flag of             *)
(* kernel/interrupt.c, on one CPU.                                         *)
(*                                                                         *)
(* A step is a stretch of kernel code that runs with interrupts off, or    *)
(* one that nobody else can observe.  What threads do in between is left   *)
(* open: this module is what every other module of the kernel refines.     *)
(***************************************************************************)
EXTENDS Integers, Sequences

CONSTANTS
    Thread,        \* every PCB that can exist
    idle_thread,   \* thread.c: the thread that runs when the ready list is empty
    main_thread,   \* the thread that executes init_all
    Priority,      \* priority of each thread: the length of its time slice
    BootReady      \* thread_ready_list when init_all enables interrupts

\* elem_find: is thread t linked into the list s?
elem_find(s, t) == \E i \in 1..Len(s) : s[i] = t

\* No thread is linked twice into the list s.
NoDup(s) == \A i, j \in 1..Len(s) : s[i] = s[j] => i = j

\* list_push, list_append, list_remove.
list_push(s, t)   == <<t>> \o s
list_append(s, t) == Append(s, t)
list_remove(s, t) ==
    LET k == CHOOSE i \in 1..Len(s) : s[i] = t
    IN  [i \in 1..(Len(s) - 1) |-> IF i < k THEN s[i] ELSE s[i + 1]]

\* priority and ticks are uint8_t; thread_start is never given priority 0.
ASSUME ThreadAssumption ==
    /\ idle_thread \in Thread
    /\ main_thread \in Thread
    /\ idle_thread # main_thread
    /\ Priority \in [Thread -> 1..255]

\* thread_init and ksoftirqd_init start the boot threads one after the other.
ASSUME BootAssumption ==
    /\ BootReady \in Seq(Thread)
    /\ NoDup(BootReady)
    /\ elem_find(BootReady, idle_thread)
    /\ ~ elem_find(BootReady, main_thread)

VARIABLES
    status,   \* task_struct.status
    ready,    \* thread_ready_list
    ticks,    \* task_struct.ticks: what is left of the time slice
    cur,      \* running_thread()
    intr,     \* the interrupt flag of eflags
    saved     \* the flag a suspended thread goes on with once it is switched to

schedVars == <<status, ready, ticks, cur, intr, saved>>

IntrStatus == {"INTR_ON", "INTR_OFF"}

\* What thread_block accepts, and what thread_unblock expects.
Stopped == {"TASK_BLOCKED", "TASK_WAITING", "TASK_HANGING"}

\* enum task_status; TASK_DIED also stands for a PCB that is not allocated.
TaskStatus == {"TASK_RUNNING", "TASK_READY", "TASK_DIED"} \cup Stopped

----------------------------------------------------------------------------
(* Mutations of the definitions below, used to test the properties.        *)

\* The preempted thread goes to the front of the ready list.
RequeueFront(st, rdy) == IF st[cur] = "TASK_RUNNING" THEN list_push(rdy, cur) ELSE rdy

\* The preempted idle thread is not linked again.
RequeueNoIdle(st, rdy) ==
    IF st[cur] = "TASK_RUNNING" /\ cur # idle_thread THEN list_append(rdy, cur) ELSE rdy

\* The slice of a preempted thread is not refilled.
RefillForgotten(st) == IF st[cur] = "TASK_RUNNING" THEN [ticks EXCEPT ![cur] = 0] ELSE ticks

\* thread_yield leaves the status TASK_RUNNING, so that schedule links it again.
YieldTwice == <<status, list_append(ready, cur)>>

----------------------------------------------------------------------------
(* schedule, called with the statuses st and the ready list rdy, first puts *)
(* a caller that is still running at the tail of the list, with a full     *)
(* slice.                                                                   *)
Requeue(st, rdy) == IF st[cur] = "TASK_RUNNING" THEN list_append(rdy, cur) ELSE rdy

Refill(st) == IF st[cur] = "TASK_RUNNING" THEN [ticks EXCEPT ![cur] = Priority[cur]] ELSE ticks

(* If the list is empty it unblocks the idle thread; the head of the list   *)
(* runs next, with the interrupt flag it had when it was switched away.     *)
schedule(st, rdy, sv) ==
    LET queue == IF Requeue(st, rdy) = <<>>
                 THEN list_push(<<>>, idle_thread)
                 ELSE Requeue(st, rdy)
        next  == Head(queue)
    IN  /\ status' = [t \in Thread |->
                        IF t = next THEN "TASK_RUNNING"
                        ELSE IF t = cur /\ st[t] = "TASK_RUNNING" THEN "TASK_READY"
                        ELSE st[t]]
        /\ ready' = Tail(queue)
        /\ ticks' = Refill(st)
        /\ cur' = next
        /\ saved' = sv
        /\ intr' = sv[next]

\* thread_block(stat), called with the interrupt flag old.
thread_block(stat, old) ==
    schedule([status EXCEPT ![cur] = stat], ready, [saved EXCEPT ![cur] = old])

\* thread_unblock(t): t is pushed at the front of the ready list.
thread_unblock(t) ==
    /\ status' = [status EXCEPT ![t] = "TASK_READY"]
    /\ ready' = list_push(ready, t)

\* What thread_yield does before it calls schedule.
YieldPrepared ==
    <<[status EXCEPT ![cur] = "TASK_READY"], list_append(ready, cur)>>

thread_yield ==
    schedule(YieldPrepared[1], YieldPrepared[2], [saved EXCEPT ![cur] = intr])

\* intr_timer_handler: entered only with interrupts on, left by iret, which
\* turns them on again.  ticks is a uint8_t.
intr_timer_handler ==
    /\ intr = "INTR_ON"
    /\ LET left == (ticks[cur] + 255) % 256
       IN  IF left = 0
           THEN schedule(status, ready, [saved EXCEPT ![cur] = "INTR_ON"])
           ELSE /\ ticks' = [ticks EXCEPT ![cur] = left]
                /\ UNCHANGED <<status, ready, cur, intr, saved>>

\* thread_start, and the tail of fork: PCB t comes into being.  A new thread
\* starts in kernel_thread or intr_exit, which turn interrupts on.
thread_start(t) ==
    /\ status' = [status EXCEPT ![t] = "TASK_READY"]
    /\ ready' = list_append(ready, t)
    /\ ticks' = [ticks EXCEPT ![t] = Priority[t]]
    /\ saved' = [saved EXCEPT ![t] = "INTR_ON"]
    /\ UNCHANGED <<cur, intr>>

\* thread_exit(t, need_schedule).
thread_exit(t, need_schedule) ==
    LET st  == [status EXCEPT ![t] = "TASK_DIED"]
        rdy == IF elem_find(ready, t) THEN list_remove(ready, t) ELSE ready
    IN  IF need_schedule
        THEN schedule(st, rdy, saved)
        ELSE /\ status' = st
             /\ ready' = rdy
             /\ intr' = "INTR_OFF"
             /\ UNCHANGED <<ticks, cur, saved>>

----------------------------------------------------------------------------
SchedInit ==
    /\ status = [t \in Thread |->
                   IF t = main_thread THEN "TASK_RUNNING"
                   ELSE IF elem_find(BootReady, t) THEN "TASK_READY"
                   ELSE "TASK_DIED"]
    /\ ready = BootReady
    /\ ticks = [t \in Thread |-> Priority[t]]
    /\ cur = main_thread
    /\ intr = "INTR_ON"
    /\ saved = [t \in Thread |-> "INTR_ON"]

\* The idle loop: thread_block(TASK_BLOCKED); sti; hlt.
Idle ==
    /\ cur = idle_thread
    /\ thread_block("TASK_BLOCKED", intr)

\* The running thread gives up the CPU: in sema_down, ioq_wait, sys_wait, ...
\* which may have turned interrupts off first.
Block(stat, old) ==
    /\ cur # idle_thread
    /\ stat \in Stopped
    /\ old \in {intr, "INTR_OFF"}
    /\ thread_block(stat, old)

Yield ==
    /\ cur # idle_thread
    /\ thread_yield

\* The running thread, or an interrupt handler on top of it, wakes a thread.
\* schedule alone unblocks the idle thread.
Unblock(t) ==
    /\ t # idle_thread
    /\ status[t] \in Stopped
    /\ thread_unblock(t)
    /\ UNCHANGED <<ticks, cur, intr, saved>>

\* intr_disable / intr_enable, int 0x80 and iret.
IntrDisable ==
    /\ cur # idle_thread
    /\ intr = "INTR_ON"
    /\ intr' = "INTR_OFF"
    /\ UNCHANGED <<status, ready, ticks, cur, saved>>

IntrEnable ==
    /\ intr = "INTR_OFF"
    /\ intr' = "INTR_ON"
    /\ UNCHANGED <<status, ready, ticks, cur, saved>>

\* fork: a process creates another one.
Start(t) ==
    /\ cur # idle_thread
    /\ status[t] = "TASK_DIED"
    /\ thread_start(t)

\* main ends itself; sys_wait ends a child that is TASK_HANGING.
ExitSelf ==
    /\ cur # idle_thread
    /\ thread_exit(cur, TRUE)

Reap(t) ==
    /\ cur # idle_thread
    /\ t # idle_thread
    /\ status[t] = "TASK_HANGING"
    /\ thread_exit(t, FALSE)

SchedNext ==
    \/ intr_timer_handler
    \/ Idle
    \/ \E stat \in Stopped, old \in IntrStatus : Block(stat, old)
    \/ Yield
    \/ \E t \in Thread : Unblock(t) \/ Start(t) \/ Reap(t)
    \/ IntrDisable
    \/ IntrEnable
    \/ ExitSelf

SchedSpec == SchedInit /\ [][SchedNext]_schedVars

(* A pending timer interrupt stays latched in the 8259, so it is taken if    *)
(* interrupts are on again and again (strong fairness); system calls return *)
(* and so turn them on again and again.                                     *)
SchedFairSpec ==
    SchedSpec /\ SF_schedVars(intr_timer_handler) /\ SF_schedVars(IntrEnable)

----------------------------------------------------------------------------
\* Every variable has its type.  ticks is 1..priority whenever a handler is
\* done: the uint8_t decrement of intr_timer_handler (timer.c:41) never wraps.
SchedTypeOK ==
    /\ status \in [Thread -> TaskStatus]
    /\ ready \in Seq(Thread)
    /\ ticks \in [Thread -> 1..255]
    /\ \A t \in Thread : ticks[t] <= Priority[t]
    /\ cur \in Thread
    /\ intr \in IntrStatus
    /\ saved \in [Thread -> IntrStatus]

\* thread_ready_list holds the TASK_READY threads, each once, and the running
\* thread alone is TASK_RUNNING: the ASSERTs on elem_find in schedule,
\* thread_yield, thread_start and thread_unblock cannot fail.
ReadyExact ==
    /\ NoDup(ready)
    /\ \A t \in Thread : elem_find(ready, t) <=> status[t] = "TASK_READY"
    /\ \A t \in Thread : t = cur <=> status[t] = "TASK_RUNNING"

\* When schedule finds the ready list empty, the idle thread is one that
\* thread_unblock accepts (its ASSERT on the status, thread.c:318).
IdleAvailable ==
    /\ status[idle_thread] \in {"TASK_RUNNING", "TASK_READY", "TASK_BLOCKED"}
    /\ (cur # idle_thread /\ ready = <<>>) => status[idle_thread] = "TASK_BLOCKED"

\* thread_unblock pushes at the front of the ready list, yet every ready thread
\* runs: each overtaking thread sooner or later uses up its slice and is
\* appended behind it.
StarvationFree ==
    \A t \in Thread : (status[t] = "TASK_READY") ~> (status[t] # "TASK_READY")
=============================================================================
