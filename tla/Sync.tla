-------------------------------- MODULE Sync --------------------------------
(***************************************************************************)
(* Semaphores and recursive locks: thread/sync.c, on top of the scheduler.  *)
(* sema_down and sema_up run with interrupts off; lock_acquire and          *)
(* lock_release do not turn them off, so a kernel thread can be preempted   *)
(* between the semaphore operation and the assignments to holder and        *)
(* holder_repeat_nr.  Each such window is a value of pc.                    *)
(***************************************************************************)
EXTENDS Sched

CONSTANTS
    Lock,       \* every struct lock
    NULL,       \* holder of a free lock
    MaxDepth    \* bound on nested lock_acquire of one lock by one thread

ASSUME LockAssumption == NULL \notin Thread /\ MaxDepth \in Nat

VARIABLES
    value,              \* lock.semaphore.value
    waiters,            \* lock.semaphore.waiters
    holder,             \* lock.holder
    holder_repeat_nr,   \* lock.holder_repeat_nr
    pc,                 \* where in lock_acquire / lock_release a thread is
    want,               \* the lock it was called with
    old_status,         \* the local old_status of its sema_down
    held                \* acquisitions it still has to release (history)

lockVars == <<value, waiters, holder, holder_repeat_nr, pc, want, old_status, held>>
syncVars == <<schedVars, lockVars>>

PC == {"run",    \* outside sync.c
       "down",   \* lock_acquire found another holder, sema_down not begun
       "wait",   \* in the loop of sema_down, having been appended to waiters
       "own",    \* semaphore taken, holder not yet assigned
       "nr",     \* holder assigned, holder_repeat_nr not yet
       "rel",    \* holder cleared, holder_repeat_nr not yet
       "up"}     \* sema_up not begun

----------------------------------------------------------------------------
(* Mutations of the definitions below, used to test the properties.        *)

\* sema_down tests the value once instead of in a loop.
sema_down_if(l) ==
    /\ pc[cur] = "wait"
    /\ value' = [value EXCEPT ![l] = 0]
    /\ pc' = [pc EXCEPT ![cur] = "own"]
    /\ intr' = old_status[cur]
    /\ UNCHANGED <<status, ready, ticks, cur, saved>>
    /\ UNCHANGED <<waiters, holder, holder_repeat_nr, want, old_status, held>>

\* sema_up leaves the thread it wakes among the waiters.
PoppedNot(l) == waiters[l]

\* lock_release forgets to reset holder_repeat_nr.
release_nr_forgotten(l) ==
    /\ pc[cur] = "rel"
    /\ pc' = [pc EXCEPT ![cur] = "up"]
    /\ UNCHANGED schedVars
    /\ UNCHANGED <<value, waiters, holder, holder_repeat_nr, want, old_status, held>>

\* sema_up wakes nobody.
sema_up_silent(l) ==
    /\ pc[cur] = "up"
    /\ value' = [value EXCEPT ![l] = 1]
    /\ pc' = [pc EXCEPT ![cur] = "run"]
    /\ UNCHANGED schedVars
    /\ UNCHANGED <<waiters, holder, holder_repeat_nr, want, old_status, held>>

\* sema_down takes the semaphore without decrementing it.
LoweredNot(l) == value[l]

----------------------------------------------------------------------------
\* value after sema_down took the semaphore, and after sema_up.
Lowered(l) == value[l] - 1
Raised(l)  == value[l] + 1

\* The waiters once sema_up has popped the one it wakes.
Popped(l) == Tail(waiters[l])

\* lock_acquire(l): the holder only counts, anybody else goes to sema_down.
lock_acquire(l) ==
    /\ cur # idle_thread
    /\ pc[cur] = "run"
    /\ held[<<cur, l>>] < MaxDepth
    /\ \/ /\ holder[l] # cur
          /\ pc' = [pc EXCEPT ![cur] = "down"]
          /\ want' = [want EXCEPT ![cur] = l]
          /\ UNCHANGED <<holder_repeat_nr, held>>
       \/ /\ holder[l] = cur
          /\ holder_repeat_nr' = [holder_repeat_nr EXCEPT ![l] = @ + 1]
          /\ held' = [held EXCEPT ![<<cur, l>>] = @ + 1]
          /\ UNCHANGED <<pc, want>>
    /\ UNCHANGED schedVars
    /\ UNCHANGED <<value, waiters, holder, old_status>>

\* The body of sema_down's loop: queue up and block, with interrupts off.
Enqueue(l) ==
    /\ value[l] = 0
    /\ waiters' = [waiters EXCEPT ![l] = list_append(@, cur)]
    /\ pc' = [pc EXCEPT ![cur] = "wait"]
    /\ thread_block("TASK_BLOCKED", "INTR_OFF")
    /\ UNCHANGED <<value, holder, holder_repeat_nr, want, held>>

\* sema_down from its first line: interrupts off, then the loop.
sema_down(l) ==
    /\ pc[cur] = "down"
    /\ \/ /\ Enqueue(l)
          /\ old_status' = [old_status EXCEPT ![cur] = intr]
       \/ /\ value[l] # 0
          /\ value' = [value EXCEPT ![l] = Lowered(l)]
          /\ pc' = [pc EXCEPT ![cur] = "own"]
          /\ UNCHANGED schedVars
          /\ UNCHANGED <<waiters, holder, holder_repeat_nr, want, old_status, held>>

\* sema_down after thread_block has returned: the loop tests the value again.
sema_down_again(l) ==
    /\ pc[cur] = "wait"
    /\ \/ /\ Enqueue(l)
          /\ UNCHANGED old_status
       \/ /\ value[l] # 0
          /\ value' = [value EXCEPT ![l] = Lowered(l)]
          /\ pc' = [pc EXCEPT ![cur] = "own"]
          /\ intr' = old_status[cur]
          /\ UNCHANGED <<status, ready, ticks, cur, saved>>
          /\ UNCHANGED <<waiters, holder, holder_repeat_nr, want, old_status, held>>

\* lock_acquire after sema_down.
acquire_holder(l) ==
    /\ pc[cur] = "own"
    /\ holder' = [holder EXCEPT ![l] = cur]
    /\ pc' = [pc EXCEPT ![cur] = "nr"]
    /\ UNCHANGED schedVars
    /\ UNCHANGED <<value, waiters, holder_repeat_nr, want, old_status, held>>

acquire_nr(l) ==
    /\ pc[cur] = "nr"
    /\ holder_repeat_nr' = [holder_repeat_nr EXCEPT ![l] = 1]
    /\ held' = [held EXCEPT ![<<cur, l>>] = @ + 1]
    /\ pc' = [pc EXCEPT ![cur] = "run"]
    /\ UNCHANGED schedVars
    /\ UNCHANGED <<value, waiters, holder, want, old_status>>

\* lock_release(l): callers release what they acquired.
lock_release(l) ==
    /\ pc[cur] = "run"
    /\ held[<<cur, l>>] > 0
    /\ held' = [held EXCEPT ![<<cur, l>>] = @ - 1]
    /\ \/ /\ holder_repeat_nr[l] > 1
          /\ holder_repeat_nr' = [holder_repeat_nr EXCEPT ![l] = @ - 1]
          /\ UNCHANGED <<holder, pc, want>>
       \/ /\ holder_repeat_nr[l] <= 1
          /\ holder' = [holder EXCEPT ![l] = NULL]
          /\ pc' = [pc EXCEPT ![cur] = "rel"]
          /\ want' = [want EXCEPT ![cur] = l]
          /\ UNCHANGED holder_repeat_nr
    /\ UNCHANGED schedVars
    /\ UNCHANGED <<value, waiters, old_status>>

release_nr(l) ==
    /\ pc[cur] = "rel"
    /\ holder_repeat_nr' = [holder_repeat_nr EXCEPT ![l] = 0]
    /\ pc' = [pc EXCEPT ![cur] = "up"]
    /\ UNCHANGED schedVars
    /\ UNCHANGED <<value, waiters, holder, want, old_status, held>>

sema_up(l) ==
    /\ pc[cur] = "up"
    /\ value' = [value EXCEPT ![l] = Raised(l)]
    /\ pc' = [pc EXCEPT ![cur] = "run"]
    /\ \/ /\ waiters[l] # <<>>
          /\ waiters' = [waiters EXCEPT ![l] = Popped(l)]
          /\ thread_unblock(Head(waiters[l]))
          /\ UNCHANGED <<ticks, cur, intr, saved>>
       \/ /\ waiters[l] = <<>>
          /\ UNCHANGED waiters
          /\ UNCHANGED schedVars
    /\ UNCHANGED <<holder, holder_repeat_nr, want, old_status, held>>

SyncInit ==
    /\ SchedInit
    /\ value = [l \in Lock |-> 1]
    /\ waiters = [l \in Lock |-> <<>>]
    /\ holder = [l \in Lock |-> NULL]
    /\ holder_repeat_nr = [l \in Lock |-> 0]
    /\ pc = [t \in Thread |-> "run"]
    /\ want \in [Thread -> Lock]
    /\ old_status = [t \in Thread |-> "INTR_ON"]
    /\ held = [x \in Thread \X Lock |-> 0]

\* The code of sync.c on behalf of the running thread.
LockStep ==
    \/ \E l \in Lock : lock_acquire(l) \/ lock_release(l)
    \/ \E l \in {want[cur]} :
          \/ sema_down(l) \/ sema_down_again(l) \/ acquire_holder(l)
          \/ acquire_nr(l) \/ release_nr(l) \/ sema_up(l)

\* What else happens: preemption at any point with interrupts on, the idle
\* loop, and threads that do something outside sync.c.  A thread ends with
\* no lock held; a thread that sleeps is woken by an interrupt or by another.
OtherStep ==
    /\ \/ intr_timer_handler
       \/ Idle
       \/ /\ pc[cur] = "run"
          /\ \/ Yield
             \/ IntrDisable
             \/ IntrEnable
             \/ Block("TASK_WAITING", intr)
             \/ (\A l \in Lock : held[<<cur, l>>] = 0) /\ ExitSelf
             \/ \E t \in Thread : Start(t)
       \/ \E t \in Thread : status[t] = "TASK_WAITING" /\ Unblock(t)
    /\ UNCHANGED lockVars

SyncNext == LockStep \/ OtherStep

SyncSpec == SyncInit /\ [][SyncNext]_syncVars

----------------------------------------------------------------------------
LockTypeOK ==
    /\ value \in [Lock -> 0..1]
    /\ holder \in [Lock -> Thread \cup {NULL}]
    /\ holder_repeat_nr \in [Lock -> Nat]
    /\ pc \in [Thread -> PC]
    /\ want \in [Thread -> Lock]
    /\ held \in [Thread \X Lock -> Nat]

\* Every variable has its type; a semaphore used as a lock is 0 or 1.
SyncTypeOK ==
    /\ LockTypeOK
    /\ waiters \in [Lock -> Seq(Thread)]
    /\ old_status \in [Thread -> IntrStatus]

\* t has taken the semaphore of l and not yet given it back.
Owns(t, l) == held[<<t, l>>] > 0 \/ (want[t] = l /\ pc[t] \in {"own", "nr", "rel", "up"})

\* From the moment sema_down returns to the moment sema_up begins a lock has
\* one owner, and the semaphore is 0 exactly then (the ASSERTs of sema_up and
\* sema_down on the value, sync.c:28, 34 and 40).
MutualExclusion ==
    /\ \A l \in Lock, t, u \in Thread : Owns(t, l) /\ Owns(u, l) => t = u
    /\ \A l \in Lock : value[l] = 0 <=> \E t \in Thread : Owns(t, l)

\* The ASSERTs of lock_acquire and lock_release (sync.c:48, 56 and 61): the
\* count of the lock is what its owner still has to release, and it is back
\* at 0 before the next owner sets it, whatever preempts whom in between.
HolderCountsRight ==
    \A t \in Thread, l \in Lock :
        /\ held[<<t, l>>] > 0 => holder[l] = t /\ holder_repeat_nr[l] = held[<<t, l>>]
        /\ pc[t] \in {"own", "nr"} /\ want[t] = l => holder_repeat_nr[l] = 0
        /\ holder[l] = t => Owns(t, l)

\* A thread is linked into the waiters of the one lock it waits for, once, and
\* then it is TASK_BLOCKED: sema_up never hands thread_unblock a thread that
\* runs, is ready or is gone (thread.c:318-322), sema_down never links twice.
WaitersAsleep ==
    \A l \in Lock :
        /\ NoDup(waiters[l])
        /\ \A t \in Thread : elem_find(waiters[l], t) =>
               status[t] = "TASK_BLOCKED" /\ pc[t] = "wait" /\ want[t] = l

\* No wakeup is lost: a thread asleep in the loop of sema_down is in the list,
\* and while a lock somebody waits for is free, one of the threads sema_up
\* has woken is still on its way to test the value again.
NoLostWakeup ==
    /\ \A t \in Thread : pc[t] = "wait" /\ status[t] = "TASK_BLOCKED" =>
           elem_find(waiters[want[t]], t)
    /\ \A l \in Lock : value[l] = 1 /\ waiters[l] # <<>> =>
           \E t \in Thread : /\ pc[t] = "wait"
                             /\ want[t] = l
                             /\ status[t] \in {"TASK_READY", "TASK_RUNNING"}
=============================================================================
