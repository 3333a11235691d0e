-------------------------------- MODULE Ide --------------------------------
(***************************************************************************)
(* A channel of the disk driver (device/ide.c): ide_read and ide_write by   *)
(* several threads, busy_wait with mtime_sleep (device/timer.c), and the    *)
(* interrupt of the disk, on top of the scheduler.                          *)
(*                                                                         *)
(* Processes call the driver inside system calls, with interrupts off; main *)
(* mounts the disk with interrupts on.  The channel's lock is its holder    *)
(* and its waiters (Sync shows why that is enough), disk_done a semaphore.  *)
(* Sector numbers and data are left out: a command is known by who gave it. *)
(* The disk is external: one interrupt for a command, as the driver expects. *)
(***************************************************************************)
EXTENDS Sched

CONSTANTS
    NULL,          \* no thread
    Machines,      \* quick: the disk asks for the data of a write at once;
                   \* users: the threads that use the disk;
                   \* commands: bound on those of a call (sec_cnt / 256, rounded up)
    TimeLimit      \* turns of busy_wait

ASSUME IdeAssumption ==
    /\ NULL \notin Thread
    /\ Machines \subseteq [quick : BOOLEAN, users : SUBSET (Thread \ {idle_thread}), commands : Nat \ {0}]
    /\ TimeLimit \in Nat \ {0}

VARIABLES
    holder, waiters,       \* channel->lock
    expecting_intr,
    disk_done, sleepers,   \* value and waiters of channel->disk_done
    disk, irq,             \* what the disk does, its interrupt latched in the 8259
    pc, op, left,          \* where a thread is, its operation, commands left
    time_limit, slept,     \* turns left to busy_wait; the tick of mtime_sleep has come
    machine,               \* one of Machines
    panic                  \* PANIC has been called

callVars == <<pc, op, left>>
lockVars == <<holder, waiters>>
waitVars == <<time_limit, slept>>
semVars  == <<disk_done, sleepers>>
diskVars == <<disk, irq, expecting_intr>>
ideVars  == <<schedVars, callVars, lockVars, waitVars, semVars, diskVars, machine, panic>>

PC == {"out", "lock", "select", "cmd", "down", "poll", "nap", "move", "next", "ret"}

\* The disk: idle, busy with a read, offering its data, busy before a write,
\* asking for its data, busy with it.
DiskState == {"idle", "reading", "offers", "preparing", "asks", "writing"}
BIT_STAT_BSY == disk.state \in {"reading", "preparing", "writing"}
BIT_STAT_DRQ == disk.state \in {"offers", "asks"}

----------------------------------------------------------------------------
(* Mutations of the definitions below, used to test the properties.         *)

\* ide_write releases the channel as soon as the data is out.
AfterMove_write(o) == "next"

\* sema_up only wakes: an interrupt before sema_down is forgotten.
Upped_wakes == IF sleepers = <<>> THEN disk_done ELSE disk_done + 1

----------------------------------------------------------------------------
GoTo(label) == pc' = [pc EXCEPT ![cur] = label] /\ UNCHANGED <<op, left>>

\* The interrupt flag a thread has in the driver, restored by intr_set_status.
OwnIntr(t) == IF t = main_thread THEN "INTR_ON" ELSE "INTR_OFF"
Restored == intr' = OwnIntr(cur) /\ UNCHANGED <<status, ready, ticks, cur, saved>>

\* sema_up's thread_unblock of the first of a list.
Awaken(list) ==
    IF list = <<>> THEN UNCHANGED schedVars
    ELSE thread_unblock(Head(list)) /\ UNCHANGED <<ticks, cur, intr, saved>>
Rest(list) == IF list = <<>> THEN <<>> ELSE Tail(list)

Upped  == disk_done + 1
Downed == disk_done - 1

\* A thread calls ide_read or ide_write for n commands, a process from a system
\* call it has just made or is in.
Call(o, n) ==
    /\ cur \in machine.users
    /\ pc[cur] \in {"out", "ret"}
    /\ pc' = [pc EXCEPT ![cur] = "lock"]
    /\ op' = [op EXCEPT ![cur] = o]
    /\ left' = [left EXCEPT ![cur] = n]
    /\ Restored
    /\ UNCHANGED <<lockVars, waitVars, semVars, diskVars>>

\* lock_acquire: a thread that has been woken tries again.
lock_acquire ==
    /\ pc[cur] = "lock"
    /\ \/ /\ holder = NULL
          /\ holder' = cur
          /\ GoTo("select")
          /\ Restored
          /\ UNCHANGED waiters
       \/ /\ holder # NULL
          /\ waiters' = list_append(waiters, cur)
          /\ thread_block("TASK_BLOCKED", "INTR_OFF")
          /\ UNCHANGED <<callVars, holder>>
    /\ UNCHANGED <<waitVars, semVars, diskVars>>

\* select_disk, select_sector and the first half of cmd_out.
expect_intr ==
    /\ pc[cur] = "select"
    /\ expecting_intr' = TRUE
    /\ GoTo("cmd")
    /\ UNCHANGED <<schedVars, lockVars, waitVars, semVars, disk, irq>>

\* What the disk does with a command.
Started(o) ==
    IF o = "read" THEN "reading" ELSE IF machine.quick THEN "asks" ELSE "preparing"

\* A read waits for the interrupt and then polls; a write polls at once.
AfterCmd(o) == IF o = "read" THEN "down" ELSE "poll"

\* The second half of cmd_out.
cmd_out ==
    /\ pc[cur] = "cmd"
    /\ disk' = [state |-> Started(op[cur]), by |-> cur]
    /\ GoTo(AfterCmd(op[cur]))
    /\ UNCHANGED <<schedVars, lockVars, waitVars, semVars, irq, expecting_intr>>

AfterDown(o) == IF o = "read" THEN "poll" ELSE "next"

sema_down ==
    /\ pc[cur] = "down"
    /\ \/ /\ disk_done = 0
          /\ sleepers' = list_append(sleepers, cur)
          /\ thread_block("TASK_BLOCKED", "INTR_OFF")
          /\ UNCHANGED <<callVars, disk_done>>
       \/ /\ disk_done # 0
          /\ disk_done' = Downed
          /\ GoTo(AfterDown(op[cur]))
          /\ Restored
          /\ UNCHANGED sleepers
    /\ UNCHANGED <<lockVars, waitVars, diskVars>>

\* A turn of busy_wait that finds the disk done with its work, or not yet; the
\* caller calls PANIC if there is nothing to move or time is up.
busy_wait ==
    /\ pc[cur] = "poll"
    /\ \/ /\ time_limit[cur] > 1 /\ ~BIT_STAT_BSY /\ BIT_STAT_DRQ
          /\ GoTo("move")
          /\ time_limit' = [time_limit EXCEPT ![cur] = TimeLimit]
          /\ UNCHANGED <<slept, panic>>
       \/ /\ time_limit[cur] > 1 /\ BIT_STAT_BSY
          /\ time_limit' = [time_limit EXCEPT ![cur] = @ - 1]
          /\ slept' = [slept EXCEPT ![cur] = FALSE]
          /\ GoTo("nap")
          /\ UNCHANGED panic
       \/ /\ time_limit[cur] = 1 \/ ~(BIT_STAT_BSY \/ BIT_STAT_DRQ)
          /\ panic' = TRUE
          /\ UNCHANGED <<callVars, waitVars>>
    /\ UNCHANGED <<schedVars, lockVars, semVars, diskVars, machine>>

\* ticks_to_sleep.  With interrupts off and nobody else ready, thread_yield
\* comes straight back and no tick ever does.
mtime_sleep ==
    /\ pc[cur] = "nap"
    /\ \/ slept[cur] /\ GoTo("poll") /\ UNCHANGED schedVars
       \/ ~slept[cur] /\ thread_yield /\ UNCHANGED callVars
    /\ UNCHANGED <<lockVars, waitVars, semVars, diskVars>>

AfterMove(o) == IF o = "read" THEN "next" ELSE "down"

\* read_from_sector, write2sector.
move_data ==
    /\ pc[cur] = "move"
    /\ disk' = IF op[cur] = "read" THEN [state |-> "idle", by |-> NULL]
               ELSE [disk EXCEPT !.state = "writing"]
    /\ GoTo(AfterMove(op[cur]))
    /\ UNCHANGED <<schedVars, lockVars, waitVars, semVars, irq, expecting_intr>>

\* The next turn of the loop over the sectors, or lock_release.
next_or_release ==
    /\ pc[cur] = "next"
    /\ left' = [left EXCEPT ![cur] = @ - 1]
    /\ \/ /\ left[cur] > 1
          /\ pc' = [pc EXCEPT ![cur] = "select"]
          /\ UNCHANGED <<op, schedVars, lockVars>>
       \/ /\ left[cur] = 1
          /\ pc' = [pc EXCEPT ![cur] = IF cur = main_thread THEN "out" ELSE "ret"]
          /\ op' = [op EXCEPT ![cur] = "none"]
          /\ holder' = NULL
          /\ waiters' = Rest(waiters)
          /\ Awaken(waiters)
    /\ UNCHANGED <<waitVars, semVars, diskVars>>

SysReturn ==
    /\ pc[cur] = "ret"
    /\ GoTo("out")
    /\ IntrEnable
    /\ UNCHANGED <<lockVars, waitVars, semVars, diskVars>>

\* main has mounted the disk.
main_exit ==
    /\ cur = main_thread /\ pc[cur] = "out"
    /\ ExitSelf
    /\ UNCHANGED <<callVars, lockVars, waitVars, semVars, diskVars>>

\* The tick is the one that every mtime_sleep in progress waits for.
Preempt ==
    /\ intr_timer_handler
    /\ slept' = [t \in Thread |-> TRUE]
    /\ UNCHANGED <<callVars, lockVars, time_limit, semVars, diskVars>>

intr_hd_handler ==
    /\ irq /\ intr = "INTR_ON"
    /\ irq' = FALSE
    /\ expecting_intr' = FALSE
    /\ IF expecting_intr
       THEN disk_done' = Upped /\ sleepers' = Rest(sleepers) /\ Awaken(sleepers)
       ELSE UNCHANGED <<schedVars, semVars>>
    /\ UNCHANGED <<callVars, lockVars, waitVars, disk>>

\* The disk finishes what it is busy with; there is no interrupt when it is
\* ready for the data of a write.
DiskStep ==
    /\ BIT_STAT_BSY
    /\ disk' = CASE disk.state = "reading"   -> [disk EXCEPT !.state = "offers"]
                 [] disk.state = "preparing" -> [disk EXCEPT !.state = "asks"]
                 [] disk.state = "writing"   -> [state |-> "idle", by |-> NULL]
    /\ irq' = (irq \/ disk.state # "preparing")
    /\ UNCHANGED <<schedVars, callVars, lockVars, waitVars, semVars, expecting_intr>>

IdleLoop == Idle /\ UNCHANGED <<callVars, lockVars, waitVars, semVars, diskVars>>

\* panic_spin.
Spin == panic /\ UNCHANGED ideVars

IdeInit ==
    /\ SchedInit
    /\ machine \in Machines
    /\ holder = NULL /\ waiters = <<>>
    /\ expecting_intr = FALSE /\ disk_done = 0 /\ sleepers = <<>>
    /\ disk = [state |-> "idle", by |-> NULL] /\ irq = FALSE
    /\ pc = [t \in Thread |-> "out"]
    /\ op = [t \in Thread |-> "none"]
    /\ left = [t \in Thread |-> 0]
    /\ time_limit = [t \in Thread |-> TimeLimit]
    /\ slept = [t \in Thread |-> TRUE]
    /\ panic = FALSE

DriverStep ==
    \/ lock_acquire \/ expect_intr \/ cmd_out \/ sema_down \/ mtime_sleep
    \/ move_data \/ next_or_release \/ SysReturn

Running == ~panic /\ UNCHANGED <<machine, panic>>

\* The driver on behalf of the running thread.
Driver == (Running /\ DriverStep) \/ (~panic /\ busy_wait)

IdeNext ==
    \/ /\ Running
       /\ \/ \E o \in {"read", "write"}, n \in 1..machine.commands : Call(o, n)
          \/ main_exit \/ Preempt \/ intr_hd_handler \/ DiskStep \/ IdleLoop
    \/ Driver
    \/ Spin

IdeSpec == IdeInit /\ [][IdeNext]_ideVars

\* A thread that is scheduled again and again goes on with the driver (a slice
\* is many instructions long); interrupts stay latched until they can be taken;
\* the disk finishes.  Nobody need call the driver.
IdeFairSpec ==
    /\ IdeSpec
    /\ \A t \in Thread : SF_ideVars(cur = t /\ Driver)
    /\ WF_ideVars(Running /\ DiskStep)
    /\ WF_ideVars(Running /\ IdleLoop)
    /\ SF_ideVars(Running /\ Preempt)
    /\ SF_ideVars(Running /\ intr_hd_handler)

----------------------------------------------------------------------------
\* Every variable has its type; disk_done is never more than 1 (the ASSERT of
\* sema_up, sync.c:34, for this semaphore).
IdeTypeOK ==
    /\ SchedTypeOK
    /\ holder \in Thread \cup {NULL} /\ waiters \in Seq(Thread)
    /\ disk_done \in 0..1 /\ sleepers \in Seq(Thread)
    /\ disk.state \in DiskState /\ irq \in BOOLEAN /\ expecting_intr \in BOOLEAN
    /\ pc \in [Thread -> PC] /\ op \in [Thread -> {"read", "write", "none"}]
    /\ left \in [Thread -> 0..machine.commands] /\ time_limit \in [Thread -> 1..TimeLimit]
    /\ slept \in [Thread -> BOOLEAN] /\ panic \in BOOLEAN

InChannel == {"select", "cmd", "down", "poll", "nap", "move", "next"}

\* Whoever is in the channel holds its lock; a command finds the disk idle and
\* nothing left of the one before (no interrupt, no count in disk_done); data
\* moves for the thread whose command the disk carries out, in its direction.
CommandMatched ==
    \A t \in Thread :
        /\ pc[t] \in InChannel <=> holder = t
        /\ pc[t] \in {"select", "cmd"} =>
               disk.state = "idle" /\ ~irq /\ disk_done = 0 /\ sleepers = <<>>
        /\ pc[t] = "move" =>
               disk = [state |-> IF op[t] = "read" THEN "offers" ELSE "asks", by |-> t]

\* Whenever the disk interrupt comes, before the sleep or after it, the call in
\* the channel ends: the lock is released, or the driver gives up in PANIC.
ChannelReleased == \A t \in Thread : holder = t ~> holder # t \/ panic
=============================================================================
