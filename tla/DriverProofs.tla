---------------------------- MODULE DriverProofs ----------------------------
(***************************************************************************)
(* Proofs for the two drivers that interrupts drive.                        *)
(*                                                                         *)
(* Ide, for any number of threads, any number of commands of a call, any    *)
(* time limit and a quick or a slow disk: the thread that holds the channel *)
(* and the disk always agree on how far its command is.                     *)
(*                                                                         *)
(* SoftIrq, for any number of message buffers, any size of the softirq      *)
(* queue and of the receive ring of the NIC.                                *)
(***************************************************************************)
EXTENDS Ide, SoftIrq, SchedProofs, FiniteSetTheorems, SequenceTheorems

\* The types of IdeTypeOK that are not those of the scheduler.
DriverTypeOK ==
    /\ machine \in Machines
    /\ holder \in Thread \cup {NULL} /\ waiters \in Seq(Thread)
    /\ disk_done \in 0..1 /\ sleepers \in Seq(Thread)
    /\ disk \in [state : DiskState, by : Thread \cup {NULL}]
    /\ irq \in BOOLEAN /\ expecting_intr \in BOOLEAN /\ panic \in BOOLEAN
    /\ pc \in [Thread -> PC] /\ op \in [Thread -> {"read", "write", "none"}]
    /\ left \in [Thread -> 0..machine.commands] /\ time_limit \in [Thread -> 1..TimeLimit]
    /\ slept \in [Thread -> BOOLEAN]

\* A thread is in the channel exactly while it holds the lock; one that is in
\* it or waits for it has an operation; the idle thread makes no call.
OwnerInv ==
    /\ \A t \in Thread : pc[t] \in InChannel <=> holder = t
    /\ \A t \in Thread : pc[t] \in InChannel \cup {"lock"} => op[t] \in {"read", "write"}
    /\ pc[idle_thread] = "out"

\* The waiters of the lock sleep in lock_acquire, each linked once.
WaitersInv ==
    /\ NoDup(waiters)
    /\ \A t \in Thread : elem_find(waiters, t) => pc[t] = "lock" /\ status[t] = "TASK_BLOCKED"

\* Nothing is left of a command.
Calm == ~ irq /\ disk_done = 0 /\ sleepers = <<>>

\* The disk is done with what t waits for in sema_down.
Served(t) ==
    IF op[t] = "read" THEN disk.state = "offers" /\ disk.by = t ELSE disk.state = "idle"

\* The command of t in sema_down: the disk works on it, its interrupt is
\* latched, or its interrupt has been taken.
Working(t) ==
    /\ disk.state = IF op[t] = "read" THEN "reading" ELSE "writing"
    /\ disk.by = t /\ ~ irq /\ expecting_intr /\ disk_done = 0
Raised(t) == Served(t) /\ irq /\ expecting_intr /\ disk_done = 0
Taken(t)  == Served(t) /\ ~ irq /\ disk_done = 1 /\ sleepers = <<>>

\* How far the command of the holder t is, at each place t can be.
Phase(t) ==
    /\ pc[t] \in {"select", "cmd", "next"} => disk.state = "idle" /\ Calm
    /\ pc[t] = "cmd" => expecting_intr
    /\ pc[t] \in {"poll", "nap", "move"} =>
          /\ Calm /\ disk.by = t
          /\ op[t] = "read" => disk.state = "offers"
          /\ op[t] = "write" => disk.state \in {"preparing", "asks"} /\ expecting_intr
          /\ op[t] = "write" /\ pc[t] = "move" => disk.state = "asks"
    /\ pc[t] = "down" =>
          /\ Working(t) \/ Raised(t) \/ Taken(t)
          /\ sleepers = <<>> \/ (sleepers = <<t>> /\ status[t] = "TASK_BLOCKED")

PhaseInv ==
    /\ holder = NULL => disk.state = "idle" /\ Calm
    /\ holder # NULL => Phase(holder)

ChannelInv == OwnerInv /\ WaitersInv /\ PhaseInv
IdeInv == SchedInv /\ DriverTypeOK /\ ChannelInv

----------------------------------------------------------------------------
LEMMA IdeInitLemma == IdeInit => IdeInv
<1> SUFFICES ASSUME IdeInit PROVE IdeInv
  OBVIOUS
<1> USE ThreadAssumption, IdeAssumption
<1>1. SchedInv
  BY InitLemma DEF IdeInit
<1>2. DriverTypeOK
  <2>1. /\ machine \in Machines /\ machine.commands \in Nat \ {0}
    BY DEF IdeInit
  <2>2. left \in [Thread -> 0..machine.commands] /\ time_limit \in [Thread -> 1..TimeLimit]
    BY <2>1 DEF IdeInit
  <2>3. /\ holder \in Thread \cup {NULL} /\ waiters \in Seq(Thread)
        /\ disk_done \in 0..1 /\ sleepers \in Seq(Thread)
    BY DEF IdeInit
  <2>4. disk \in [state : DiskState, by : Thread \cup {NULL}]
    BY DEF IdeInit, DiskState
  <2>5. /\ pc \in [Thread -> PC] /\ op \in [Thread -> {"read", "write", "none"}]
    BY DEF IdeInit, PC
  <2>6. irq \in BOOLEAN /\ expecting_intr \in BOOLEAN /\ panic \in BOOLEAN /\ slept \in [Thread -> BOOLEAN]
    BY DEF IdeInit
  <2> QED BY <2>1, <2>2, <2>3, <2>4, <2>5, <2>6 DEF DriverTypeOK
<1>3. ChannelInv
  <2>1. OwnerInv
    BY DEF OwnerInv, IdeInit, InChannel
  <2>2. WaitersInv
    BY DEF WaitersInv, IdeInit, NoDup, elem_find
  <2>3. PhaseInv
    BY DEF PhaseInv, Calm, IdeInit
  <2> QED BY <2>1, <2>2, <2>3 DEF ChannelInv
<1> QED BY <1>1, <1>2, <1>3 DEF IdeInv

----------------------------------------------------------------------------
(* Every step is a step of Sched or leaves the scheduler alone.             *)

\* What the running thread is, and whom sema_up may wake.
LEMMA Awakened ==
    ASSUME IdeInv
    PROVE  /\ cur \in Thread /\ status[cur] = "TASK_RUNNING"
           /\ pc[cur] # "out" => cur # idle_thread
           /\ ~ elem_find(waiters, cur)
           /\ waiters # <<>> => /\ Head(waiters) \in Thread \ {cur, idle_thread}
                                /\ status[Head(waiters)] = "TASK_BLOCKED"
           /\ sleepers = <<>> \/ /\ sleepers = <<holder>> /\ pc[holder] = "down"
                                 /\ holder \in Thread \ {cur, idle_thread}
                                 /\ status[holder] = "TASK_BLOCKED"
<1> USE DEF IdeInv, ChannelInv
<1>1. cur \in Thread /\ status[cur] = "TASK_RUNNING"
  BY DEF SchedInv, SchedTypeOK, ReadyExact
<1>2. pc[idle_thread] = "out"
  BY DEF OwnerInv
<1>3. ~ elem_find(waiters, cur)
  BY <1>1 DEF WaitersInv
<1>4. ASSUME waiters # <<>>
      PROVE  Head(waiters) \in Thread \ {cur, idle_thread} /\ status[Head(waiters)] = "TASK_BLOCKED"
  <2>1. Head(waiters) \in Thread /\ elem_find(waiters, Head(waiters))
    BY <1>4, PopLemma DEF WaitersInv, DriverTypeOK
  <2> QED BY <1>1, <1>2, <2>1 DEF WaitersInv
<1>5. ASSUME sleepers # <<>>
      PROVE  /\ sleepers = <<holder>> /\ pc[holder] = "down"
             /\ holder \in Thread \ {cur, idle_thread} /\ status[holder] = "TASK_BLOCKED"
  <2>1. holder # NULL /\ holder \in Thread
    BY <1>5 DEF PhaseInv, Calm, DriverTypeOK
  <2>2. pc[holder] \in InChannel /\ Phase(holder)
    BY <2>1 DEF OwnerInv, PhaseInv
  <2>3. pc[holder] = "down"
    BY <1>5, <2>2 DEF Phase, Calm, InChannel
  <2> QED BY <1>1, <1>2, <1>5, <2>1, <2>2, <2>3 DEF Phase
<1> QED BY <1>1, <1>2, <1>3, <1>4, <1>5

LEMMA IdeSchedStep == IdeInv /\ [IdeNext]_ideVars => [SchedNext]_schedVars
<1> SUFFICES ASSUME IdeInv, [IdeNext]_ideVars PROVE SchedNext \/ UNCHANGED schedVars
  OBVIOUS
<1> USE ThreadAssumption, IdeAssumption
<1>0. /\ cur \in Thread /\ (pc[cur] # "out" => cur # idle_thread)
      /\ intr \in IntrStatus /\ idle_thread \notin machine.users
  BY Awakened DEF IdeInv, DriverTypeOK, SchedInv, SchedTypeOK
<1>1. ASSUME cur # idle_thread, Restored
      PROVE  SchedNext \/ UNCHANGED schedVars
  <2>1. intr' \in IntrStatus /\ UNCHANGED <<status, ready, ticks, cur, saved>>
    BY <1>1 DEF Restored, OwnIntr, IntrStatus
  <2>2. IntrDisable \/ IntrEnable \/ UNCHANGED schedVars
    BY <1>0, <1>1, <2>1 DEF IntrDisable, IntrEnable, schedVars, IntrStatus
  <2> QED BY <2>2 DEF SchedNext
<1>2. ASSUME cur # idle_thread, thread_block("TASK_BLOCKED", "INTR_OFF")
      PROVE  SchedNext
  <2>1. Block("TASK_BLOCKED", "INTR_OFF")
    BY <1>2 DEF Block, Stopped
  <2> QED BY <2>1 DEF SchedNext, Stopped, IntrStatus
<1>3. ASSUME NEW list \in {waiters, sleepers}, Awaken(list)
      PROVE  SchedNext \/ UNCHANGED schedVars
  <2>1. CASE list = <<>>
    BY <1>3, <2>1 DEF Awaken
  <2>2. CASE list # <<>>
    <3>1. Head(list) \in Thread /\ Head(list) # idle_thread /\ status[Head(list)] = "TASK_BLOCKED"
      <4>1. CASE list = waiters
        BY <2>2, <4>1, Awakened
      <4>2. CASE list = sleepers
        <5>1. list = <<holder>> /\ holder \in Thread \ {cur, idle_thread} /\ status[holder] = "TASK_BLOCKED"
          BY <2>2, <4>2, Awakened
        <5>2. Head(list) = holder
          BY <5>1
        <5> QED BY <5>1, <5>2
      <4> QED BY <4>1, <4>2
    <3>2. Unblock(Head(list))
      BY <1>3, <2>2, <3>1 DEF Awaken, Unblock, Stopped
    <3> QED BY <3>1, <3>2 DEF SchedNext
  <2> QED BY <2>1, <2>2
<1>4. CASE \E o \in {"read", "write"}, n \in 1..machine.commands : Call(o, n)
  BY <1>0, <1>1, <1>4 DEF Call
<1>5. CASE main_exit \/ Preempt \/ IdleLoop
  BY <1>0, <1>5 DEF main_exit, Preempt, IdleLoop, SchedNext
<1>6. CASE intr_hd_handler
  BY <1>3, <1>6 DEF intr_hd_handler
<1>7. CASE lock_acquire \/ sema_down
  BY <1>0, <1>1, <1>2, <1>7 DEF lock_acquire, sema_down
<1>8. CASE mtime_sleep
  BY <1>0, <1>8 DEF mtime_sleep, Yield, SchedNext
<1>9. CASE next_or_release
  BY <1>3, <1>9 DEF next_or_release
<1>10. CASE SysReturn
  BY <1>10 DEF SysReturn, SchedNext
<1>11. CASE expect_intr \/ cmd_out \/ busy_wait \/ move_data \/ DiskStep
  BY <1>11 DEF expect_intr, cmd_out, busy_wait, move_data, DiskStep
<1>12. CASE Spin \/ UNCHANGED ideVars
  BY <1>12 DEF Spin, ideVars
<1> QED BY <1>4, <1>5, <1>6, <1>7, <1>8, <1>9, <1>10, <1>11, <1>12
        DEF IdeNext, Driver, DriverStep

----------------------------------------------------------------------------
(* Types, one step per group of variables an action touches.                *)

\* When an interrupt is latched, the holder of the channel waits for it and
\* has not been told of it yet.
LEMMA IrqExpected ==
    ASSUME IdeInv, irq
    PROVE  /\ holder \in Thread /\ pc[holder] = "down" /\ Raised(holder)
           /\ disk_done = 0 /\ expecting_intr
<1> USE DEF IdeInv, ChannelInv
<1>1. holder # NULL /\ holder \in Thread
  BY DEF PhaseInv, Calm, DriverTypeOK
<1>2. pc[holder] \in InChannel /\ Phase(holder)
  BY <1>1 DEF OwnerInv, PhaseInv
<1>3. pc[holder] = "down"
  BY <1>2 DEF Phase, Calm, InChannel
<1>4. Raised(holder)
  BY <1>2, <1>3 DEF Phase, Working, Taken
<1> QED BY <1>1, <1>3, <1>4 DEF Raised

LEMMA TypeStep == IdeInv /\ [IdeNext]_ideVars => DriverTypeOK'
<1> SUFFICES ASSUME IdeInv, [IdeNext]_ideVars PROVE DriverTypeOK'
  OBVIOUS
<1> USE ThreadAssumption, IdeAssumption
<1>0. /\ cur \in Thread /\ DriverTypeOK
      /\ machine.commands \in Nat \ {0} /\ TimeLimit \in Nat \ {0}
      /\ op[cur] \in {"read", "write", "none"}
  BY Awakened DEF IdeInv, DriverTypeOK
<1>0a. /\ waiters \in Seq(Thread) /\ sleepers \in Seq(Thread)
       /\ \A list \in Seq(Thread) : Rest(list) \in Seq(Thread) /\ list_append(list, cur) \in Seq(Thread)
  <2>1. ASSUME NEW list \in Seq(Thread)
        PROVE  Rest(list) \in Seq(Thread) /\ list_append(list, cur) \in Seq(Thread)
    BY <1>0 DEF Rest, list_append
  <2> QED BY <1>0, <2>1 DEF DriverTypeOK
<1>1. ASSUME NEW label \in PC, GoTo(label)
      PROVE  pc' \in [Thread -> PC] /\ UNCHANGED <<op, left>>
  BY <1>0, <1>1 DEF GoTo, DriverTypeOK
<1>2. CASE UNCHANGED <<callVars, lockVars, waitVars, semVars, diskVars, machine, panic>>
  BY <1>0, <1>2 DEF DriverTypeOK, callVars, lockVars, waitVars, semVars, diskVars
<1>3. ASSUME NEW o \in {"read", "write"}, NEW n \in 1..machine.commands, Call(o, n), UNCHANGED <<machine, panic>>
      PROVE  DriverTypeOK'
  <2>1. n \in 0..machine.commands
    BY <1>0
  <2>2. pc' \in [Thread -> PC] /\ op' \in [Thread -> {"read", "write", "none"}] /\ left' \in [Thread -> 0..machine.commands]
    BY <1>0, <1>3, <2>1 DEF Call, DriverTypeOK, PC
  <2> QED BY <1>0, <1>3, <2>2 DEF Call, DriverTypeOK, lockVars, waitVars, semVars, diskVars
<1>4. CASE Preempt /\ UNCHANGED <<machine, panic>>
  <2>1. slept' \in [Thread -> BOOLEAN]
    BY <1>4 DEF Preempt
  <2> QED BY <1>0, <1>4, <2>1 DEF Preempt, DriverTypeOK, callVars, lockVars, semVars, diskVars
<1>5. CASE intr_hd_handler /\ UNCHANGED <<machine, panic>>
  <2>1. irq
    BY <1>5 DEF intr_hd_handler
  <2>2. disk_done = 0
    BY <2>1, IrqExpected
  <2>3. disk_done' \in 0..1
    BY <1>5, <2>2 DEF intr_hd_handler, Upped, semVars
  <2>4. sleepers' \in Seq(Thread)
    BY <1>5, <1>0a DEF intr_hd_handler, semVars
  <2>5. irq' \in BOOLEAN /\ expecting_intr' \in BOOLEAN
    BY <1>5 DEF intr_hd_handler
  <2> QED BY <1>0, <1>5, <2>3, <2>4, <2>5 DEF intr_hd_handler, DriverTypeOK, callVars, lockVars, waitVars
<1>6. CASE DiskStep /\ UNCHANGED <<machine, panic>>
  <2>1. disk' \in [state : DiskState, by : Thread \cup {NULL}]
    BY <1>0, <1>6 DEF DiskStep, BIT_STAT_BSY, DriverTypeOK, DiskState
  <2>2. irq' \in BOOLEAN
    BY <1>6 DEF DiskStep
  <2> QED BY <1>0, <1>6, <2>1, <2>2 DEF DiskStep, DriverTypeOK, callVars, lockVars, waitVars, semVars
<1>7. CASE lock_acquire /\ UNCHANGED <<machine, panic>>
  <2>1. holder' \in Thread \cup {NULL}
    BY <1>0, <1>7 DEF lock_acquire, DriverTypeOK
  <2>2. waiters' \in Seq(Thread)
    BY <1>7, <1>0a DEF lock_acquire
  <2>3. pc' \in [Thread -> PC] /\ UNCHANGED <<op, left>>
    BY <1>0, <1>1, <1>7 DEF lock_acquire, callVars, DriverTypeOK, PC
  <2> QED BY <1>0, <1>7, <2>1, <2>2, <2>3 DEF lock_acquire, DriverTypeOK, waitVars, semVars, diskVars
<1>8. CASE expect_intr /\ UNCHANGED <<machine, panic>>
  BY <1>0, <1>1, <1>8 DEF expect_intr, DriverTypeOK, lockVars, waitVars, semVars, PC
<1>9. CASE cmd_out /\ UNCHANGED <<machine, panic>>
  <2>1. disk' \in [state : DiskState, by : Thread \cup {NULL}]
    BY <1>0, <1>9 DEF cmd_out, DiskState, Started
  <2>2. pc' \in [Thread -> PC] /\ UNCHANGED <<op, left>>
    BY <1>1, <1>9 DEF cmd_out, AfterCmd, PC
  <2> QED BY <1>0, <1>9, <2>1, <2>2 DEF cmd_out, DriverTypeOK, lockVars, waitVars, semVars
<1>10. CASE sema_down /\ UNCHANGED <<machine, panic>>
  <2>1. disk_done' \in 0..1
    BY <1>0, <1>10 DEF sema_down, Downed, DriverTypeOK
  <2>2. sleepers' \in Seq(Thread)
    BY <1>10, <1>0a DEF sema_down
  <2>3. pc' \in [Thread -> PC] /\ UNCHANGED <<op, left>>
    BY <1>0, <1>1, <1>10 DEF sema_down, AfterDown, callVars, DriverTypeOK, PC
  <2> QED BY <1>0, <1>10, <2>1, <2>2, <2>3 DEF sema_down, DriverTypeOK, lockVars, waitVars, diskVars
<1>11. CASE mtime_sleep /\ UNCHANGED <<machine, panic>>
  <2>1. pc' \in [Thread -> PC] /\ UNCHANGED <<op, left>>
    BY <1>0, <1>1, <1>11 DEF mtime_sleep, callVars, DriverTypeOK, PC
  <2> QED BY <1>0, <1>11, <2>1 DEF mtime_sleep, DriverTypeOK, lockVars, waitVars, semVars, diskVars
<1>12. CASE move_data /\ UNCHANGED <<machine, panic>>
  <2>1. disk' \in [state : DiskState, by : Thread \cup {NULL}]
    BY <1>0, <1>12 DEF move_data, DiskState, DriverTypeOK
  <2>2. pc' \in [Thread -> PC] /\ UNCHANGED <<op, left>>
    BY <1>1, <1>12 DEF move_data, AfterMove, PC
  <2> QED BY <1>0, <1>12, <2>1, <2>2 DEF move_data, DriverTypeOK, lockVars, waitVars, semVars
<1>13. CASE next_or_release /\ UNCHANGED <<machine, panic>>
  <2>1. left' \in [Thread -> 0..machine.commands]
    <3>1. left[cur] \in 0..machine.commands /\ left[cur] >= 1
      BY <1>0, <1>13 DEF next_or_release, DriverTypeOK
    <3>2. left[cur] - 1 \in 0..machine.commands
      BY <1>0, <3>1
    <3> QED BY <1>0, <1>13, <3>2 DEF next_or_release, DriverTypeOK
  <2>2. pc' \in [Thread -> PC] /\ op' \in [Thread -> {"read", "write", "none"}]
    BY <1>0, <1>13 DEF next_or_release, DriverTypeOK, PC
  <2>3. holder' \in Thread \cup {NULL}
    BY <1>0, <1>13 DEF next_or_release, DriverTypeOK, lockVars
  <2>4. waiters' \in Seq(Thread)
    BY <1>13, <1>0a DEF next_or_release, lockVars
  <2> QED BY <1>0, <1>13, <2>1, <2>2, <2>3, <2>4 DEF next_or_release, DriverTypeOK, waitVars, semVars, diskVars
<1>14. CASE SysReturn /\ UNCHANGED <<machine, panic>>
  BY <1>0, <1>1, <1>14 DEF SysReturn, DriverTypeOK, lockVars, waitVars, semVars, diskVars, PC
<1>15. CASE busy_wait
  <2>1. pc' \in [Thread -> PC] /\ UNCHANGED <<op, left>>
    BY <1>0, <1>1, <1>15 DEF busy_wait, callVars, DriverTypeOK, PC
  <2>2. time_limit' \in [Thread -> 1..TimeLimit]
    <3>1. time_limit[cur] \in 1..TimeLimit /\ TimeLimit \in 1..TimeLimit
      BY <1>0 DEF DriverTypeOK
    <3>2. time_limit[cur] > 1 => time_limit[cur] - 1 \in 1..TimeLimit
      BY <1>0, <3>1
    <3>3. \/ time_limit' = [time_limit EXCEPT ![cur] = TimeLimit]
          \/ time_limit[cur] > 1 /\ time_limit' = [time_limit EXCEPT ![cur] = time_limit[cur] - 1]
          \/ time_limit' = time_limit
      BY <1>15 DEF busy_wait, waitVars
    <3>4. time_limit \in [Thread -> 1..TimeLimit]
      BY <1>0 DEF DriverTypeOK
    <3> QED BY <1>0, <3>1, <3>2, <3>3, <3>4
  <2>3. slept' \in [Thread -> BOOLEAN]
    BY <1>0, <1>15 DEF busy_wait, waitVars, DriverTypeOK
  <2>4. panic' \in BOOLEAN
    BY <1>0, <1>15, Zenon DEF busy_wait, DriverTypeOK
  <2> QED BY <1>0, <1>15, <2>1, <2>2, <2>3, <2>4 DEF busy_wait, DriverTypeOK, lockVars, semVars, diskVars
<1>16. CASE (main_exit \/ IdleLoop) /\ UNCHANGED <<machine, panic>>
  BY <1>2, <1>16 DEF main_exit, IdleLoop
<1>17. CASE Spin \/ UNCHANGED ideVars
  BY <1>2, <1>17 DEF Spin, ideVars
<1> QED BY <1>3, <1>4, <1>5, <1>6, <1>7, <1>8, <1>9, <1>10, <1>11, <1>12, <1>13, <1>14, <1>15, <1>16, <1>17
        DEF IdeNext, Driver, DriverStep, Running

----------------------------------------------------------------------------
(* The lock, its waiters and the phases of a command, one lemma per action. *)

\* A step outside the channel: threads that do not hold the lock come and go.
LEMMA OutsideChannel ==
    ASSUME IdeInv, UNCHANGED <<holder, disk, irq, expecting_intr, disk_done, sleepers>>,
           \A t \in Thread : holder = t =>
               /\ pc'[t] = pc[t] /\ op'[t] = op[t]
               /\ status[t] = "TASK_BLOCKED" => status'[t] = "TASK_BLOCKED"
    PROVE  PhaseInv'
<1> USE DEF IdeInv, ChannelInv
<1>1. CASE holder = NULL
  BY <1>1 DEF PhaseInv, Calm
<1>2. CASE holder # NULL
  <2>1. PICK h \in Thread : h = holder
    BY <1>2 DEF DriverTypeOK
  <2>2. Phase(h)
    BY <1>2, <2>1 DEF PhaseInv
  <2>3. Phase(h)'
    BY <2>1, <2>2 DEF Phase, Calm, Working, Raised, Taken, Served
  <2> QED BY <1>2, <2>1, <2>3 DEF PhaseInv
<1> QED BY <1>1, <1>2

\* The waiters of the lock stay where they are.
LEMMA WaitersStay ==
    ASSUME IdeInv, waiters' = waiters,
           \A t \in Thread : pc[t] = "lock" /\ status[t] = "TASK_BLOCKED" =>
               pc'[t] = "lock" /\ status'[t] = "TASK_BLOCKED"
    PROVE  WaitersInv'
<1> QED BY DEF IdeInv, ChannelInv, WaitersInv

\* A step of the running thread inside the channel.
LEMMA OwnerStep ==
    ASSUME IdeInv, pc[cur] \in InChannel, NEW label \in InChannel,
           pc' = [pc EXCEPT ![cur] = label], UNCHANGED <<op, holder>>
    PROVE  OwnerInv'
<1>1. cur \in Thread /\ cur # idle_thread /\ pc \in [Thread -> PC] /\ op \in [Thread -> {"read", "write", "none"}]
  BY Awakened DEF IdeInv, DriverTypeOK, InChannel
<1>2. \A t \in Thread : pc'[t] = IF t = cur THEN label ELSE pc[t]
  BY <1>1
<1> QED BY <1>1, <1>2, ThreadAssumption DEF IdeInv, ChannelInv, OwnerInv

\* The same for the phases: it is enough to show the one of the running thread.
LEMMA PhaseStep ==
    ASSUME IdeInv, pc[cur] \in InChannel, holder' = holder, NEW c, c = cur, Phase(c)'
    PROVE  PhaseInv'
<1>1. holder = c /\ holder # NULL
  BY Awakened, IdeAssumption DEF IdeInv, ChannelInv, OwnerInv
<1> QED BY <1>1 DEF PhaseInv

LEMMA CallStep ==
    ASSUME IdeInv, NEW o \in {"read", "write"}, NEW n \in 1..machine.commands, Call(o, n)
    PROVE  ChannelInv'
<1> USE ThreadAssumption, IdeAssumption
<1>1. /\ cur \in Thread /\ cur # idle_thread /\ pc[cur] \in {"out", "ret"}
      /\ \A t \in Thread : pc'[t] = (IF t = cur THEN "lock" ELSE pc[t])
      /\ \A t \in Thread : op'[t] = (IF t = cur THEN o ELSE op[t])
      /\ UNCHANGED <<holder, waiters, status, disk, irq, expecting_intr, disk_done, sleepers>>
  <2>1. cur \in Thread /\ cur # idle_thread
    BY Awakened DEF Call, IdeInv, DriverTypeOK
  <2> QED BY <2>1 DEF Call, Restored, lockVars, semVars, diskVars, IdeInv, DriverTypeOK
<1>2. OwnerInv'
  BY <1>1 DEF IdeInv, ChannelInv, OwnerInv, InChannel
<1>3. WaitersInv'
  BY <1>1, WaitersStay
<1>4. PhaseInv'
  <2>1. holder # cur
    BY <1>1 DEF IdeInv, ChannelInv, OwnerInv, InChannel
  <2> QED BY <1>1, <2>1, OutsideChannel
<1> QED BY <1>2, <1>3, <1>4 DEF ChannelInv

LEMMA AcquireStep ==
    ASSUME IdeInv, lock_acquire
    PROVE  ChannelInv'
<1> USE ThreadAssumption, IdeAssumption
<1>0. /\ cur \in Thread /\ cur # idle_thread /\ pc[cur] = "lock" /\ status[cur] = "TASK_RUNNING"
      /\ holder # cur /\ op[cur] \in {"read", "write"} /\ ~ elem_find(waiters, cur)
      /\ pc \in [Thread -> PC] /\ UNCHANGED <<disk_done, sleepers, disk, irq, expecting_intr>>
      /\ OwnerInv /\ WaitersInv
  BY Awakened DEF lock_acquire, IdeInv, DriverTypeOK, ChannelInv, OwnerInv, InChannel, semVars, diskVars
<1>1. CASE holder = NULL
  <2>1. /\ holder' = cur /\ UNCHANGED <<waiters, op, status>>
        /\ \A t \in Thread : pc'[t] = (IF t = cur THEN "select" ELSE pc[t])
    BY <1>0, <1>1 DEF lock_acquire, GoTo, Restored
  <2>2. OwnerInv'
    BY <1>0, <1>1, <2>1 DEF OwnerInv, InChannel
  <2>3. WaitersInv'
    BY <1>0, <2>1 DEF WaitersInv
  <2>4. PhaseInv'
    <3>1. PICK c \in Thread : c = cur
      BY <1>0
    <3>2. Phase(c)'
      BY <1>0, <1>1, <2>1, <3>1 DEF IdeInv, ChannelInv, PhaseInv, Phase, Calm
    <3>3. holder' = c /\ c # NULL
      BY <2>1, <3>1
    <3> QED BY <3>2, <3>3 DEF PhaseInv
  <2> QED BY <2>2, <2>3, <2>4 DEF ChannelInv
<1>2. CASE holder # NULL
  <2>1. /\ waiters' = Append(waiters, cur) /\ UNCHANGED <<holder, pc, op>>
        /\ thread_block("TASK_BLOCKED", "INTR_OFF")
    BY <1>2 DEF lock_acquire, callVars, list_append
  <2>2. /\ status'[cur] = "TASK_BLOCKED"
        /\ \A t \in Thread \ {cur, idle_thread} : status[t] = "TASK_BLOCKED" => status'[t] = "TASK_BLOCKED"
    BY <1>0, <2>1, BlockStatus DEF Stopped, IntrStatus, IdeInv
  <2>3. OwnerInv'
    BY <1>0, <2>1 DEF OwnerInv
  <2>4. WaitersInv'
    <3>1. /\ NoDup(waiters')
          /\ \A t \in Thread : elem_find(waiters', t) <=> (elem_find(waiters, t) \/ t = cur)
      BY <1>0, <2>1, AppendLemma DEF WaitersInv, IdeInv, DriverTypeOK
    <3>2. pc[idle_thread] = "out"
      BY <1>0 DEF OwnerInv
    <3> QED BY <1>0, <2>1, <2>2, <3>1, <3>2 DEF WaitersInv
  <2>5. PhaseInv'
    <3>1. holder # idle_thread
      BY <1>0 DEF OwnerInv, InChannel
    <3> QED BY <1>0, <2>1, <2>2, <3>1, OutsideChannel
  <2> QED BY <2>3, <2>4, <2>5 DEF ChannelInv
<1> QED BY <1>1, <1>2

\* expect_intr, cmd_out, busy_wait, mtime_sleep, move_data: steps of the holder
\* that change no status but whose turn it is.
LEMMA HolderStep ==
    ASSUME IdeInv, pc[cur] \in InChannel, NEW label \in InChannel,
           pc' = [pc EXCEPT ![cur] = label], UNCHANGED <<op, holder, waiters>>,
           \A t \in Thread \ {idle_thread} : KeptStatus(t), NEW c, c = cur, Phase(c)'
    PROVE  ChannelInv'
<1>1. OwnerInv'
  BY OwnerStep
<1>2. PhaseInv'
  BY PhaseStep
<1>3. WaitersInv'
  <2>1. cur \in Thread /\ pc \in [Thread -> PC] /\ pc[idle_thread] = "out"
    BY Awakened DEF IdeInv, DriverTypeOK, ChannelInv, OwnerInv
  <2> QED BY <2>1, WaitersStay DEF KeptStatus, Awake, InChannel
<1> QED BY <1>1, <1>2, <1>3 DEF ChannelInv

\* What holds of the running thread c while it is in the channel.
LEMMA Inside ==
    ASSUME IdeInv, NEW c, c = cur, pc[c] \in InChannel
    PROVE  /\ c \in Thread /\ c # idle_thread /\ holder = c /\ Phase(c)
           /\ op[c] \in {"read", "write"} /\ status[c] = "TASK_RUNNING"
           /\ pc \in [Thread -> PC] /\ disk \in [state : DiskState, by : Thread \cup {NULL}]
<1> QED BY Awakened, IdeAssumption
        DEF IdeInv, DriverTypeOK, ChannelInv, OwnerInv, PhaseInv, InChannel

LEMMA SameStatus ==
    ASSUME status' = status
    PROVE  \A t \in Thread \ {idle_thread} : KeptStatus(t)
<1> QED BY DEF KeptStatus

LEMMA ExpectStep ==
    ASSUME IdeInv, expect_intr
    PROVE  ChannelInv'
<1>1. PICK c : c = cur
  OBVIOUS
<1>2. /\ pc[c] = "select" /\ pc[c] \in InChannel /\ pc' = [pc EXCEPT ![cur] = "cmd"] /\ "cmd" \in InChannel
      /\ UNCHANGED <<op, holder, waiters, status, disk_done, sleepers, disk, irq>> /\ expecting_intr'
  BY <1>1 DEF expect_intr, GoTo, InChannel, schedVars, lockVars, semVars
<1>3. c \in Thread /\ Phase(c) /\ pc'[c] = "cmd"
  BY <1>1, <1>2, Inside
<1>4. Phase(c)'
  BY <1>2, <1>3 DEF Phase, Calm
<1> QED BY <1>1, <1>2, <1>4, HolderStep, SameStatus

LEMMA CmdStep ==
    ASSUME IdeInv, cmd_out
    PROVE  ChannelInv'
<1>1. PICK c : c = cur
  OBVIOUS
<1>2. /\ pc[c] = "cmd" /\ pc[c] \in InChannel /\ pc' = [pc EXCEPT ![cur] = AfterCmd(op[c])]
      /\ disk' = [state |-> Started(op[c]), by |-> c]
      /\ UNCHANGED <<op, holder, waiters, status, disk_done, sleepers, irq, expecting_intr>>
  BY <1>1 DEF cmd_out, GoTo, InChannel, schedVars, lockVars, semVars
<1>3. c \in Thread /\ Phase(c) /\ pc'[c] = AfterCmd(op[c]) /\ op[c] \in {"read", "write"}
  BY <1>1, <1>2, Inside
<1>4. Calm /\ expecting_intr /\ disk'.by = c /\ disk'.state = Started(op[c])
  BY <1>2, <1>3 DEF Phase
<1>5. Phase(c)'
  <2>1. CASE op[c] = "read"
    <3>1. pc'[c] = "down" /\ disk'.state = "reading"
      BY <1>3, <1>4, <2>1 DEF AfterCmd, Started
    <3>2. Working(c)'
      BY <1>2, <1>4, <2>1, <3>1 DEF Working, Calm
    <3> QED BY <1>2, <1>4, <3>1, <3>2 DEF Phase, Calm
  <2>2. CASE op[c] = "write"
    <3>1. pc'[c] = "poll" /\ disk'.state \in {"preparing", "asks"}
      BY <1>3, <1>4, <2>2 DEF AfterCmd, Started
    <3> QED BY <1>2, <1>4, <2>2, <3>1 DEF Phase, Calm
  <2> QED BY <1>3, <2>1, <2>2
<1>6. AfterCmd(op[c]) \in InChannel
  BY DEF AfterCmd, InChannel
<1> QED BY <1>1, <1>2, <1>5, <1>6, HolderStep, SameStatus

LEMMA DownStep ==
    ASSUME IdeInv, sema_down
    PROVE  ChannelInv'
<1>1. PICK c : c = cur
  OBVIOUS
<1>2. pc[c] = "down" /\ pc[c] \in InChannel /\ UNCHANGED <<holder, waiters, disk, irq, expecting_intr>>
  BY <1>1 DEF sema_down, InChannel, lockVars, diskVars
<1>3. /\ c \in Thread /\ c # idle_thread /\ Phase(c) /\ op[c] \in {"read", "write"} /\ holder = c
      /\ pc \in [Thread -> PC] /\ status[c] = "TASK_RUNNING"
  BY <1>1, <1>2, Inside
<1>4. sleepers = <<>> /\ (Working(c) \/ Raised(c) \/ Taken(c))
  BY <1>2, <1>3 DEF Phase
<1>5. CASE disk_done = 0
  <2>1. /\ sleepers' = Append(sleepers, c) /\ UNCHANGED <<pc, op, disk_done>>
        /\ thread_block("TASK_BLOCKED", "INTR_OFF")
    BY <1>1, <1>5 DEF sema_down, callVars, list_append
  <2>2. sleepers' = <<c>>
    BY <1>4, <2>1
  <2>3. /\ status'[c] = "TASK_BLOCKED"
        /\ \A t \in Thread \ {c, idle_thread} : status[t] = "TASK_BLOCKED" => status'[t] = "TASK_BLOCKED"
    BY <1>1, <1>3, <2>1, BlockStatus DEF Stopped, IntrStatus, IdeInv
  <2>4. OwnerInv'
    BY <1>2, <2>1 DEF IdeInv, ChannelInv, OwnerInv
  <2>5. WaitersInv'
    <3>1. pc[idle_thread] = "out"
      BY DEF IdeInv, ChannelInv, OwnerInv
    <3> QED BY <1>2, <2>1, <2>3, <3>1, WaitersStay
  <2>6. Working(c) \/ Raised(c)
    BY <1>4, <1>5 DEF Taken
  <2>7. Working(c)' \/ Raised(c)'
    BY <1>2, <2>1, <2>6 DEF Working, Raised, Served
  <2>8. Phase(c)'
    BY <1>2, <2>1, <2>2, <2>3, <2>7 DEF Phase
  <2>9. PhaseInv'
    BY <1>1, <1>2, <2>8, PhaseStep
  <2> QED BY <2>4, <2>5, <2>9 DEF ChannelInv
<1>6. CASE disk_done # 0
  <2>1. /\ disk_done' = disk_done - 1 /\ pc' = [pc EXCEPT ![cur] = AfterDown(op[c])]
        /\ UNCHANGED <<op, sleepers, status>>
    BY <1>1, <1>6 DEF sema_down, GoTo, Restored, Downed
  <2>2. Taken(c)
    BY <1>4, <1>6 DEF Working, Raised
  <2>3. disk_done' = 0 /\ Calm' /\ pc'[c] = AfterDown(op[c])
    BY <1>1, <1>2, <1>3, <2>1, <2>2 DEF Taken, Calm
  <2>4. Phase(c)'
    <3>1. CASE op[c] = "read"
      <4>1. pc'[c] = "poll" /\ disk'.state = "offers" /\ disk'.by = c /\ op'[c] = "read"
        BY <1>2, <2>1, <2>2, <2>3, <3>1 DEF AfterDown, Taken, Served
      <4> QED BY <2>3, <4>1 DEF Phase
    <3>2. CASE op[c] = "write"
      <4>1. pc'[c] = "next" /\ disk'.state = "idle"
        BY <1>2, <2>1, <2>2, <2>3, <3>2 DEF AfterDown, Taken, Served
      <4> QED BY <2>3, <4>1 DEF Phase
    <3> QED BY <1>3, <3>1, <3>2
  <2>5. AfterDown(op[c]) \in InChannel
    BY DEF AfterDown, InChannel
  <2> QED BY <1>1, <1>2, <2>1, <2>4, <2>5, HolderStep, SameStatus
<1> QED BY <1>5, <1>6

LEMMA BusyStep ==
    ASSUME IdeInv, busy_wait
    PROVE  ChannelInv'
<1>1. PICK c : c = cur
  OBVIOUS
<1>2. /\ pc[c] = "poll" /\ pc[c] \in InChannel
      /\ UNCHANGED <<op, holder, waiters, status, disk, irq, expecting_intr, disk_done, sleepers>>
  BY <1>1 DEF busy_wait, GoTo, InChannel, schedVars, callVars, lockVars, semVars, diskVars
<1>3. c \in Thread /\ Phase(c) /\ op[c] \in {"read", "write"} /\ pc \in [Thread -> PC]
  BY <1>1, <1>2, Inside
<1>4. PICK label \in InChannel : /\ pc' = [pc EXCEPT ![cur] = label]
                                 /\ \/ label = "move" /\ disk.state \in {"offers", "asks"}
                                    \/ label \in {"nap", "poll"}
  <2>1. \/ pc' = [pc EXCEPT ![cur] = "move"] /\ disk.state \in {"offers", "asks"}
        \/ pc' = [pc EXCEPT ![cur] = "nap"]
        \/ pc' = pc
    BY DEF busy_wait, GoTo, callVars, BIT_STAT_DRQ
  <2>2. pc = [pc EXCEPT ![cur] = "poll"]
    BY <1>1, <1>2, <1>3
  <2> QED BY <2>1, <2>2 DEF InChannel
<1>5. pc'[c] = label
  BY <1>1, <1>3, <1>4
<1>6. Phase(c)'
  BY <1>2, <1>3, <1>4, <1>5 DEF Phase, Calm
<1> QED BY <1>1, <1>2, <1>4, <1>6, HolderStep, SameStatus

LEMMA SleepStep ==
    ASSUME IdeInv, mtime_sleep
    PROVE  ChannelInv'
<1>1. PICK c : c = cur
  OBVIOUS
<1>2. /\ pc[c] = "nap" /\ pc[c] \in InChannel
      /\ UNCHANGED <<op, holder, waiters, disk, irq, expecting_intr, disk_done, sleepers>>
  BY <1>1 DEF mtime_sleep, GoTo, InChannel, schedVars, callVars, lockVars, semVars, diskVars
<1>3. c \in Thread /\ c # idle_thread /\ Phase(c) /\ op[c] \in {"read", "write"} /\ pc \in [Thread -> PC]
  BY <1>1, <1>2, Inside
<1>4. PICK label \in {"poll", "nap"} : pc' = [pc EXCEPT ![cur] = label]
  <2>1. pc' = [pc EXCEPT ![cur] = "poll"] \/ pc' = pc
    BY DEF mtime_sleep, GoTo, callVars
  <2>2. pc = [pc EXCEPT ![cur] = "nap"]
    BY <1>1, <1>2, <1>3
  <2> QED BY <2>1, <2>2
<1>5. pc'[c] = label /\ label \in InChannel
  BY <1>1, <1>3, <1>4 DEF InChannel
<1>6. Phase(c)'
  BY <1>2, <1>3, <1>5 DEF Phase, Calm
<1>7. \A t \in Thread \ {idle_thread} : KeptStatus(t)
  <2>1. CASE status' = status
    BY <2>1, SameStatus
  <2>2. CASE thread_yield
    <3>1. Yield
      BY <1>1, <1>3, <2>2 DEF Yield
    <3> QED BY <3>1, YieldStatus DEF IdeInv
  <2> QED BY <2>1, <2>2 DEF mtime_sleep, schedVars
<1> QED BY <1>1, <1>2, <1>4, <1>5, <1>6, <1>7, HolderStep

LEMMA MoveStep ==
    ASSUME IdeInv, move_data
    PROVE  ChannelInv'
<1>1. PICK c : c = cur
  OBVIOUS
<1>2. /\ pc[c] = "move" /\ pc[c] \in InChannel /\ pc' = [pc EXCEPT ![cur] = AfterMove(op[c])]
      /\ disk' = IF op[c] = "read" THEN [state |-> "idle", by |-> NULL] ELSE [disk EXCEPT !.state = "writing"]
      /\ UNCHANGED <<op, holder, waiters, status, disk_done, sleepers, irq, expecting_intr>>
  BY <1>1 DEF move_data, GoTo, InChannel, schedVars, lockVars, semVars
<1>3. /\ c \in Thread /\ Phase(c) /\ pc'[c] = AfterMove(op[c]) /\ op[c] \in {"read", "write"}
      /\ disk \in [state : DiskState, by : Thread \cup {NULL}]
  BY <1>1, <1>2, Inside
<1>4. Calm /\ disk.by = c /\ (op[c] = "write" => expecting_intr)
  BY <1>2, <1>3 DEF Phase
<1>5. Phase(c)'
  <2>1. CASE op[c] = "read"
    <3>1. pc'[c] = "next" /\ disk'.state = "idle"
      BY <1>2, <1>3, <2>1 DEF AfterMove
    <3> QED BY <1>2, <1>4, <3>1 DEF Phase, Calm
  <2>2. CASE op[c] = "write"
    <3>1. pc'[c] = "down" /\ disk'.state = "writing" /\ disk'.by = c
      BY <1>2, <1>3, <1>4, <2>2 DEF AfterMove
    <3>2. Working(c)'
      BY <1>2, <1>4, <2>2, <3>1 DEF Working, Calm
    <3> QED BY <1>2, <1>4, <3>1, <3>2 DEF Phase, Calm
  <2> QED BY <1>3, <2>1, <2>2
<1>6. AfterMove(op[c]) \in InChannel
  BY DEF AfterMove, InChannel
<1> QED BY <1>1, <1>2, <1>5, <1>6, HolderStep, SameStatus

LEMMA NextStep ==
    ASSUME IdeInv, next_or_release
    PROVE  ChannelInv'
<1> USE ThreadAssumption, IdeAssumption
<1>1. PICK c : c = cur
  OBVIOUS
<1>2. /\ pc[c] = "next" /\ pc[c] \in InChannel
      /\ UNCHANGED <<disk, irq, expecting_intr, disk_done, sleepers>>
  BY <1>1 DEF next_or_release, InChannel, semVars, diskVars
<1>3. /\ c \in Thread /\ c # idle_thread /\ Phase(c) /\ holder = c /\ pc \in [Thread -> PC]
      /\ status[c] = "TASK_RUNNING"
  BY <1>1, <1>2, Inside
<1>4. disk.state = "idle" /\ Calm
  BY <1>2, <1>3 DEF Phase
<1>5. CASE left[cur] > 1 /\ pc' = [pc EXCEPT ![cur] = "select"] /\ UNCHANGED <<op, schedVars, lockVars>>
  <2>1. pc'[c] = "select" /\ "select" \in InChannel /\ UNCHANGED <<op, holder, waiters, status>>
    BY <1>1, <1>3, <1>5 DEF InChannel, schedVars, lockVars
  <2>2. Phase(c)'
    BY <1>2, <1>4, <2>1 DEF Phase, Calm
  <2> QED BY <1>1, <1>2, <1>5, <2>1, <2>2, HolderStep, SameStatus
<1>6. CASE /\ pc' = [pc EXCEPT ![cur] = IF cur = main_thread THEN "out" ELSE "ret"]
           /\ op' = [op EXCEPT ![cur] = "none"]
           /\ holder' = NULL /\ waiters' = Rest(waiters) /\ Awaken(waiters)
  <2>1. /\ pc'[c] \in {"out", "ret"}
        /\ \A t \in Thread : t # c => pc'[t] = pc[t] /\ op'[t] = op[t]
    BY <1>1, <1>3, <1>6 DEF IdeInv, DriverTypeOK
  <2>2. OwnerInv'
    BY <1>3, <1>6, <2>1 DEF IdeInv, ChannelInv, OwnerInv, InChannel
  <2>3. WaitersInv'
    <3>1. waiters \in Seq(Thread) /\ NoDup(waiters)
          /\ \A t \in Thread : elem_find(waiters, t) => pc[t] = "lock" /\ status[t] = "TASK_BLOCKED"
      BY DEF IdeInv, DriverTypeOK, ChannelInv, WaitersInv
    <3>2. CASE waiters = <<>>
      <4>1. waiters' = <<>>
        BY <1>6, <3>2 DEF Rest
      <4> QED BY <4>1 DEF WaitersInv, NoDup, elem_find
    <3>3. CASE waiters # <<>>
      <4> DEFINE w == Head(waiters)
      <4>1. /\ waiters' = Tail(waiters) /\ thread_unblock(w)
        BY <1>6, <3>3 DEF Rest, Awaken
      <4>2. /\ w \in Thread /\ NoDup(waiters')
            /\ \A t \in Thread : elem_find(waiters', t) <=> (elem_find(waiters, t) /\ t # w)
        BY <3>1, <3>3, <4>1, PopLemma
      <4>3. \A t \in Thread : t # w => status'[t] = status[t]
        BY <4>1 DEF thread_unblock, IdeInv, SchedInv, SchedTypeOK
      <4> HIDE DEF w
      <4> QED BY <1>2, <2>1, <3>1, <4>2, <4>3 DEF WaitersInv
    <3> QED BY <3>2, <3>3
  <2>4. PhaseInv'
    BY <1>2, <1>4, <1>6 DEF PhaseInv, Calm
  <2> QED BY <2>2, <2>3, <2>4 DEF ChannelInv
<1> QED BY <1>5, <1>6 DEF next_or_release

LEMMA HandlerStep ==
    ASSUME IdeInv, intr_hd_handler
    PROVE  ChannelInv'
<1>1. irq /\ irq' = FALSE /\ UNCHANGED <<pc, op, holder, waiters, disk>>
  BY DEF intr_hd_handler, callVars, lockVars
<1>2. PICK h \in Thread : h = holder /\ pc[h] = "down" /\ Raised(h) /\ disk_done = 0 /\ expecting_intr
  BY <1>1, IrqExpected
<1>3. disk_done' = 1 /\ sleepers' = Rest(sleepers) /\ Awaken(sleepers)
  BY <1>2 DEF intr_hd_handler, Upped
<1>4. sleepers' = <<>> /\ \A t \in Thread : t # h => status'[t] = status[t]
  <2>1. CASE sleepers = <<>>
    BY <1>3, <2>1 DEF Rest, Awaken, schedVars
  <2>2. CASE sleepers # <<>>
    <3>1. sleepers = <<h>>
      BY <1>2, <2>2, Awakened
    <3>2. sleepers' = <<>> /\ thread_unblock(h)
      BY <1>3, <2>2, <3>1 DEF Rest, Awaken
    <3> QED BY <3>2 DEF thread_unblock, IdeInv, SchedInv, SchedTypeOK
  <2> QED BY <2>1, <2>2
<1>5. OwnerInv'
  BY <1>1 DEF IdeInv, ChannelInv, OwnerInv
<1>6. WaitersInv'
  BY <1>1, <1>2, <1>4, WaitersStay
<1>7. Taken(h)'
  BY <1>1, <1>2, <1>3, <1>4 DEF Taken, Raised, Served
<1>8. Phase(h)'
  BY <1>1, <1>2, <1>4, <1>7 DEF Phase
<1>9. PhaseInv'
  BY <1>1, <1>2, <1>8, IdeAssumption DEF PhaseInv
<1> QED BY <1>5, <1>6, <1>9 DEF ChannelInv

LEMMA DiskStepLemma ==
    ASSUME IdeInv, DiskStep
    PROVE  ChannelInv'
<1>1. /\ UNCHANGED <<pc, op, holder, waiters, status, disk_done, sleepers, expecting_intr>>
      /\ disk.state \in {"reading", "preparing", "writing"}
  BY DEF DiskStep, callVars, lockVars, schedVars, semVars, BIT_STAT_BSY
<1>2. PICK h \in Thread : h = holder /\ h # NULL
  BY <1>1 DEF IdeInv, DriverTypeOK, ChannelInv, PhaseInv
<1>3. pc[h] \in InChannel /\ Phase(h) /\ op[h] \in {"read", "write"}
  BY <1>2 DEF IdeInv, ChannelInv, OwnerInv, PhaseInv
<1>4. disk \in [state : DiskState, by : Thread \cup {NULL}]
  BY DEF IdeInv, DriverTypeOK
<1>5. Phase(h)'
  <2>1. CASE disk.state = "preparing"
    <3>1. pc[h] \in {"poll", "nap"} /\ op[h] = "write" /\ Calm /\ disk.by = h /\ expecting_intr
      BY <1>3, <2>1 DEF Phase, Working, Raised, Taken, Served, InChannel
    <3>2. disk' = [disk EXCEPT !.state = "asks"] /\ ~ irq'
      BY <2>1, <3>1 DEF DiskStep, Calm
    <3>3. disk'.state = "asks" /\ disk'.by = h
      BY <1>4, <3>1, <3>2
    <3> QED BY <1>1, <3>1, <3>2, <3>3 DEF Phase, Calm
  <2>2. CASE disk.state # "preparing"
    <3>1. pc[h] = "down" /\ Working(h)
      BY <1>1, <1>3, <2>2 DEF Phase, Raised, Taken, Served, InChannel
    <3>2. irq' = TRUE
      BY <2>2 DEF DiskStep
    <3>3. Served(h)'
      <4>1. CASE op[h] = "read"
        <5>1. disk.state = "reading" /\ disk.by = h
          BY <3>1, <4>1 DEF Working
        <5>2. disk' = [disk EXCEPT !.state = "offers"]
          BY <5>1 DEF DiskStep
        <5>3. disk'.state = "offers" /\ disk'.by = h
          BY <1>4, <5>1, <5>2
        <5> QED BY <1>1, <4>1, <5>3 DEF Served
      <4>2. CASE op[h] = "write"
        <5>1. disk.state = "writing"
          BY <3>1, <4>2 DEF Working
        <5>2. disk' = [state |-> "idle", by |-> NULL]
          BY <5>1 DEF DiskStep
        <5> QED BY <1>1, <4>2, <5>2 DEF Served
      <4> QED BY <1>3, <4>1, <4>2
    <3>4. Raised(h)'
      BY <1>1, <3>1, <3>2, <3>3 DEF Raised, Working
    <3> QED BY <1>1, <1>3, <3>1, <3>4 DEF Phase
  <2> QED BY <2>1, <2>2
<1>6. PhaseInv'
  BY <1>1, <1>2, <1>5 DEF PhaseInv
<1>7. OwnerInv' /\ WaitersInv'
  BY <1>1 DEF IdeInv, ChannelInv, OwnerInv, WaitersInv
<1> QED BY <1>6, <1>7 DEF ChannelInv

LEMMA ChannelStep == IdeInv /\ [IdeNext]_ideVars => ChannelInv'
<1> SUFFICES ASSUME IdeInv, [IdeNext]_ideVars PROVE ChannelInv'
  OBVIOUS
<1> USE ThreadAssumption
<1>0. /\ cur \in Thread /\ (pc[cur] # "out" => cur # idle_thread) /\ pc[idle_thread] = "out"
      /\ pc \in [Thread -> PC] /\ SchedInv /\ OwnerInv
  BY Awakened DEF IdeInv, DriverTypeOK, ChannelInv, OwnerInv
<1>1. ASSUME UNCHANGED <<pc, op, holder, waiters, disk, irq, expecting_intr, disk_done, sleepers>>,
             \A t \in Thread : pc[t] # "out" => KeptStatus(t)
      PROVE  ChannelInv'
  <2>1. OwnerInv'
    BY <1>0, <1>1 DEF OwnerInv
  <2>2. WaitersInv'
    BY <1>1, WaitersStay DEF KeptStatus, Awake
  <2>3. PhaseInv'
    BY <1>0, <1>1, OutsideChannel DEF OwnerInv, KeptStatus, Awake, InChannel
  <2> QED BY <2>1, <2>2, <2>3 DEF ChannelInv
<1>2. CASE Preempt
  BY <1>0, <1>1, <1>2, TimerStatus DEF Preempt, callVars, lockVars, semVars, diskVars
<1>3. CASE IdleLoop
  BY <1>0, <1>1, <1>3, IdleStatus DEF IdleLoop, callVars, lockVars, semVars, diskVars
<1>4. CASE main_exit
  BY <1>0, <1>1, <1>4, ExitSelfStatus DEF main_exit, callVars, lockVars, semVars, diskVars
<1>5. CASE SysReturn
  <2>1. /\ UNCHANGED <<op, holder, waiters, disk, irq, expecting_intr, disk_done, sleepers, status>>
        /\ pc[cur] = "ret" /\ \A t \in Thread : pc'[t] = (IF t = cur THEN "out" ELSE pc[t])
    BY <1>0, <1>5 DEF SysReturn, GoTo, IntrEnable, lockVars, semVars, diskVars
  <2>2. OwnerInv'
    BY <1>0, <2>1 DEF OwnerInv, InChannel
  <2>3. WaitersInv'
    BY <2>1, WaitersStay
  <2>4. PhaseInv'
    BY <1>0, <2>1, OutsideChannel DEF OwnerInv, InChannel
  <2> QED BY <2>2, <2>3, <2>4 DEF ChannelInv
<1>6. CASE Spin \/ UNCHANGED ideVars
  <2>1. status' = status /\ UNCHANGED <<pc, op, holder, waiters, disk, irq, expecting_intr, disk_done, sleepers>>
    BY <1>6 DEF Spin, ideVars, schedVars, callVars, lockVars, semVars, diskVars
  <2> QED BY <1>1, <2>1 DEF KeptStatus
<1> QED BY <1>2, <1>3, <1>4, <1>5, <1>6, CallStep, AcquireStep, ExpectStep, CmdStep, DownStep,
           BusyStep, SleepStep, MoveStep, NextStep, HandlerStep, DiskStepLemma
        DEF IdeNext, Driver, DriverStep, Running

----------------------------------------------------------------------------
(* Theorems.                                                                *)

\* The inductive invariant: the scheduler's, the types, and how far the
\* command of the holder of the channel is.
THEOREM IdeInvariant == IdeSpec => []IdeInv
<1>1. IdeInit => IdeInv
  BY IdeInitLemma
<1>2. IdeInv /\ [IdeNext]_ideVars => IdeInv'
  BY IdeSchedStep, SchedStep, TypeStep, ChannelStep DEF IdeInv
<1> QED BY <1>1, <1>2, PTL DEF IdeSpec

\* disk_done is 0 or 1, as the ASSERT of sema_up wants, however late the
\* interrupt of the disk comes, and every other variable has its type.
THEOREM IdeTypeCorrect == IdeSpec => []IdeTypeOK
<1>1. IdeInv => IdeTypeOK
  BY DEF IdeInv, SchedInv, DriverTypeOK, IdeTypeOK
<1> QED BY <1>1, IdeInvariant, PTL

\* Whoever is in the channel holds its lock, a command finds the disk idle and
\* nothing left of the one before, and data moves for the thread whose command
\* the disk carries out (ide_read, ide_write).
THEOREM CommandMatchedTheorem == IdeSpec => []CommandMatched
<1>1. IdeInv => CommandMatched
  <2> SUFFICES ASSUME IdeInv, NEW t \in Thread
               PROVE  /\ pc[t] \in InChannel <=> holder = t
                      /\ pc[t] \in {"select", "cmd"} =>
                             disk.state = "idle" /\ ~irq /\ disk_done = 0 /\ sleepers = <<>>
                      /\ pc[t] = "move" =>
                             disk = [state |-> IF op[t] = "read" THEN "offers" ELSE "asks", by |-> t]
    BY DEF CommandMatched
  <2>1. pc[t] \in InChannel <=> holder = t
    BY DEF IdeInv, ChannelInv, OwnerInv
  <2>2. holder = t => Phase(t) /\ op[t] \in {"read", "write"}
    BY <2>1, IdeAssumption DEF IdeInv, ChannelInv, OwnerInv, PhaseInv
  <2>3. ASSUME pc[t] = "move"
        PROVE  disk = [state |-> IF op[t] = "read" THEN "offers" ELSE "asks", by |-> t]
    <3>1. disk.by = t /\ disk.state = IF op[t] = "read" THEN "offers" ELSE "asks"
      BY <2>1, <2>2, <2>3 DEF Phase, InChannel
    <3>2. disk \in [state : DiskState, by : Thread \cup {NULL}]
      BY DEF IdeInv, DriverTypeOK
    <3> QED BY <3>1, <3>2
  <2> QED BY <2>1, <2>2, <2>3 DEF Phase, Calm, InChannel
<1> QED BY <1>1, IdeInvariant, PTL

\* The driver uses the scheduler as every thread does: Ide implements Sched.
THEOREM IdeImplementsSched == IdeSpec => SchedSpec
<1>1. IdeInit => SchedInit
  BY DEF IdeInit
<1>2. IdeInv /\ [IdeNext]_ideVars => [SchedNext]_schedVars
  BY IdeSchedStep
<1> QED BY <1>1, <1>2, IdeInvariant, PTL DEF IdeSpec, SchedSpec

----------------------------------------------------------------------------
(* The receive path: SoftIrq.                                               *)

\* An interrupt of the NIC that is pending will queue one more NET_RX.
Announced == IF prx /\ ~ inirq /\ ~ clobbered THEN 1 ELSE 0

\* The ISR and the latch of the PIC: there is a request only while the ISR has
\* a bit set, and none is left while the handler runs or after one has
\* overwritten CURR instead of clearing the ISR.
RequestInv ==
    /\ irr \/ inirq \/ clobbered => prx \/ ptx
    /\ inirq \/ clobbered => ~ irr
    /\ clobbered => ~ inirq

\* ReceiveFindsFrame, with the frame that the pending interrupt announces; and
\* the entry that TestQueue has seen is still there when queue_get takes it.
FramesCounted ==
    /\ irqs + InHand + Announced <= frames + Misread
    /\ kpc = "page0" => seen
    /\ stale => clobbered /\ irqs + InHand = 0
    /\ kpc = "get" => irqs > 0

NetInv == SoftTypeOK /\ RequestInv /\ FramesCounted /\ BufferNotShared
SoftInv == SchedInv /\ NetInv

----------------------------------------------------------------------------
\* msg_init links every buffer once.
LEMMA msg_initLemma ==
    ASSUME SoftInit
    PROVE  free \in Seq(Message) /\ NoDup(free) /\ msg \in Message
<1> DEFINE n == Cardinality(Message)
<1>1. n \in Nat /\ n # 0 /\ ExistsBijection(1..n, Message)
  BY SoftIrqAssumption, FS_CardinalityType, FS_EmptySet
<1>2. PICK s \in [1..n -> Message] : \A i, j \in 1..n : s[i] = s[j] => i = j
  BY <1>1 DEF ExistsBijection, Bijection, Injection, IsInjective
<1>3. \A f \in [1..n -> Message] : f \in Seq(Message) /\ Len(f) = n
  BY <1>1
<1>4. NoDup(s)
  BY <1>2, <1>3 DEF NoDup
<1>5. free \in [1..n -> Message] /\ NoDup(free)
  BY <1>4 DEF SoftInit
<1>6. msg = free[1] /\ 1 \in 1..n
  BY <1>1 DEF SoftInit
<1> QED BY <1>3, <1>5, <1>6

LEMMA SoftInitLemma == SoftInit => SoftInv
<1> SUFFICES ASSUME SoftInit PROVE SoftInv
  OBVIOUS
<1>1. SchedInv
  BY InitLemma DEF SoftInit
<1>2. SoftTypeOK
  <2>1. irqs \in 0..(QueueSize - 1) /\ frames \in 0..FrameMax
    BY SoftIrqAssumption DEF SoftInit
  <2>2. kpc \in KPC /\ seen \in BOOLEAN /\ clobbered \in BOOLEAN /\ stale \in BOOLEAN
    BY DEF SoftInit, KPC
  <2>3. prx \in BOOLEAN /\ ptx \in BOOLEAN /\ inirq \in BOOLEAN /\ irr \in BOOLEAN
    BY DEF SoftInit
  <2>4. waitarp \in SUBSET Message
    BY DEF SoftInit
  <2> QED BY <2>1, <2>2, <2>3, <2>4, msg_initLemma DEF SoftTypeOK
<1>3. RequestInv /\ FramesCounted
  BY DEF SoftInit, RequestInv, FramesCounted, InHand, Announced, Misread, Page1
<1>4. BufferNotShared
  BY msg_initLemma DEF SoftInit, BufferNotShared
<1> QED BY <1>1, <1>2, <1>3, <1>4 DEF SoftInv, NetInv

----------------------------------------------------------------------------
(* Every step is a step of Sched or leaves the scheduler alone.             *)
LEMMA SoftSchedStep == SchedTypeOK /\ [SoftNext]_softVars => [SchedNext]_schedVars
<1> SUFFICES ASSUME SchedTypeOK, [SoftNext]_softVars PROVE SchedNext \/ UNCHANGED schedVars
  OBVIOUS
<1>1. k \in Thread /\ k # idle_thread
  BY SoftIrqAssumption DEF k
<1>2. CASE intr_network_handler
  BY <1>1, <1>2 DEF intr_network_handler, softirq_queue_put, WakeKsoftirqd,
     SchedNext, Unblock, Stopped
<1>3. CASE noirq_to_solve
  <2>1. Block("TASK_WAITING", intr)
    BY <1>1, <1>3 DEF noirq_to_solve, Block, KRunning, Stopped
  <2> QED BY <2>1 DEF SchedNext, SchedTypeOK, Stopped
<1> QED BY <1>2, <1>3
        DEF SoftNext, Ksoftirqd, SoftPreempt, clear_isr, FrameArrives, TestQueue, queue_get,
            get_message_from_list, SelectPage1, ReadCurr, ethernet_recv, SchedNext, softVars
----------------------------------------------------------------------------
(* The NIC, the softirq queue and the buffers, one step per action.          *)

\* A step that moves no buffer: BufferNotShared stays unless a buffer is taken.
Holding == kpc \in {"recv", "curr", "page0", "astray"}

LEMMA BuffersFrame ==
    ASSUME BufferNotShared, UNCHANGED <<free, msg>>, Holding' => Holding
    PROVE  BufferNotShared'
<1> QED BY DEF BufferNotShared, Holding

\* What ip_send and message_free make of the free list: a prefix of it, with
\* the message at its end.
LEMMA LinkedTwiceLemma ==
    ASSUME free \in Seq(Message), NoDup(free), msg \in Message, ~ elem_find(free, msg),
           LinkedTwice
    PROVE  free' \in Seq(Message) /\ NoDup(free') /\ waitarp' = {msg}
<1> DEFINE before == {i \in 1..Len(free) : free[i] \in waitarp}
<1>1. CASE before = {}
  <2>1. free' = Append(free, msg) /\ waitarp' = {msg}
    BY <1>1 DEF LinkedTwice
  <2> QED BY <2>1, AppendLemma
<1>2. CASE before # {}
  <2>1. PICK i \in 1..Len(free) : free' = Append(SubSeq(free, 1, i), msg) /\ waitarp' = {msg}
    <3>1. (CHOOSE i \in before : TRUE) \in before
      BY <1>2
    <3>2. free' = Append(SubSeq(free, 1, CHOOSE i \in before : TRUE), msg) /\ waitarp' = {msg}
      BY <1>2 DEF LinkedTwice
    <3> HIDE DEF before
    <3>3. before \subseteq 1..Len(free)
      BY DEF before
    <3> QED BY <3>1, <3>2, <3>3
  <2>2. PICK p : p = SubSeq(free, 1, i)
    OBVIOUS
  <2>3. Len(free) \in Nat /\ 1 \in 1..(Len(free) + 1) /\ i \in 0..Len(free)
    OBVIOUS
  <2>4. p \in Seq(Message) /\ Len(p) = i /\ \A j \in 1..i : p[j] = free[j]
    BY <2>2, <2>3, SubSeqProperties
  <2>5. NoDup(p) /\ ~ elem_find(p, msg)
    BY <2>3, <2>4 DEF NoDup, elem_find
  <2>6. free' = Append(p, msg)
    BY <2>1, <2>2
  <2>7. Append(p, msg) \in Seq(Message) /\ NoDup(Append(p, msg))
    BY <2>4, <2>5, AppendLemma
  <2> QED BY <2>1, <2>6, <2>7
<1> QED BY <1>1, <1>2

LEMMA NetStep == NetInv /\ [SoftNext]_softVars => NetInv'
<1> SUFFICES ASSUME NetInv, [SoftNext]_softVars PROVE NetInv'
  OBVIOUS
<1> USE SoftIrqAssumption DEF NetInv
<1>0. frames \in Nat /\ frames <= FrameMax /\ irqs \in Nat /\ irqs <= QueueSize - 1
  BY DEF SoftTypeOK
<1>1. CASE UNCHANGED netVars
  <2>1. SoftTypeOK'
    BY <1>1 DEF SoftTypeOK, netVars
  <2>2. RequestInv' /\ FramesCounted'
    BY <1>1 DEF RequestInv, FramesCounted, InHand, Announced, Misread, Page1, netVars
  <2> QED BY <1>1, <2>1, <2>2, BuffersFrame DEF netVars, Holding
<1>2. CASE intr_network_handler
  <2>1. /\ irr /\ ~ inirq /\ inirq' = TRUE /\ irr' = FALSE
        /\ UNCHANGED <<frames, prx, ptx, clobbered, stale, kpc, seen, msg, free, waitarp>>
        /\ irqs' = irqs \/ ((prx \/ Page1) /\ irqs' = irqs + 1 /\ irqs # QueueSize - 1)
    BY <1>2 DEF intr_network_handler, softirq_queue_put, PacketReceived, queue_full
  <2>2. SoftTypeOK'
    <3>1. irqs' \in 0..(QueueSize - 1)
      BY <1>0, <2>1
    <3> QED BY <2>1, <3>1, Zenon DEF SoftTypeOK
  <2>3. RequestInv'
    BY <2>1 DEF RequestInv
  <2>4. ~ clobbered /\ ~ stale
    BY <2>1 DEF RequestInv, FramesCounted
  <2>5. FramesCounted'
    BY <1>0, <2>1, <2>4 DEF FramesCounted, InHand, Announced, Misread, Page1
  <2> QED BY <2>1, <2>2, <2>3, <2>5, BuffersFrame DEF Holding
<1>3. CASE clear_isr
  <2>1. SoftTypeOK'
    BY <1>3 DEF clear_isr, SoftTypeOK, Page1
  <2>2. RequestInv'
    BY <1>3 DEF clear_isr, RequestInv, Page1
  <2>3. FramesCounted'
    BY <1>0, <1>3 DEF clear_isr, RequestInv, FramesCounted, InHand, Announced, Misread, Page1
  <2> QED BY <1>3, <2>1, <2>2, <2>3, BuffersFrame DEF clear_isr, Holding
<1>4. CASE FrameArrives
  <2>1. /\ irr' = (irr \/ ~ (prx \/ ptx))
        /\ UNCHANGED <<irqs, inirq, clobbered, stale, kpc, seen, msg, free, waitarp>>
        /\ \/ frames < FrameMax /\ ~ clobbered /\ frames' = frames + 1 /\ prx' = TRUE /\ ptx' = ptx
           \/ ptx' = TRUE /\ frames' = frames /\ prx' = prx
    BY <1>4 DEF FrameArrives, Raise
  <2>2. SoftTypeOK'
    <3>1. frames' \in 0..FrameMax
      BY <1>0, <2>1
    <3>2. prx' \in BOOLEAN /\ ptx' \in BOOLEAN /\ irr' \in BOOLEAN
      BY <2>1, Zenon DEF SoftTypeOK
    <3> QED BY <2>1, <3>1, <3>2, Zenon DEF SoftTypeOK
  <2>3. RequestInv'
    BY <2>1, Zenon DEF RequestInv
  <2>4. FramesCounted'
    BY <1>0, <2>1 DEF FramesCounted, InHand, Announced, Misread, Page1
  <2> QED BY <2>1, <2>2, <2>3, <2>4, BuffersFrame DEF Holding
<1>5. CASE TestQueue
  <2>1. SoftTypeOK' /\ RequestInv'
    BY <1>5 DEF TestQueue, SoftTypeOK, KPC, RequestInv
  <2>2. FramesCounted'
    BY <1>0, <1>5 DEF TestQueue, FramesCounted, InHand, Announced, Misread, Page1, queue_empty
  <2>3. ~ Holding'
    BY <1>5 DEF TestQueue, Holding
  <2> QED BY <1>5, <2>1, <2>2, <2>3, BuffersFrame DEF TestQueue
<1>6. CASE noirq_to_solve
  <2>1. SoftTypeOK' /\ RequestInv'
    BY <1>6 DEF noirq_to_solve, SoftTypeOK, KPC, RequestInv
  <2>2. FramesCounted'
    BY <1>0, <1>6 DEF noirq_to_solve, FramesCounted, InHand, Announced, Misread, Page1
  <2>3. ~ Holding'
    BY <1>6 DEF noirq_to_solve, Holding
  <2> QED BY <1>6, <2>1, <2>2, <2>3, BuffersFrame DEF noirq_to_solve
<1>7. CASE queue_get
  <2>1. irqs > 0
    BY <1>7 DEF queue_get, FramesCounted
  <2>2. SoftTypeOK' /\ RequestInv'
    BY <1>0, <1>7, <2>1 DEF queue_get, SoftTypeOK, KPC, RequestInv
  <2>3. FramesCounted'
    BY <1>0, <1>7 DEF queue_get, FramesCounted, InHand, Announced, Misread, Page1
  <2>4. ~ Holding'
    BY <1>7 DEF queue_get, Holding
  <2> QED BY <1>7, <2>2, <2>3, <2>4, BuffersFrame DEF queue_get
<1>8. CASE get_message_from_list
  <2>1. RequestInv' /\ FramesCounted'
    BY <1>0, <1>8
       DEF get_message_from_list, RequestInv, FramesCounted, InHand, Announced, Misread, Page1
  <2>2. CASE free = <<>>
    <3>1. SoftTypeOK' /\ kpc' = "starved" /\ UNCHANGED <<free, msg>>
      BY <1>8, <2>2 DEF get_message_from_list, SoftTypeOK, KPC
    <3> QED BY <2>1, <3>1, BuffersFrame DEF Holding
  <2>3. CASE free # <<>>
    <3>1. free \in Seq(Message) /\ NoDup(free)
      BY DEF SoftTypeOK, BufferNotShared
    <3>2. /\ Head(free) \in Message /\ Tail(free) \in Seq(Message) /\ NoDup(Tail(free))
          /\ ~ elem_find(Tail(free), Head(free))
      BY <2>3, <3>1, PopLemma
    <3>3. kpc' = "recv" /\ msg' = Head(free) /\ free' = Tail(free)
      BY <1>8, <2>3 DEF get_message_from_list, Popped
    <3>4. SoftTypeOK'
      BY <1>8, <3>2, <3>3 DEF get_message_from_list, SoftTypeOK, KPC
    <3>5. BufferNotShared'
      BY <3>2, <3>3 DEF BufferNotShared
    <3> QED BY <2>1, <3>4, <3>5
  <2> QED BY <2>2, <2>3
<1>9. CASE SelectPage1
  <2>1. SoftTypeOK' /\ RequestInv'
    BY <1>9 DEF SelectPage1, SoftTypeOK, KPC, RequestInv
  <2>2. FramesCounted'
    BY <1>0, <1>9
       DEF SelectPage1, KRunning, FramesCounted, InHand, Announced, Misread, Page1
  <2>3. Holding
    BY <1>9 DEF SelectPage1, Holding
  <2> QED BY <1>9, <2>1, <2>2, <2>3, BuffersFrame DEF SelectPage1
<1>10. CASE ReadCurr
  <2>1. SoftTypeOK' /\ RequestInv'
    BY <1>10 DEF ReadCurr, SoftTypeOK, KPC, RequestInv
  <2>2. frames # 0 \/ clobbered
    BY <1>0, <1>10 DEF ReadCurr, KRunning, FramesCounted, InHand, Announced, Misread, Page1
  <2>3. FramesCounted'
    BY <1>0, <1>10, <2>2
       DEF ReadCurr, KRunning, FramesCounted, InHand, Announced, Misread, Page1
  <2>4. Holding
    BY <1>10 DEF ReadCurr, Holding
  <2> QED BY <1>10, <2>1, <2>3, <2>4, BuffersFrame DEF ReadCurr
<1>11. CASE ethernet_recv
  <2>1. PICK f \in Frame : Protocols(f)
    BY <1>11 DEF ethernet_recv
  <2>2. /\ free \in Seq(Message) /\ NoDup(free) /\ msg \in Message /\ ~ elem_find(free, msg)
        /\ waitarp \in SUBSET Message
    BY <1>11 DEF ethernet_recv, SoftTypeOK, BufferNotShared
  <2>3. Append(free, msg) \in Seq(Message) /\ NoDup(Append(free, msg))
    BY <2>2, AppendLemma
  <2>4. /\ free' \in Seq(Message) /\ NoDup(free') /\ waitarp' \in SUBSET Message
        /\ kpc' = "test" \/ (kpc' = "astray" /\ free' = free)
    <3>1. CASE LinkedTwice
      BY <2>1, <2>2, <3>1, LinkedTwiceLemma DEF Protocols
    <3>2. CASE ~ LinkedTwice
      BY <2>1, <2>2, <2>3, <3>2 DEF Protocols, message_free
    <3> QED BY <3>1, <3>2
  <2>5. \/ ptx' = ptx /\ irr' = irr
        \/ ptx' = TRUE /\ irr' = (irr \/ ~ (prx \/ ptx))
    BY <2>1 DEF Protocols, Transmit, Raise
  <2>6. /\ kpc = "page0" /\ ~ inirq /\ seen /\ seen' = FALSE
        /\ frames' = IF frames # 0 THEN frames - 1 ELSE frames
        /\ stale' = (stale \/ frames = 0)
        /\ irqs' = irqs /\ prx' = prx /\ inirq' = inirq /\ clobbered' = clobbered /\ msg' = msg
    BY <1>11 DEF ethernet_recv, KRunning, FramesCounted
  <2>7. SoftTypeOK'
    <3>1. frames' \in 0..FrameMax /\ irqs' \in 0..(QueueSize - 1)
      BY <1>0, <2>6
    <3>2. ptx' \in BOOLEAN /\ irr' \in BOOLEAN /\ stale' \in BOOLEAN
      BY <2>5, <2>6, Zenon DEF SoftTypeOK
    <3>3. kpc' \in KPC
      BY <2>4 DEF KPC
    <3> QED BY <2>2, <2>4, <2>6, <3>1, <3>2, <3>3, Zenon DEF SoftTypeOK
  <2>8. RequestInv'
    <3>1. prx' = prx /\ inirq' = inirq /\ clobbered' = clobbered
      BY <2>6
    <3>2. CASE ptx' = ptx /\ irr' = irr
      BY <3>1, <3>2 DEF RequestInv
    <3>3. CASE ptx' = TRUE /\ irr' = (irr \/ ~ (prx \/ ptx))
      <4>1. clobbered => ~ irr' /\ ~ inirq'
        BY <3>1, <3>3, Zenon DEF RequestInv
      <4>2. ~ inirq'
        BY <2>6
      <4> QED BY <3>1, <3>3, <4>1, <4>2, Zenon DEF RequestInv
    <3> QED BY <2>5, <3>2, <3>3
  <2>9. FramesCounted'
    <3>1. kpc' \in {"test", "astray"}
      BY <2>4
    <3>2. CASE frames # 0
      <4>1. ~ stale
        BY <1>0, <2>6 DEF FramesCounted, InHand, Page1
      <4>2. ~ stale'
        BY <2>6, <3>2, <4>1, Zenon
      <4> QED BY <1>0, <2>6, <3>1, <3>2, <4>1, <4>2
              DEF FramesCounted, InHand, Announced, Misread, Page1
    <3>3. CASE frames = 0
      <4>1. clobbered /\ irqs = 0
        BY <1>0, <2>6, <3>3 DEF FramesCounted, InHand, Announced, Misread, Page1
      <4> QED BY <2>6, <3>1, <3>3, <4>1 DEF FramesCounted, InHand, Announced, Misread, Page1
    <3> QED BY <3>2, <3>3
  <2>10. BufferNotShared'
    BY <2>2, <2>4, <2>6 DEF BufferNotShared
  <2> QED BY <2>7, <2>8, <2>9, <2>10
<1> QED BY <1>1, <1>2, <1>3, <1>4, <1>5, <1>6, <1>7, <1>8, <1>9, <1>10, <1>11
        DEF SoftNext, Ksoftirqd, SoftPreempt, softVars

----------------------------------------------------------------------------
(* Theorems.                                                                *)

\* The scheduler's and the receive path's part of the state keep their
\* invariants; the queue never holds more than its ring can.
THEOREM SoftInvariant == SoftSpec => []SoftInv
<1>1. SoftInit => SoftInv
  BY SoftInitLemma
<1>2. SoftInv /\ [SoftNext]_softVars => SoftInv'
  BY SchedStep, SoftSchedStep, NetStep DEF SoftInv, SchedInv
<1> QED BY <1>1, <1>2, PTL DEF SoftSpec

\* However interrupts are merged, dropped, delayed or misread, ksoftirqd asks
\* the NIC for a frame it does not hold at most once, after an interrupt has
\* found page 1 selected; ne2000_recv never returns 0 (ethernet_recv,
\* ne2000_recv, intr_network_handler).
THEOREM ReceiveFindsFrameTheorem == SoftSpec => []ReceiveFindsFrame
<1>1. SoftInv => ReceiveFindsFrame
  <2> SUFFICES ASSUME SoftInv PROVE ReceiveFindsFrame
    OBVIOUS
  <2>1. frames \in Nat /\ irqs \in Nat
    BY DEF SoftInv, NetInv, SoftTypeOK
  <2> QED BY <2>1 DEF SoftInv, NetInv, FramesCounted, Announced, InHand, Misread, ReceiveFindsFrame
<1> QED BY <1>1, SoftInvariant, PTL

\* A message buffer is in msg_free_list at most once and never while a frame
\* is received into it, although ip_send and icmp_recv link messages into two
\* lists by one tag (get_message_from_list, message_free, list_append).
THEOREM BufferNotSharedTheorem == SoftSpec => []BufferNotShared
<1>1. SoftInv => BufferNotShared
  BY DEF SoftInv, NetInv
<1> QED BY <1>1, SoftInvariant, PTL

\* The receive path uses the scheduler as every thread does: SoftIrq
\* implements Sched.
THEOREM SoftImplementsSched == SoftSpec => SchedSpec
<1>1. SoftInit => SchedInit
  BY DEF SoftInit
<1>2. SoftInv /\ [SoftNext]_softVars => [SchedNext]_schedVars
  BY SoftSchedStep DEF SoftInv, SchedInv
<1> QED BY <1>1, <1>2, SoftInvariant, PTL DEF SoftSpec, SchedSpec
=============================================================================
