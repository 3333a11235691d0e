-------------------------------- MODULE Proc --------------------------------
(***************************************************************************)
(* The life of processes: fork (userprog/fork.c), exit and wait             *)
(* (userprog/wait_exit.c), thread_exit and the pid pool (thread/thread.c).  *)
(*                                                                         *)
(* A system call runs with interrupts off from int 0x80 to iret, so its     *)
(* steps are cut only where the scheduler's are.  PCBs are reused as soon   *)
(* as thread_exit has freed their page.  What a process computes, its       *)
(* memory, its files and its exit status are left out.                      *)
(***************************************************************************)
EXTENDS Sched

CONSTANTS
    init_process,   \* the process that thread_init executes first
    PID_MAX         \* size of the pid pool

ASSUME ProcAssumption ==
    /\ init_process \in Thread \ {idle_thread, main_thread}
    /\ PID_MAX \in Nat /\ PID_MAX >= 3
    /\ BootReady = <<init_process, idle_thread>>

\* pids and tids; pid_start is 1.
Pid == 1..PID_MAX

\* The PCBs of user processes.  The one of main is never freed.
Process == Thread \ {idle_thread, main_thread}

VARIABLES
    pid, tid, parent,   \* task_struct.pid, tid, parent_pid (-1: none)
    tids,               \* pid_pool.tids_in_pid
    all,                \* thread_all_list
    dirs,               \* whose page directory is allocated
    pc                  \* where in a system call a process is

procVars == <<schedVars, pid, tid, parent, tids, all, dirs, pc>>

PC == {"user", "init", "fork", "wait", "exit", "hang", "ret"}

----------------------------------------------------------------------------
(* Mutations of the definitions below, used to test the properties.        *)

\* release_pid counts down the pid of the wrong end of the pool.
ReleasedTwice(pool, p, t) == [pool EXCEPT ![p] = (@ + 254) % 256]

\* sys_exit leaves its children to a parent that is gone.
AdoptedNot(p) == parent

\* sys_exit does not look whether its parent waits.
WaitsNever(t) == FALSE

\* The last thread of a process is one too late to be the last.
is_last_pid_late(p) == tids[p] = 0

\* find_hanging_child takes any child.
find_child_any(t, ppid) == parent[t] = ppid

----------------------------------------------------------------------------
(* The pid pool: each operation gives the counters it leaves behind.       *)

Blank(pool) == {i \in Pid : pool[i] = 0}
FirstBlank(pool) == CHOOSE i \in Blank(pool) : \A j \in Blank(pool) : i <= j

\* allocate_pid(p): with p = 0 a fresh pid, else one more thread of p.  An
\* exhausted pool answers pid_start without counting it.
PidGiven(pool, p) == IF p # 0 THEN p ELSE IF Blank(pool) = {} THEN 1 ELSE FirstBlank(pool)
PidCounted(pool, p) ==
    IF p # 0 THEN [pool EXCEPT ![p] = (@ + 1) % 256]
    ELSE IF Blank(pool) = {} THEN pool
    ELSE [pool EXCEPT ![FirstBlank(pool)] = 1]

\* allocate_tid(p): the pid itself for the first thread of p, else a fresh
\* tid; then p is counted a second time.
TidGiven(pool, p) == IF pool[p] = 1 THEN p ELSE FirstBlank(pool)
TidCounted(pool, p) ==
    IF pool[p] = 1 \/ Blank(pool) = {} THEN pool
    ELSE [pool EXCEPT ![FirstBlank(pool)] = 1, ![p] = (@ + 1) % 256]

\* release_pid(p, t).
Released(pool, p, t) ==
    LET once == [pool EXCEPT ![t] = (@ + 255) % 256]
    IN  IF p = t THEN once ELSE [once EXCEPT ![p] = (@ + 255) % 256]

\* is_last_pid(p).
is_last_pid(p) == tids[p] = 1

\* init_thread of init, main and idle, in the order of thread_init: init and
\* main find pid 0 in the PCB of the boot code, idle is a thread of main.
Pool0 == [i \in Pid |-> 0]
Pool1 == TidCounted(PidCounted(Pool0, 0), PidGiven(Pool0, 0))
Pool2 == TidCounted(PidCounted(Pool1, 0), PidGiven(Pool1, 0))
MainPid == PidGiven(Pool1, 0)
Pool3 == TidCounted(PidCounted(Pool2, MainPid), MainPid)
IdleTid == TidGiven(PidCounted(Pool2, MainPid), MainPid)

----------------------------------------------------------------------------
(* list_traversal of thread_all_list: the first thread for which Test holds,*)
(* idle_thread standing for none (the idle thread is nobody's child).       *)
FirstOf(Test(_)) ==
    IF \E i \in 1..Len(all) : Test(all[i])
    THEN all[CHOOSE i \in 1..Len(all) : Test(all[i]) /\ \A j \in 1..(i - 1) : ~ Test(all[j])]
    ELSE idle_thread

find_child(t, ppid)         == parent[t] = ppid
find_hanging_child(t, ppid) == parent[t] = ppid /\ status[t] = "TASK_HANGING"
pid_check(t, p)             == pid[t] = p

pid2thread(p) == FirstOf(LAMBDA t : pid_check(t, p))

\* init_adopt_a_child for every thread of the list.
Adopted(p) ==
    [t \in Thread |-> IF elem_find(all, t) /\ parent[t] = p THEN 1 ELSE parent[t]]

\* Does t sleep in sys_wait?
Waits(t) == status[t] = "TASK_WAITING"

GoTo(label) == pc' = [pc EXCEPT ![cur] = label]

\* A process in user mode, at label from, makes a system call.
Enter(from, label) ==
    /\ cur \in Process
    /\ pc[cur] = from
    /\ intr = "INTR_ON"
    /\ intr' = "INTR_OFF"
    /\ GoTo(label)
    /\ UNCHANGED <<status, ready, ticks, cur, saved>>
    /\ UNCHANGED <<pid, tid, parent, tids, all, dirs>>

\* init forks once and then loops in wait (kernel/main.c).
SysCall ==
    \/ Enter("user", "fork")
    \/ cur # init_process /\ Enter("user", "wait")
    \/ cur # init_process /\ Enter("user", "exit")
    \/ Enter("init", "wait")

SysReturn ==
    /\ pc[cur] = "ret"
    /\ intr' = "INTR_ON"
    /\ GoTo(IF cur = init_process THEN "init" ELSE "user")
    /\ UNCHANGED <<status, ready, ticks, cur, saved>>
    /\ UNCHANGED <<pid, tid, parent, tids, all, dirs>>

\* sys_fork into the PCB c that get_kernel_pages found.
sys_fork(c) ==
    /\ pc[cur] = "fork"
    /\ c \in Process
    /\ status[c] = "TASK_DIED"
    /\ LET p == PidGiven(tids, 0)
       IN  /\ tids' = PidCounted(tids, 0)
           /\ pid' = [pid EXCEPT ![c] = p]
           /\ tid' = [tid EXCEPT ![c] = p]
    /\ parent' = [parent EXCEPT ![c] = pid[cur]]
    /\ dirs' = dirs \cup {c}
    /\ all' = list_append(all, c)
    /\ thread_start(c)
    /\ pc' = [pc EXCEPT ![cur] = "ret", ![c] = "user"]

\* get_kernel_pages found no page for the PCB: fork returns -1.
sys_fork_failed ==
    /\ pc[cur] = "fork"
    /\ \A c \in Process : status[c] # "TASK_DIED"
    /\ GoTo("ret")
    /\ UNCHANGED <<schedVars, pid, tid, parent, tids, all, dirs>>

\* What thread_exit does besides scheduling.
Discard(t) ==
    /\ dirs' = IF is_last_pid(pid[t]) THEN dirs \ {t} ELSE dirs
    /\ all' = list_remove(all, t)
    /\ tids' = Released(tids, pid[t], tid[t])
    /\ pid' = [pid EXCEPT ![t] = 0]
    /\ tid' = [tid EXCEPT ![t] = 0]
    /\ parent' = [parent EXCEPT ![t] = -1]

\* One turn of the loop of sys_wait: reap a hanging child and return, return
\* -1 without a child, or sleep.
sys_wait ==
    LET child == FirstOf(LAMBDA t : find_hanging_child(t, pid[cur]))
    IN  /\ pc[cur] = "wait"
        /\ \/ /\ child # idle_thread
              /\ Discard(child)
              /\ thread_exit(child, FALSE)
              /\ GoTo("ret")
           \/ /\ child = idle_thread
              /\ FirstOf(LAMBDA t : find_child(t, pid[cur])) = idle_thread
              /\ GoTo("ret")
              /\ UNCHANGED <<schedVars, pid, tid, parent, tids, all, dirs>>
           \/ /\ child = idle_thread
              /\ FirstOf(LAMBDA t : find_child(t, pid[cur])) # idle_thread
              /\ thread_block("TASK_WAITING", "INTR_OFF")
              /\ UNCHANGED <<pid, tid, parent, tids, all, dirs, pc>>

\* sys_exit: give the children to init, release the memory and the files, wake
\* the parent if it waits ...
sys_exit ==
    LET boss == pid2thread(parent[cur])
    IN  /\ pc[cur] = "exit"
        /\ parent' = Adopted(pid[cur])
        /\ IF Waits(boss)
           THEN thread_unblock(boss) /\ UNCHANGED <<ticks, cur, intr, saved>>
           ELSE UNCHANGED schedVars
        /\ GoTo("hang")
        /\ UNCHANGED <<pid, tid, tids, all, dirs>>

\* ... and stop for good.
sys_exit_hang ==
    /\ pc[cur] = "hang"
    /\ thread_block("TASK_HANGING", "INTR_OFF")
    /\ UNCHANGED <<pid, tid, parent, tids, all, dirs, pc>>

\* The end of main: its PCB and its page directory stay.
main_exit ==
    /\ cur = main_thread
    /\ intr = "INTR_ON"
    /\ Discard(main_thread)
    /\ thread_exit(main_thread, TRUE)
    /\ UNCHANGED pc

Preempt ==
    /\ intr_timer_handler \/ Idle
    /\ UNCHANGED <<pid, tid, parent, tids, all, dirs, pc>>

ProcInit ==
    /\ SchedInit
    /\ pid = [t \in Thread |-> IF t = init_process THEN PidGiven(Pool0, 0)
                               ELSE IF t \in Process THEN 0 ELSE MainPid]
    /\ tid = [pid EXCEPT ![idle_thread] = IdleTid]
    /\ parent = [t \in Thread |-> -1]
    /\ tids = Pool3
    /\ all = <<init_process, main_thread, idle_thread>>
    /\ dirs = {init_process}
    /\ pc = [t \in Thread |-> "user"]

ProcNext ==
    \/ SysCall
    \/ SysReturn
    \/ \E c \in Process : sys_fork(c)
    \/ sys_fork_failed
    \/ sys_wait
    \/ sys_exit
    \/ sys_exit_hang
    \/ main_exit
    \/ Preempt

ProcSpec == ProcInit /\ [][ProcNext]_procVars

(* The timer interrupt is taken again and again, and a process goes on with  *)
(* the system call it is in; it need not make another one.                  *)
ProcFairSpec ==
    /\ ProcSpec
    /\ SF_procVars(Preempt)
    /\ WF_procVars(SysReturn \/ sys_wait \/ sys_exit \/ sys_exit_hang)
    /\ WF_procVars(sys_fork_failed \/ \E c \in Process : sys_fork(c))

----------------------------------------------------------------------------
Alive(t) == status[t] # "TASK_DIED"

\* Every variable has its type; the parent of a process is never pid 0, which
\* no thread has (wait_exit.c:84-90).
ProcTypeOK ==
    /\ pid \in [Thread -> 0..PID_MAX]
    /\ tid \in [Thread -> 0..PID_MAX]
    /\ parent \in [Thread -> {-1} \cup Pid]
    /\ tids \in [Pid -> 0..255]
    /\ all \in Seq(Thread)
    /\ dirs \subseteq Thread
    /\ pc \in [Thread -> PC]

\* Every process has a pid of its own, which the pool counts once: it is not
\* handed out again before the parent has reaped the process (thread.c:231).
PidsExact ==
    /\ \A t, u \in Thread : Alive(t) /\ Alive(u) /\ tid[t] = tid[u] => t = u
    /\ \A t \in Thread : Alive(t) => tid[t] \in Pid /\ tids[tid[t]] > 0
    /\ \A t \in Process : Alive(t) => pid[t] = tid[t] /\ tids[pid[t]] = 1
    /\ \A i \in Pid : tids[i] > 0 /\ i # MainPid => \E t \in Thread : Alive(t) /\ tid[t] = i

\* The parent of a process exists and has not exited: pid2thread in sys_exit
\* finds it (wait_exit.c:128), and some sys_wait can still reap the process.
ParentAlive ==
    \A t \in Process \ {init_process} : Alive(t) =>
        \E p \in Process :
            /\ pid[p] = parent[t]
            /\ status[p] \notin {"TASK_DIED", "TASK_HANGING"}

\* A process that sleeps in sys_wait has a child, and none of its own children
\* has exited: the exit that happens between its test and its sleep is not
\* lost.  (init may sleep over orphans that had exited when it adopted them.)
WaitSound ==
    \A p \in Process : status[p] = "TASK_WAITING" =>
        /\ pc[p] = "wait"
        /\ \E t \in Process : Alive(t) /\ parent[t] = pid[p]
        /\ p # init_process =>
              \A t \in Process : parent[t] = pid[p] => status[t] # "TASK_HANGING"

\* A page directory lives exactly as long as its process: thread_exit finds
\* the last thread of every user process (thread.c:238).
DirsExact == \A t \in Process : t \in dirs <=> Alive(t)

\* sys_wait returns once a child has exited, except for init.
WaitReturns ==
    \A p \in Process \ {init_process} :
        (pc[p] = "wait" /\ \E c \in Process : parent[c] = pid[p] /\ status[c] = "TASK_HANGING")
            ~> (pc[p] # "wait")
=============================================================================
