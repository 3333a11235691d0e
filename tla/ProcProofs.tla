----------------------------- MODULE ProcProofs -----------------------------
(***************************************************************************)
(* Proofs for Proc, for any number of process PCBs and any pid pool that is *)
(* large enough for them: pids are counted exactly, every process keeps a   *)
(* parent that can reap it, no wake-up of sys_wait is lost, page            *)
(* directories live as long as their process, and fork, wait and exit use   *)
(* the scheduler as Sched specifies.                                        *)
(***************************************************************************)
EXTENDS Proc, SchedProofs, FiniteSetTheorems, WellFoundedInduction

(* There is a pid for every PCB, besides those of main and of idle.  The     *)
(* code has 1024 pids and does not handle an exhausted pool: allocate_pid    *)
(* then answers pid_start, which is the pid of init.                         *)
PidsEnough == IsFiniteSet(Process) /\ Cardinality(Process) + 2 <= PID_MAX

\* The pid of main is counted for main, for idle and once more (allocate_pid
\* and allocate_tid both count idle).
PoolInv ==
    /\ tids \in [Pid -> 0..255]
    /\ tids[2] = IF Alive(main_thread) THEN 3 ELSE 2
    /\ PidsExact

\* The threads that boot starts.
BootInv ==
    /\ pid[idle_thread] = 2 /\ tid[idle_thread] = 3 /\ parent[idle_thread] = -1
    /\ Alive(main_thread) => pid[main_thread] = 2 /\ tid[main_thread] = 2
    /\ parent[main_thread] = -1
    /\ Alive(init_process) /\ pid[init_process] = 1 /\ parent[init_process] = -1

\* thread_all_list holds the threads that exist, each once.
AllExact == NoDup(all) /\ \A t \in Thread : elem_find(all, t) <=> Alive(t)

DataInv == ProcTypeOK /\ PoolInv /\ BootInv /\ AllExact /\ DirsExact

\* Kernel threads make no system call and init never exits.
CallersInv ==
    /\ \A t \in Thread \ Process : pc[t] = "user"
    /\ pc[init_process] \notin {"exit", "hang"}

\* sys_exit is not interrupted between its first step and its sleep.
CallsInv ==
    \A t \in Process : Alive(t) =>
        /\ pc[t] \in {"exit", "hang"} =>
              (t = cur /\ intr = "INTR_OFF") \/ (pc[t] = "hang" /\ status[t] = "TASK_HANGING")
        /\ status[t] = "TASK_HANGING" => pc[t] = "hang"
        /\ status[t] = "TASK_WAITING" => pc[t] = "wait"

\* ParentAlive, and the parent has not given its children away.
FamilyInv ==
    \A t \in Process \ {init_process} : Alive(t) =>
        \E p \in Process : Alive(p) /\ pid[p] = parent[t] /\ pc[p] # "hang"

\* WaitSound, and no child is between waking its parent and hanging.
WaitInv ==
    \A p \in Process : status[p] = "TASK_WAITING" =>
        /\ \E t \in Process : Alive(t) /\ parent[t] = pid[p]
        /\ p # init_process =>
              \A t \in Process : Alive(t) /\ parent[t] = pid[p] => pc[t] # "hang"

FlowInv == CallersInv /\ CallsInv /\ FamilyInv /\ WaitInv
ProcInv == SchedInv /\ DataInv /\ FlowInv

----------------------------------------------------------------------------
(* Lists and least elements.                                                *)

\* list_remove takes out exactly the element it is given.
LEMMA RemoveLemma ==
    ASSUME NEW S, NEW s \in Seq(S), NEW x \in S, NoDup(s), elem_find(s, x)
    PROVE  /\ list_remove(s, x) \in Seq(S)
           /\ NoDup(list_remove(s, x))
           /\ \A y \in S : elem_find(list_remove(s, x), y) <=> (elem_find(s, y) /\ y # x)
<1> DEFINE k == CHOOSE i \in 1..Len(s) : s[i] = x
           r == [i \in 1..(Len(s) - 1) |-> IF i < k THEN s[i] ELSE s[i + 1]]
<1>1. k \in 1..Len(s) /\ s[k] = x
  BY DEF elem_find
<1>2. list_remove(s, x) = r
  BY DEF list_remove
<1>3. Len(s) \in Nat /\ \A i \in 1..Len(s) : s[i] \in S
  OBVIOUS
<1> HIDE DEF k
<1>4. r \in Seq(S) /\ Len(r) = Len(s) - 1
  BY <1>1, <1>3
<1>5. \A i \in 1..(Len(s) - 1) : r[i] = IF i < k THEN s[i] ELSE s[i + 1]
  OBVIOUS
<1> HIDE DEF r
<1>6. NoDup(r)
  BY <1>1, <1>3, <1>4, <1>5 DEF NoDup
<1>7. ASSUME NEW y \in S, elem_find(r, y) PROVE elem_find(s, y) /\ y # x
  <2>1. PICK i \in 1..(Len(s) - 1) : r[i] = y
    BY <1>4, <1>7 DEF elem_find
  <2>2. PICK j \in 1..Len(s) : s[j] = y /\ j # k
    BY <1>1, <1>3, <1>5, <2>1
  <2> QED BY <1>1, <2>2 DEF elem_find, NoDup
<1>8. ASSUME NEW y \in S, elem_find(s, y), y # x PROVE elem_find(r, y)
  <2>1. PICK j \in 1..Len(s) : s[j] = y
    BY <1>8 DEF elem_find
  <2>2. j # k
    BY <1>1, <1>8, <2>1
  <2>3. CASE j < k
    <3>1. j \in 1..(Len(s) - 1) /\ r[j] = y
      BY <1>1, <1>3, <1>5, <2>1, <2>3
    <3> QED BY <1>4, <3>1 DEF elem_find
  <2>4. CASE j > k
    <3>1. j - 1 \in 1..(Len(s) - 1) /\ r[j - 1] = y
      BY <1>1, <1>3, <1>5, <2>1, <2>4
    <3> QED BY <1>4, <3>1 DEF elem_find
  <2> QED BY <1>1, <2>2, <2>3, <2>4
<1> QED BY <1>2, <1>4, <1>6, <1>7, <1>8

LEMMA LeastNumber ==
    ASSUME NEW T \in SUBSET Nat, T # {}
    PROVE  \E m \in T : \A n \in T : m <= n
<1>1. PICK m \in T : \A n \in T : ~ (<<n, m>> \in OpToRel(<, Nat))
  BY NatLessThanWellFounded, WFMin
<1>2. \A n \in T : ~ (n < m)
  BY <1>1 DEF OpToRel
<1> QED BY <1>2

----------------------------------------------------------------------------
(* The pid pool.                                                            *)

\* allocate_pid finds a counter that is 0 if there is one.
LEMMA FirstBlankLemma ==
    ASSUME NEW pool, Blank(pool) # {}
    PROVE  FirstBlank(pool) \in Pid /\ pool[FirstBlank(pool)] = 0
<1>1. Blank(pool) \in SUBSET Nat
  BY DEF Blank, Pid
<1>2. FirstBlank(pool) \in Blank(pool)
  BY <1>1, LeastNumber DEF FirstBlank
<1> QED BY <1>2 DEF Blank

\* ... and it is the first one.
LEMMA FirstBlankIs ==
    ASSUME NEW pool, NEW i \in Pid, pool[i] = 0, \A j \in Pid : j < i => pool[j] # 0
    PROVE  FirstBlank(pool) = i /\ Blank(pool) # {}
<1>1. i \in Blank(pool) /\ \A j \in Blank(pool) : i <= j
  BY ProcAssumption DEF Blank, Pid
<1>2. \A k \in Blank(pool) : (\A j \in Blank(pool) : k <= j) => k = i
  BY <1>1, ProcAssumption DEF Blank, Pid
<1> QED BY <1>1, <1>2 DEF FirstBlank

\* What thread_init leaves behind: init has pid 1, main 2, idle tid 3.
LEMMA BootPids ==
    /\ PidGiven(Pool0, 0) = 1
    /\ MainPid = 2 /\ IdleTid = 3
    /\ Pool3 = [i \in Pid |-> IF i = 1 THEN 1 ELSE IF i = 2 THEN 3 ELSE IF i = 3 THEN 1 ELSE 0]
<1>0. 1 \in Pid /\ 2 \in Pid /\ 3 \in Pid /\ Pid \subseteq Nat \ {0}
  BY ProcAssumption DEF Pid
<1> DEFINE P1 == [i \in Pid |-> IF i = 1 THEN 1 ELSE 0]
           P2 == [i \in Pid |-> IF i = 1 THEN 1 ELSE IF i = 2 THEN 1 ELSE 0]
           P2a == [i \in Pid |-> IF i = 1 THEN 1 ELSE IF i = 2 THEN 2 ELSE 0]
           P3 == [i \in Pid |-> IF i = 1 THEN 1 ELSE IF i = 2 THEN 3 ELSE IF i = 3 THEN 1 ELSE 0]
<1>1. FirstBlank(Pool0) = 1 /\ Blank(Pool0) # {}
  BY <1>0, FirstBlankIs DEF Pool0
<1>2. PidGiven(Pool0, 0) = 1 /\ PidCounted(Pool0, 0) = P1
  BY <1>0, <1>1 DEF PidGiven, PidCounted, Pool0
<1>3. Pool1 = P1
  BY <1>0, <1>2 DEF Pool1, TidCounted
<1>4. FirstBlank(P1) = 2 /\ Blank(P1) # {}
  <2>1. P1[2] = 0 /\ \A j \in Pid : j < 2 => P1[j] # 0
    BY <1>0
  <2> HIDE DEF P1
  <2> QED BY <1>0, <2>1, FirstBlankIs
<1>5. PidGiven(P1, 0) = 2 /\ PidCounted(P1, 0) = P2
  BY <1>0, <1>4 DEF PidGiven, PidCounted
<1>6. MainPid = 2 /\ Pool2 = P2
  BY <1>0, <1>3, <1>5 DEF MainPid, Pool2, TidCounted
<1>7. PidCounted(P2, 2) = P2a
  <2>1. (1 + 1) % 256 = 2
    OBVIOUS
  <2>2. PidCounted(P2, 2) = [P2 EXCEPT ![2] = (@ + 1) % 256]
    BY DEF PidCounted
  <2>3. P2[2] = 1
    BY <1>0
  <2>4. [P2 EXCEPT ![2] = (@ + 1) % 256] = [P2 EXCEPT ![2] = 2]
    BY <2>1, <2>3
  <2> QED BY <1>0, <2>2, <2>4
<1>8. FirstBlank(P2a) = 3 /\ Blank(P2a) # {}
  <2>1. P2a[3] = 0 /\ \A j \in Pid : j < 3 => P2a[j] # 0
    BY <1>0
  <2> HIDE DEF P2a
  <2> QED BY <1>0, <2>1, FirstBlankIs
<1>9. TidGiven(P2a, 2) = 3 /\ TidCounted(P2a, 2) = P3
  <2>1. (2 + 1) % 256 = 3 /\ P2a[2] = 2
    BY <1>0
  <2>2. TidCounted(P2a, 2) = [P2a EXCEPT ![3] = 1, ![2] = (@ + 1) % 256]
    BY <1>8, <2>1 DEF TidCounted
  <2>3. ASSUME NEW f \in [Pid -> Nat], f[2] = 2
        PROVE  [f EXCEPT ![3] = 1, ![2] = (@ + 1) % 256] =
                  [i \in Pid |-> IF i = 2 THEN 3 ELSE IF i = 3 THEN 1 ELSE f[i]]
    <3>1. (f[2] + 1) % 256 = 3
      BY <2>1, <2>3
    <3> QED BY <1>0, <2>3, <3>1
  <2>4. P2a \in [Pid -> Nat]
    OBVIOUS
  <2>5. TidCounted(P2a, 2) = [i \in Pid |-> IF i = 2 THEN 3 ELSE IF i = 3 THEN 1 ELSE P2a[i]]
    <3> HIDE DEF P2a
    <3> QED BY <2>1, <2>2, <2>3, <2>4
  <2>6. TidCounted(P2a, 2) = P3
    BY <2>5
  <2> QED BY <1>8, <2>1, <2>6 DEF TidGiven
<1> QED BY <1>2, <1>6, <1>7, <1>9 DEF IdleTid, Pool3

----------------------------------------------------------------------------
(* What the traversals of thread_all_list find.                             *)

LEMMA FirstPlace ==
    ASSUME NEW n \in Nat, NEW T \in SUBSET (1..n), T # {}
    PROVE  \E i \in T : \A j \in 1..(i - 1) : j \notin T
<1>1. PICK i \in T : \A j \in T : i <= j
  BY LeastNumber
<1> QED BY <1>1

LEMMA ChildFound ==
    ASSUME all \in Seq(Thread),
           NEW c, c = FirstOf(LAMBDA t : find_child(t, pid[cur]))
    PROVE  IF \E t \in Thread : elem_find(all, t) /\ find_child(t, pid[cur])
           THEN c \in Thread /\ elem_find(all, c) /\ find_child(c, pid[cur])
           ELSE c = idle_thread
<1> DEFINE T == {i \in 1..Len(all) : find_child(all[i], pid[cur])}
<1>1. Len(all) \in Nat /\ T \in SUBSET (1..Len(all)) /\ \A i \in 1..Len(all) : all[i] \in Thread
  OBVIOUS
<1>2. CASE T # {}
  <2>1. \E i \in T : \A j \in 1..(i - 1) : j \notin T
    BY <1>1, <1>2, FirstPlace
  <2> DEFINE First(i) == find_child(all[i], pid[cur]) /\ \A j \in 1..(i - 1) : ~ (find_child(all[j], pid[cur]))
             k == CHOOSE i \in 1..Len(all) : First(i)
  <2>2. \E i \in 1..Len(all) : First(i)
    BY <1>1, <2>1
  <2>3. k \in 1..Len(all) /\ First(k)
    BY <2>2
  <2>4. c = all[k]
    BY <1>2 DEF FirstOf
  <2> HIDE DEF k
  <2> QED BY <1>1, <2>3, <2>4 DEF elem_find
<1>3. CASE T = {}
  BY <1>3 DEF FirstOf, elem_find
<1> QED BY <1>2, <1>3

LEMMA HangingFound ==
    ASSUME all \in Seq(Thread),
           NEW c, c = FirstOf(LAMBDA t : find_hanging_child(t, pid[cur]))
    PROVE  IF \E t \in Thread : elem_find(all, t) /\ find_hanging_child(t, pid[cur])
           THEN c \in Thread /\ elem_find(all, c) /\ find_hanging_child(c, pid[cur])
           ELSE c = idle_thread
<1> DEFINE T == {i \in 1..Len(all) : find_hanging_child(all[i], pid[cur])}
<1>1. Len(all) \in Nat /\ T \in SUBSET (1..Len(all)) /\ \A i \in 1..Len(all) : all[i] \in Thread
  OBVIOUS
<1>2. CASE T # {}
  <2>1. \E i \in T : \A j \in 1..(i - 1) : j \notin T
    BY <1>1, <1>2, FirstPlace
  <2> DEFINE First(i) == find_hanging_child(all[i], pid[cur]) /\ \A j \in 1..(i - 1) : ~ (find_hanging_child(all[j], pid[cur]))
             k == CHOOSE i \in 1..Len(all) : First(i)
  <2>2. \E i \in 1..Len(all) : First(i)
    BY <1>1, <2>1
  <2>3. k \in 1..Len(all) /\ First(k)
    BY <2>2
  <2>4. c = all[k]
    BY <1>2 DEF FirstOf
  <2> HIDE DEF k
  <2> QED BY <1>1, <2>3, <2>4 DEF elem_find
<1>3. CASE T = {}
  BY <1>3 DEF FirstOf, elem_find
<1> QED BY <1>2, <1>3

LEMMA ThreadFound ==
    ASSUME all \in Seq(Thread), NEW p
    PROVE  IF \E t \in Thread : elem_find(all, t) /\ pid[t] = p
           THEN pid2thread(p) \in Thread /\ elem_find(all, pid2thread(p)) /\ pid[pid2thread(p)] = p
           ELSE pid2thread(p) = idle_thread
<1> DEFINE T == {i \in 1..Len(all) : pid[all[i]] = p}
<1>1. Len(all) \in Nat /\ T \in SUBSET (1..Len(all)) /\ \A i \in 1..Len(all) : all[i] \in Thread
  OBVIOUS
<1>2. CASE T # {}
  <2>1. \E i \in T : \A j \in 1..(i - 1) : j \notin T
    BY <1>1, <1>2, FirstPlace
  <2> DEFINE First(i) == pid[all[i]] = p /\ \A j \in 1..(i - 1) : ~ (pid[all[j]] = p)
             k == CHOOSE i \in 1..Len(all) : First(i)
  <2>2. \E i \in 1..Len(all) : First(i)
    BY <1>1, <2>1
  <2>3. k \in 1..Len(all) /\ First(k)
    BY <2>2
  <2>4. pid2thread(p) = all[k]
    BY <1>2 DEF pid2thread, pid_check, FirstOf
  <2> HIDE DEF k
  <2> QED BY <1>1, <2>3, <2>4 DEF elem_find
<1>3. CASE T = {}
  BY <1>3 DEF FirstOf, elem_find, pid2thread, pid_check
<1> QED BY <1>2, <1>3

----------------------------------------------------------------------------
(* Pids.                                                                    *)

LEMMA PidFacts ==
    ASSUME SchedInv, DataInv
    PROVE  /\ \A p \in Process : p \in Thread /\ (Alive(p) => pid[p] \in Pid /\ pid[p] # 2 /\ pid[p] # 3)
           /\ \A p \in Process, t \in Thread : Alive(p) /\ Alive(t) /\ pid[t] = pid[p] => t = p
           /\ Alive(idle_thread) /\ idle_thread \notin Process /\ main_thread \notin Process
           /\ init_process \in Process
<1>1. Alive(idle_thread) /\ idle_thread \in Thread /\ main_thread \in Thread
  BY ThreadAssumption DEF SchedInv, IdleAvailable, Alive
<1>2. ASSUME NEW p \in Process, Alive(p) PROVE pid[p] \in Pid /\ pid[p] # 2 /\ pid[p] # 3 /\ pid[p] = tid[p]
  <2>1. p \in Thread /\ p # idle_thread
    BY DEF Process
  <2>2. pid[p] = tid[p] /\ tid[p] \in Pid /\ tids[pid[p]] = 1
    BY <1>2, <2>1 DEF DataInv, PoolInv, PidsExact
  <2>3. tids[2] # 1
    BY DEF DataInv, PoolInv
  <2>4. tid[p] # 3
    BY <1>1, <1>2, <2>1 DEF DataInv, PoolInv, PidsExact, BootInv
  <2> QED BY <2>2, <2>3, <2>4
<1>3. ASSUME NEW p \in Process, NEW t \in Thread, Alive(p), Alive(t), pid[t] = pid[p] PROVE t = p
  <2>1. p \in Thread
    BY DEF Process
  <2>2. CASE t \in Process
    BY <1>2, <1>3, <2>1, <2>2 DEF DataInv, PoolInv, PidsExact
  <2>3. CASE t \notin Process
    BY <1>2, <1>3, <2>3 DEF DataInv, BootInv, Process
  <2> QED BY <2>2, <2>3
<1> QED BY <1>1, <1>2, <1>3, ProcAssumption DEF Process

\* While a PCB is free there is a pid for it.
LEMMA PoolNotExhausted ==
    ASSUME PidsEnough, SchedInv, DataInv, NEW c \in Process, ~ Alive(c)
    PROVE  Blank(tids) # {}
<1> SUFFICES ASSUME Blank(tids) = {} PROVE FALSE
  OBVIOUS
<1> DEFINE I == Pid \ {2, 3}
           Q == Process \ {c}
           f == [i \in I |-> CHOOSE t \in Thread : Alive(t) /\ tid[t] = i]
<1>1. \A i \in I : \E t \in Thread : Alive(t) /\ tid[t] = i
  <2> SUFFICES ASSUME NEW i \in I PROVE \E t \in Thread : Alive(t) /\ tid[t] = i
    OBVIOUS
  <2>1. i \in Pid /\ i # MainPid
    BY BootPids
  <2>2. tids[i] > 0
    <3>1. tids[i] \in 0..255 /\ tids[i] # 0
      BY <2>1 DEF DataInv, PoolInv, Blank
    <3> QED BY <3>1
  <2> QED BY <2>1, <2>2 DEF DataInv, PoolInv, PidsExact
<1>2. \A i \in I : f[i] \in Thread /\ Alive(f[i]) /\ tid[f[i]] = i
  BY <1>1
<1> HIDE DEF f
<1>3. \A i \in I : f[i] \in Q
  BY <1>2 DEF DataInv, BootInv, Process
<1>4. f \in Injection(I, Q)
  <2>1. f \in [I -> Q]
    BY <1>3 DEF f
  <2> QED BY <1>2, <2>1 DEF Injection, IsInjective
<1>5. IsFiniteSet(Q) /\ Cardinality(Q) = Cardinality(Process) - 1
  BY FS_RemoveElement DEF PidsEnough
<1>6. Cardinality(I) <= Cardinality(Q)
  BY <1>4, <1>5, FS_Injection
<1>7. Cardinality(I) = PID_MAX - 2
  <2>1. IsFiniteSet(Pid) /\ Cardinality(Pid) = PID_MAX
    BY FS_Interval, ProcAssumption DEF Pid
  <2>2. IsFiniteSet(Pid \ {2}) /\ Cardinality(Pid \ {2}) = PID_MAX - 1
    <3>1. 2 \in Pid
      BY ProcAssumption DEF Pid
    <3> QED BY <2>1, <3>1, FS_RemoveElement
  <2>3. 3 \in Pid \ {2} /\ I = (Pid \ {2}) \ {3}
    BY ProcAssumption DEF Pid
  <2>4. Cardinality(I) = (PID_MAX - 1) - 1
    BY <2>2, <2>3, FS_RemoveElement
  <2> QED BY <2>4, ProcAssumption
<1>8. Cardinality(Process) \in Nat
  BY FS_CardinalityType DEF PidsEnough
<1> QED BY <1>5, <1>6, <1>7, <1>8, ProcAssumption DEF PidsEnough

----------------------------------------------------------------------------
LEMMA ProcInitLemma == ProcInit => ProcInv
<1> SUFFICES ASSUME ProcInit PROVE ProcInv
  OBVIOUS
<1> USE ThreadAssumption, ProcAssumption
<1>1. SchedInv /\ SchedInit
  BY InitLemma DEF ProcInit
<1>2. /\ init_process \in Thread /\ init_process \in Process /\ Process \subseteq Thread
      /\ idle_thread \notin Process /\ main_thread \notin Process
      /\ 1 \in Pid /\ 2 \in Pid /\ 3 \in Pid
  BY DEF Process, Pid
<1>3. \A t \in Thread : Alive(t) <=> t \in {init_process, main_thread, idle_thread}
  <2>1. \A t \in Thread : elem_find(BootReady, t) <=> t \in {init_process, idle_thread}
    <3>1. Len(BootReady) = 2 /\ BootReady[1] = init_process /\ BootReady[2] = idle_thread
      OBVIOUS
    <3>2. 1..2 = {1, 2}
      OBVIOUS
    <3> QED BY <3>1, <3>2 DEF elem_find
  <2> QED BY <1>1, <2>1 DEF SchedInit, Alive
<1>4. \A t \in Thread : pid[t] = IF t = init_process THEN 1 ELSE IF t \in Process THEN 0 ELSE 2
  BY BootPids DEF ProcInit
<1>5. \A t \in Thread : tid[t] = IF t = idle_thread THEN 3 ELSE pid[t]
  BY BootPids DEF ProcInit
<1>6. /\ tids \in [Pid -> 0..255]
      /\ tids[1] = 1 /\ tids[2] = 3 /\ tids[3] = 1
      /\ \A i \in Pid : i \notin {1, 2, 3} => tids[i] = 0
  BY <1>2, BootPids DEF ProcInit
<1>7. ProcTypeOK
  <2>1. 0 \in 0..PID_MAX /\ 1 \in 0..PID_MAX /\ 2 \in 0..PID_MAX /\ 3 \in 0..PID_MAX
    OBVIOUS
  <2>2. pid \in [Thread -> 0..PID_MAX]
    BY <2>1, <1>4, BootPids DEF ProcInit
  <2>3. tid \in [Thread -> 0..PID_MAX]
    BY <2>1, <2>2, BootPids DEF ProcInit
  <2> QED BY <1>2, <1>6, <2>2, <2>3 DEF ProcInit, ProcTypeOK, PC
<1>8. PidsExact
  <2>1. \A t, u \in Thread : Alive(t) /\ Alive(u) /\ tid[t] = tid[u] => t = u
    BY <1>2, <1>3, <1>4, <1>5
  <2>2. \A t \in Thread : Alive(t) => tid[t] \in Pid /\ tids[tid[t]] > 0
    BY <1>2, <1>3, <1>4, <1>5, <1>6
  <2>3. \A t \in Process : Alive(t) => pid[t] = tid[t] /\ tids[pid[t]] = 1
    BY <1>2, <1>3, <1>4, <1>5, <1>6
  <2>4. \A i \in Pid : tids[i] > 0 /\ i # MainPid => \E t \in Thread : Alive(t) /\ tid[t] = i
    BY <1>2, <1>3, <1>4, <1>5, <1>6, BootPids
  <2> QED BY <2>1, <2>2, <2>3, <2>4 DEF PidsExact
<1>9. BootInv /\ PoolInv
  BY <1>2, <1>3, <1>4, <1>5, <1>6, <1>8 DEF BootInv, PoolInv, ProcInit
<1>10. AllExact
  <2>1. Len(all) = 3 /\ all[1] = init_process /\ all[2] = main_thread /\ all[3] = idle_thread
    BY DEF ProcInit
  <2>2. 1..3 = {1, 2, 3}
    OBVIOUS
  <2> QED BY <1>2, <1>3, <2>1, <2>2 DEF AllExact, elem_find, NoDup
<1>11. DirsExact
  BY <1>2, <1>3 DEF ProcInit, DirsExact
<1>12. FlowInv
  <2>1. \A t \in Thread : pc[t] = "user"
    BY DEF ProcInit
  <2>2. \A t \in Thread : status[t] \notin {"TASK_HANGING", "TASK_WAITING"}
    BY <1>1 DEF SchedInit
  <2>3. CallersInv /\ CallsInv
    BY <1>2, <2>1, <2>2 DEF CallersInv, CallsInv
  <2>4. FamilyInv
    BY <1>2, <1>3 DEF FamilyInv
  <2>5. WaitInv
    BY <1>2, <2>2 DEF WaitInv
  <2> QED BY <2>3, <2>4, <2>5 DEF FlowInv
<1> QED BY <1>1, <1>7, <1>9, <1>10, <1>11, <1>12 DEF ProcInv, DataInv

----------------------------------------------------------------------------
(* Steps that leave the families alone.                                     *)

\* Nothing is allocated and nothing freed.
LEMMA DataKept ==
    ASSUME DataInv, UNCHANGED <<pid, tid, tids, all, dirs>>, pc' \in [Thread -> PC],
           \/ parent' = parent
           \/ /\ parent' \in [Thread -> {-1} \cup Pid]
              /\ \A t \in Thread : parent[t] = -1 => parent'[t] = -1,
           \A t \in Thread : Alive(t)' <=> Alive(t)
    PROVE  DataInv'
<1> USE ThreadAssumption, ProcAssumption
<1>1. Process \subseteq Thread /\ main_thread \in Thread /\ init_process \in Thread
  BY DEF Process
<1>2. ProcTypeOK'
  BY DEF DataInv, ProcTypeOK
<1>3. PidsExact'
  BY <1>1 DEF DataInv, PoolInv, PidsExact
<1>4. PoolInv' /\ BootInv'
  BY <1>1, <1>3 DEF DataInv, PoolInv, BootInv
<1>5. AllExact' /\ DirsExact'
  BY <1>1 DEF DataInv, AllExact, DirsExact
<1> QED BY <1>2, <1>4, <1>5 DEF DataInv

\* Only the running process moves, and not into or out of the end of sys_exit.
LEMMA FlowKept ==
    ASSUME SchedInv, FlowInv, CallersInv', UNCHANGED <<pid, parent>>,
           \A t \in Process :
              /\ Alive(t)' <=> Alive(t)
              /\ status'[t] = "TASK_HANGING" <=> status[t] = "TASK_HANGING"
              /\ status'[t] = "TASK_WAITING" => status[t] = "TASK_WAITING"
              /\ pc'[t] # pc[t] =>
                    /\ t = cur /\ pc[t] \notin {"exit", "hang"} /\ pc'[t] # "hang"
                    /\ pc'[t] = "exit" => cur' = cur /\ intr' = "INTR_OFF"
              /\ t = cur /\ pc[t] \in {"exit", "hang"} /\ intr = "INTR_OFF" =>
                    cur' = cur /\ intr' = "INTR_OFF"
    PROVE  FlowInv'
<1>1. Process \subseteq Thread /\ cur \in Thread /\ status[cur] = "TASK_RUNNING"
  BY DEF Process, SchedInv, SchedTypeOK, ReadyExact
<1>2. CallsInv'
  <2> SUFFICES ASSUME NEW t \in Process, Alive(t)'
               PROVE  /\ pc'[t] \in {"exit", "hang"} =>
                            (t = cur' /\ intr' = "INTR_OFF") \/ (pc'[t] = "hang" /\ status'[t] = "TASK_HANGING")
                      /\ status'[t] = "TASK_HANGING" => pc'[t] = "hang"
                      /\ status'[t] = "TASK_WAITING" => pc'[t] = "wait"
    BY DEF CallsInv
  <2>1. CASE pc'[t] = pc[t]
    BY <1>1, <2>1 DEF FlowInv, CallsInv
  <2>2. CASE pc'[t] # pc[t]
    BY <1>1, <2>2 DEF FlowInv, CallsInv
  <2> QED BY <2>1, <2>2
<1>3. FamilyInv'
  BY <1>1 DEF FlowInv, FamilyInv
<1>4. WaitInv'
  BY <1>1 DEF FlowInv, WaitInv
<1> QED BY <1>2, <1>3, <1>4 DEF FlowInv

----------------------------------------------------------------------------
(* Every step is a step of the scheduler.                                   *)

LEMMA CurFacts ==
    ASSUME ProcInv
    PROVE  /\ cur \in Thread /\ status[cur] = "TASK_RUNNING" /\ Alive(cur)
           /\ pc[cur] # "user" => cur \in Process /\ cur # idle_thread
           /\ \A t \in Process : t \in Thread /\ t # idle_thread /\ t # main_thread
           /\ all \in Seq(Thread) /\ pc \in [Thread -> PC]
           /\ status[idle_thread] \in {"TASK_RUNNING", "TASK_READY", "TASK_BLOCKED"}
<1>1. cur \in Thread /\ status[cur] = "TASK_RUNNING" /\ Alive(cur)
  BY DEF ProcInv, SchedInv, SchedTypeOK, ReadyExact, Alive
<1>2. pc[cur] # "user" => cur \in Process
  BY <1>1 DEF ProcInv, FlowInv, CallersInv
<1> QED BY <1>1, <1>2 DEF Process, ProcInv, DataInv, ProcTypeOK, SchedInv, IdleAvailable

\* The child that sys_wait reaps is a process that has exited.
LEMMA ReapedChild ==
    ASSUME ProcInv, pc[cur] = "wait",
           NEW c, c = FirstOf(LAMBDA t : find_hanging_child(t, pid[cur]))
    PROVE  IF \E t \in Process : Alive(t) /\ parent[t] = pid[cur] /\ status[t] = "TASK_HANGING"
           THEN c \in Process /\ c # init_process /\ status[c] = "TASK_HANGING" /\ parent[c] = pid[cur]
           ELSE c = idle_thread
<1>1. cur \in Process /\ pid[cur] \in Pid
  BY CurFacts, PidFacts DEF ProcInv
<1>2. \A t \in Thread : parent[t] = pid[cur] => t \in Process \ {init_process}
  BY <1>1 DEF ProcInv, DataInv, BootInv, Process, Pid
<1>3. \A t \in Thread : elem_find(all, t) <=> Alive(t)
  BY DEF ProcInv, DataInv, AllExact
<1>4. IF \E t \in Thread : elem_find(all, t) /\ find_hanging_child(t, pid[cur])
      THEN c \in Thread /\ elem_find(all, c) /\ find_hanging_child(c, pid[cur])
      ELSE c = idle_thread
  BY CurFacts, HangingFound
<1> QED BY <1>2, <1>3, <1>4, CurFacts DEF find_hanging_child

\* sys_wait sleeps only if it has a child.
LEMMA AnyChild ==
    ASSUME ProcInv, pc[cur] = "wait", FirstOf(LAMBDA t : find_child(t, pid[cur])) # idle_thread
    PROVE  \E t \in Process : Alive(t) /\ parent[t] = pid[cur]
<1>1. cur \in Process /\ pid[cur] \in Pid
  BY CurFacts, PidFacts DEF ProcInv
<1>2. \A t \in Thread : parent[t] = pid[cur] => t \in Process
  BY <1>1 DEF ProcInv, DataInv, BootInv, Process, Pid
<1>3. \A t \in Thread : elem_find(all, t) <=> Alive(t)
  BY DEF ProcInv, DataInv, AllExact
<1>4. PICK c : c = FirstOf(LAMBDA t : find_child(t, pid[cur]))
  OBVIOUS
<1>5. \E t \in Thread : elem_find(all, t) /\ find_child(t, pid[cur])
  BY <1>4, CurFacts, ChildFound
<1> QED BY <1>2, <1>3, <1>5 DEF find_child

\* pid2thread in sys_exit finds the parent, and nobody else.
LEMMA Boss ==
    ASSUME ProcInv, pc[cur] = "exit"
    PROVE  /\ pid2thread(parent[cur]) \in Process /\ Alive(pid2thread(parent[cur]))
           /\ \A p \in Process : Alive(p) /\ pid[p] = parent[cur] => p = pid2thread(parent[cur])
<1>1. cur \in Process \ {init_process} /\ Alive(cur)
  BY CurFacts DEF ProcInv, FlowInv, CallersInv
<1>2. PICK p \in Process : Alive(p) /\ pid[p] = parent[cur]
  BY <1>1 DEF ProcInv, FlowInv, FamilyInv
<1>3. \A t \in Thread : elem_find(all, t) <=> Alive(t)
  BY DEF ProcInv, DataInv, AllExact
<1>4. PICK b : b = pid2thread(parent[cur])
  OBVIOUS
<1>5. b \in Thread /\ Alive(b) /\ pid[b] = parent[cur]
  BY <1>2, <1>3, <1>4, CurFacts, ThreadFound
<1>6. b = p
  BY <1>2, <1>5, PidFacts DEF ProcInv
<1> QED BY <1>2, <1>4, <1>6, PidFacts, CurFacts DEF ProcInv

LEMMA ProcSchedStep == ProcInv /\ [ProcNext]_procVars => [SchedNext]_schedVars
<1> SUFFICES ASSUME ProcInv, [ProcNext]_procVars PROVE [SchedNext]_schedVars
  OBVIOUS
<1>1. CASE SysCall
  BY <1>1, CurFacts DEF SysCall, Enter, SchedNext, IntrDisable
<1>2. CASE SysReturn
  <2>1. intr \in {"INTR_ON", "INTR_OFF"}
    BY DEF ProcInv, SchedInv, SchedTypeOK, IntrStatus
  <2> QED BY <1>2, <2>1 DEF SysReturn, SchedNext, IntrEnable, schedVars
<1>3. CASE \E c \in Process : sys_fork(c)
  BY <1>3, CurFacts DEF sys_fork, SchedNext, Start
<1>4. CASE sys_fork_failed \/ UNCHANGED procVars
  BY <1>4 DEF sys_fork_failed, procVars, schedVars
<1>5. CASE sys_wait
  <2>1. PICK c : c = FirstOf(LAMBDA t : find_hanging_child(t, pid[cur]))
    OBVIOUS
  <2>2. CASE c # idle_thread /\ thread_exit(c, FALSE)
    BY <1>5, <2>1, <2>2, ReapedChild, CurFacts DEF SchedNext, Reap, sys_wait
  <2>3. CASE thread_block("TASK_WAITING", "INTR_OFF")
    <3>1. Block("TASK_WAITING", "INTR_OFF")
      BY <1>5, <2>3, CurFacts DEF Block, sys_wait, Stopped
    <3> QED BY <3>1 DEF SchedNext, Stopped, IntrStatus
  <2>4. CASE UNCHANGED schedVars
    BY <2>4
  <2> QED BY <1>5, <2>1, <2>2, <2>3, <2>4 DEF sys_wait
<1>6. CASE sys_exit
  <2>1. CASE Waits(pid2thread(parent[cur]))
    BY <1>6, <2>1, Boss, CurFacts DEF sys_exit, SchedNext, Unblock, Waits, Stopped
  <2>2. CASE ~ Waits(pid2thread(parent[cur]))
    BY <1>6, <2>2 DEF sys_exit
  <2> QED BY <2>1, <2>2
<1>7. CASE sys_exit_hang
  <2>1. Block("TASK_HANGING", "INTR_OFF")
    BY <1>7, CurFacts DEF Block, sys_exit_hang, Stopped
  <2> QED BY <2>1 DEF SchedNext, Stopped, IntrStatus
<1>8. CASE main_exit
  BY <1>8, ThreadAssumption DEF main_exit, SchedNext, ExitSelf
<1>9. CASE Preempt
  BY <1>9 DEF Preempt, SchedNext
<1> QED BY <1>1, <1>2, <1>3, <1>4, <1>5, <1>6, <1>7, <1>8, <1>9 DEF ProcNext

----------------------------------------------------------------------------
(* Every step keeps the invariant.                                          *)

\* The running process goes on within its system call, into one or out of one.
LEMMA MoveStep ==
    ASSUME ProcInv, UNCHANGED <<status, cur, pid, tid, parent, tids, all, dirs>>,
           NEW l \in PC \ {"hang"}, GoTo(l), cur \in Process, pc[cur] \notin {"exit", "hang"},
           l = "exit" => cur # init_process /\ intr' = "INTR_OFF"
    PROVE  DataInv' /\ FlowInv'
<1>1. pc' \in [Thread -> PC] /\ \A t \in Thread : pc'[t] = IF t = cur THEN l ELSE pc[t]
  BY CurFacts DEF GoTo
<1>2. DataInv'
  BY <1>1, DataKept DEF ProcInv, Alive
<1>3. CallersInv'
  BY <1>1, CurFacts, ProcAssumption DEF ProcInv, FlowInv, CallersInv
<1>4. FlowInv'
  BY <1>1, <1>3, CurFacts, FlowKept DEF ProcInv, Alive
<1> QED BY <1>2, <1>4

LEMMA PreemptStep ==
    ASSUME ProcInv, SchedInv', Preempt
    PROVE  DataInv' /\ FlowInv'
<1>1. pc' = pc /\ UNCHANGED <<pid, tid, parent, tids, all, dirs>>
  BY DEF Preempt
<1>2. \A t \in Thread : t # idle_thread => KeptStatus(t)
  BY TimerStatus, IdleStatus DEF Preempt, ProcInv
<1>3. Alive(idle_thread) /\ Alive(idle_thread)'
  BY DEF ProcInv, SchedInv, IdleAvailable, Alive
<1>4. intr = "INTR_ON" \/ cur = idle_thread
  BY DEF Preempt, intr_timer_handler, Idle
<1>5. \A t \in Thread : Alive(t)' <=> Alive(t)
  BY <1>2, <1>3 DEF KeptStatus, Awake, Alive
<1>6. DataInv'
  BY <1>1, <1>5, CurFacts, DataKept DEF ProcInv
<1>7. CallersInv'
  BY <1>1 DEF ProcInv, FlowInv, CallersInv
<1>8. \A t \in Process :
         /\ status'[t] = "TASK_HANGING" <=> status[t] = "TASK_HANGING"
         /\ status'[t] = "TASK_WAITING" => status[t] = "TASK_WAITING"
  BY <1>2, CurFacts DEF KeptStatus, Awake
<1>9. FlowInv'
  BY <1>1, <1>4, <1>5, <1>7, <1>8, CurFacts, FlowKept DEF ProcInv
<1> QED BY <1>6, <1>9

LEMMA ForkStep ==
    ASSUME PidsEnough, ProcInv, NEW c \in Process, sys_fork(c)
    PROVE  DataInv' /\ FlowInv'
<1> USE ThreadAssumption, ProcAssumption
<1>0. /\ cur \in Process /\ Alive(cur) /\ c # cur /\ ~ Alive(c) /\ c # init_process
      /\ c \in Thread /\ c # idle_thread /\ c # main_thread /\ pid[cur] \in Pid
      /\ Process \subseteq Thread /\ status[cur] = "TASK_RUNNING"
      /\ init_process \in Thread /\ pc[cur] = "fork"
  BY CurFacts, PidFacts DEF sys_fork, ProcInv, DataInv, BootInv, Alive
<1>1. PICK p \in Pid : p = FirstBlank(tids) /\ tids[p] = 0 /\ Blank(tids) # {}
  BY <1>0, PoolNotExhausted, FirstBlankLemma DEF ProcInv
<1>2. /\ tids' = [tids EXCEPT ![p] = 1] /\ pid' = [pid EXCEPT ![c] = p] /\ tid' = [tid EXCEPT ![c] = p]
      /\ parent' = [parent EXCEPT ![c] = pid[cur]] /\ dirs' = dirs \cup {c} /\ all' = Append(all, c)
      /\ status' = [status EXCEPT ![c] = "TASK_READY"] /\ cur' = cur /\ intr' = intr
      /\ pc' = [pc EXCEPT ![cur] = "ret", ![c] = "user"]
  BY <1>1 DEF sys_fork, PidGiven, PidCounted, thread_start, list_append
<1>3. /\ tids \in [Pid -> 0..255] /\ pid \in [Thread -> 0..PID_MAX] /\ tid \in [Thread -> 0..PID_MAX]
      /\ parent \in [Thread -> {-1} \cup Pid] /\ all \in Seq(Thread) /\ dirs \subseteq Thread
      /\ pc \in [Thread -> PC] /\ status \in [Thread -> TaskStatus]
  BY DEF ProcInv, DataInv, ProcTypeOK, SchedInv, SchedTypeOK
<1>4. /\ \A i \in Pid : tids'[i] = IF i = p THEN 1 ELSE tids[i]
      /\ \A t \in Thread : pid'[t] = IF t = c THEN p ELSE pid[t]
      /\ \A t \in Thread : tid'[t] = IF t = c THEN p ELSE tid[t]
      /\ \A t \in Thread : parent'[t] = IF t = c THEN pid[cur] ELSE parent[t]
      /\ \A t \in Thread : status'[t] = IF t = c THEN "TASK_READY" ELSE status[t]
      /\ \A t \in Thread : pc'[t] = IF t = c THEN "user" ELSE IF t = cur THEN "ret" ELSE pc[t]
  BY <1>0, <1>2, <1>3
<1>5. \A t \in Thread : Alive(t)' <=> (Alive(t) \/ t = c)
  BY <1>4 DEF Alive
<1>6. ProcTypeOK'
  <2>1. p \in 0..PID_MAX /\ 1 \in 0..255
    BY <1>1 DEF Pid
  <2>2. tids' \in [Pid -> 0..255] /\ pid' \in [Thread -> 0..PID_MAX] /\ tid' \in [Thread -> 0..PID_MAX]
    BY <1>2, <1>3, <2>1
  <2>3. parent' \in [Thread -> {-1} \cup Pid]
    BY <1>0, <1>2, <1>3
  <2>4. all' \in Seq(Thread) /\ dirs' \subseteq Thread
    BY <1>0, <1>2, <1>3
  <2>5. pc' \in [Thread -> PC]
    BY <1>0, <1>2, <1>3 DEF PC
  <2> QED BY <2>2, <2>3, <2>4, <2>5 DEF ProcTypeOK
<1>7. p # 2 /\ \A t \in Thread : Alive(t) => tid[t] # p
  <2>1. tids[2] # 0
    BY DEF ProcInv, DataInv, PoolInv
  <2>2. \A t \in Thread : Alive(t) => tids[tid[t]] > 0
    BY DEF ProcInv, DataInv, PoolInv, PidsExact
  <2> QED BY <1>1, <2>1, <2>2
<1>8. PidsExact'
  <2>0. PidsExact
    BY DEF ProcInv, DataInv, PoolInv
  <2>1. \A t, u \in Thread : Alive(t)' /\ Alive(u)' /\ tid'[t] = tid'[u] => t = u
    BY <1>4, <1>5, <1>7, <2>0 DEF PidsExact
  <2>2. \A t \in Thread : Alive(t)' => tid'[t] \in Pid /\ tids'[tid'[t]] > 0
    BY <1>4, <1>5, <2>0 DEF PidsExact
  <2>3. \A t \in Process : Alive(t)' => pid'[t] = tid'[t] /\ tids'[pid'[t]] = 1
    BY <1>0, <1>4, <1>5, <2>0 DEF PidsExact
  <2>4. \A i \in Pid : tids'[i] > 0 /\ i # MainPid => \E t \in Thread : Alive(t)' /\ tid'[t] = i
    <3> SUFFICES ASSUME NEW i \in Pid, tids'[i] > 0, i # MainPid
                 PROVE  \E t \in Thread : Alive(t)' /\ tid'[t] = i
      OBVIOUS
    <3>1. CASE i = p
      BY <1>0, <1>4, <1>5, <3>1
    <3>2. CASE i # p
      <4>1. PICK t \in Thread : Alive(t) /\ tid[t] = i
        BY <1>4, <3>2, <2>0 DEF PidsExact
      <4> QED BY <1>0, <1>4, <1>5, <4>1
    <3> QED BY <3>1, <3>2
  <2> QED BY <2>1, <2>2, <2>3, <2>4 DEF PidsExact
<1>9. PoolInv'
  <2>1. 2 \in Pid
    BY DEF Pid
  <2>2. tids'[2] = tids[2] /\ (Alive(main_thread)' <=> Alive(main_thread))
    BY <1>0, <1>4, <1>5, <1>7, <2>1
  <2> QED BY <1>6, <1>8, <2>2 DEF ProcInv, DataInv, PoolInv, ProcTypeOK
<1>10. BootInv'
  BY <1>0, <1>4, <1>5 DEF ProcInv, DataInv, BootInv
<1>11. AllExact'
  <2>1. NoDup(all) /\ ~ elem_find(all, c) /\ \A t \in Thread : elem_find(all, t) <=> Alive(t)
    BY <1>0 DEF ProcInv, DataInv, AllExact
  <2>2. NoDup(all') /\ \A t \in Thread : elem_find(all', t) <=> (elem_find(all, t) \/ t = c)
    BY <1>0, <1>2, <1>3, <2>1, AppendLemma
  <2> QED BY <1>5, <2>1, <2>2 DEF AllExact
<1>12. DirsExact'
  BY <1>0, <1>2, <1>5 DEF ProcInv, DataInv, DirsExact
<1>13. FlowInv'
  <2>0. CallersInv /\ CallsInv /\ FamilyInv /\ WaitInv
    BY DEF ProcInv, FlowInv
  <2>1. CallersInv'
    BY <1>0, <1>4, <2>0 DEF CallersInv, Process
  <2>2. CallsInv'
    <3> SUFFICES ASSUME NEW t \in Process, Alive(t)'
                 PROVE  /\ pc'[t] \in {"exit", "hang"} =>
                              (t = cur' /\ intr' = "INTR_OFF") \/ (pc'[t] = "hang" /\ status'[t] = "TASK_HANGING")
                        /\ status'[t] = "TASK_HANGING" => pc'[t] = "hang"
                        /\ status'[t] = "TASK_WAITING" => pc'[t] = "wait"
      BY DEF CallsInv
    <3>1. CASE t \in {c, cur}
      BY <1>0, <1>4, <3>1
    <3>2. CASE t \notin {c, cur}
      <4>1. pc'[t] = pc[t] /\ status'[t] = status[t] /\ Alive(t) /\ cur' = cur /\ intr' = intr
        BY <1>0, <1>2, <1>4, <1>5, <3>2
      <4> QED BY <2>0, <4>1 DEF CallsInv
    <3> QED BY <3>1, <3>2
  <2>3. FamilyInv'
    <3> SUFFICES ASSUME NEW t \in Process \ {init_process}, Alive(t)'
                 PROVE  \E q \in Process : Alive(q)' /\ pid'[q] = parent'[t] /\ pc'[q] # "hang"
      BY DEF FamilyInv
    <3>1. CASE t = c
      BY <1>0, <1>4, <1>5, <3>1
    <3>2. CASE t # c
      <4>1. PICK q \in Process : Alive(q) /\ pid[q] = parent[t] /\ pc[q] # "hang"
        BY <1>5, <3>2, <1>0, <2>0 DEF FamilyInv
      <4> QED BY <1>0, <1>4, <1>5, <3>2, <4>1
    <3> QED BY <3>1, <3>2
  <2>4. WaitInv'
    <3> SUFFICES ASSUME NEW q \in Process, status'[q] = "TASK_WAITING"
                 PROVE  /\ \E t \in Process : Alive(t)' /\ parent'[t] = pid'[q]
                        /\ q # init_process =>
                             \A t \in Process : Alive(t)' /\ parent'[t] = pid'[q] => pc'[t] # "hang"
      BY DEF WaitInv
    <3>1. q \in Thread /\ q # c /\ q # cur /\ status[q] = "TASK_WAITING" /\ pid'[q] = pid[q]
      BY <1>0, <1>4
    <3>2. PICK t \in Process : Alive(t) /\ parent[t] = pid[q]
      BY <3>1, <2>0 DEF WaitInv
    <3>3. Alive(t)' /\ parent'[t] = pid'[q]
      BY <1>0, <1>4, <1>5, <3>1, <3>2
    <3>4. ASSUME q # init_process, NEW u \in Process, Alive(u)', parent'[u] = pid'[q]
          PROVE  pc'[u] # "hang"
      BY <1>0, <1>4, <1>5, <3>1, <3>4, <2>0 DEF WaitInv
    <3> QED BY <3>3, <3>4
  <2> QED BY <2>1, <2>2, <2>3, <2>4 DEF FlowInv
<1> QED BY <1>6, <1>9, <1>10, <1>11, <1>12, <1>13 DEF DataInv

\* thread_exit gives back the pid, the directory and the link of d.
LEMMA DiscardLemma ==
    ASSUME ProcInv, NEW d \in Thread, Alive(d), d \in Process \/ d = main_thread, d # init_process,
           Discard(d), pc' \in [Thread -> PC], \A t \in Thread : Alive(t)' <=> (Alive(t) /\ t # d)
    PROVE  /\ DataInv'
           /\ \A t \in Thread : t # d => pid'[t] = pid[t] /\ parent'[t] = parent[t]
           /\ parent'[d] = -1
<1> USE ThreadAssumption, ProcAssumption
<1>0. /\ d # idle_thread /\ main_thread \notin Process /\ Process \subseteq Thread
      /\ init_process \in Process /\ init_process # idle_thread /\ init_process # main_thread
  BY DEF Process
<1>1. /\ tids \in [Pid -> 0..255] /\ pid \in [Thread -> 0..PID_MAX] /\ tid \in [Thread -> 0..PID_MAX]
      /\ parent \in [Thread -> {-1} \cup Pid] /\ all \in Seq(Thread) /\ dirs \subseteq Thread
  BY DEF ProcInv, DataInv, ProcTypeOK
<1>2. PidsExact /\ BootInv /\ tids[2] = IF Alive(main_thread) THEN 3 ELSE 2
  BY DEF ProcInv, DataInv, PoolInv
<1>3. PICK i \in Pid : i = pid[d] /\ i = tid[d]
  <2>1. tid[d] \in Pid /\ pid[d] = tid[d]
    BY <1>2 DEF PidsExact, BootInv
  <2> QED BY <2>1
<1>4. IF d = main_thread THEN i = 2 /\ tids[i] = 3 ELSE i # 2 /\ tids[i] = 1
  BY <1>0, <1>2, <1>3 DEF PidsExact, BootInv
<1>5. PICK n : n = (tids[i] + 255) % 256
  OBVIOUS
<1>6. IF d = main_thread THEN n = 2 ELSE n = 0
  <2>1. (1 + 255) % 256 = 0 /\ (3 + 255) % 256 = 2
    OBVIOUS
  <2> QED BY <1>4, <1>5, <2>1
<1>7. /\ tids' = [tids EXCEPT ![i] = n] /\ pid' = [pid EXCEPT ![d] = 0] /\ tid' = [tid EXCEPT ![d] = 0]
      /\ parent' = [parent EXCEPT ![d] = -1] /\ all' = list_remove(all, d)
      /\ dirs' = IF d = main_thread THEN dirs ELSE dirs \ {d}
  BY <1>3, <1>4, <1>5 DEF Discard, Released, is_last_pid
<1>8. /\ \A j \in Pid : tids'[j] = IF j = i THEN n ELSE tids[j]
      /\ \A t \in Thread : pid'[t] = IF t = d THEN 0 ELSE pid[t]
      /\ \A t \in Thread : tid'[t] = IF t = d THEN 0 ELSE tid[t]
      /\ \A t \in Thread : parent'[t] = IF t = d THEN -1 ELSE parent[t]
  BY <1>1, <1>7
<1>9. NoDup(all) /\ elem_find(all, d) /\ \A t \in Thread : elem_find(all, t) <=> Alive(t)
  BY DEF ProcInv, DataInv, AllExact
<1>10. /\ all' \in Seq(Thread) /\ NoDup(all')
       /\ \A t \in Thread : elem_find(all', t) <=> (elem_find(all, t) /\ t # d)
  BY <1>1, <1>7, <1>9, RemoveLemma
<1>11. AllExact'
  BY <1>9, <1>10 DEF AllExact
<1>12. ProcTypeOK'
  <2>1. n \in 0..255 /\ 0 \in 0..PID_MAX
    BY <1>6
  <2>2. tids' \in [Pid -> 0..255] /\ pid' \in [Thread -> 0..PID_MAX] /\ tid' \in [Thread -> 0..PID_MAX]
    BY <1>1, <1>7, <2>1
  <2>3. parent' \in [Thread -> {-1} \cup Pid]
    BY <1>1, <1>7
  <2>4. dirs' \subseteq Thread
    BY <1>1, <1>7
  <2> QED BY <1>10, <2>2, <2>3, <2>4 DEF ProcTypeOK
<1>13. \A t \in Thread : Alive(t) /\ t # d => tid[t] # i
  BY <1>2, <1>3 DEF PidsExact
<1>14. PidsExact'
  <2>1. \A t, u \in Thread : Alive(t)' /\ Alive(u)' /\ tid'[t] = tid'[u] => t = u
    BY <1>2, <1>8 DEF PidsExact
  <2>2. \A t \in Thread : Alive(t)' => tid'[t] \in Pid /\ tids'[tid'[t]] > 0
    BY <1>2, <1>8, <1>13 DEF PidsExact
  <2>3. \A t \in Process : Alive(t)' => pid'[t] = tid'[t] /\ tids'[pid'[t]] = 1
    BY <1>0, <1>2, <1>8, <1>13 DEF PidsExact
  <2>4. \A j \in Pid : tids'[j] > 0 /\ j # MainPid => \E t \in Thread : Alive(t)' /\ tid'[t] = j
    <3> SUFFICES ASSUME NEW j \in Pid, tids'[j] > 0, j # MainPid
                 PROVE  \E t \in Thread : Alive(t)' /\ tid'[t] = j
      OBVIOUS
    <3>1. j # i
      BY <1>4, <1>6, <1>8, BootPids
    <3>2. PICK t \in Thread : Alive(t) /\ tid[t] = j
      BY <1>2, <1>8, <3>1 DEF PidsExact
    <3> QED BY <1>3, <1>8, <3>1, <3>2
  <2> QED BY <2>1, <2>2, <2>3, <2>4 DEF PidsExact
<1>15. PoolInv'
  <2>1. 2 \in Pid
    BY DEF Pid
  <2>2. tids'[2] = IF Alive(main_thread)' THEN 3 ELSE 2
    BY <1>2, <1>4, <1>6, <1>8, <2>1
  <2> QED BY <1>12, <1>14, <2>2 DEF PoolInv, ProcTypeOK
<1>16. BootInv'
  BY <1>0, <1>2, <1>8 DEF BootInv
<1>17. DirsExact'
  <2>1. DirsExact
    BY DEF ProcInv, DataInv
  <2> QED BY <1>0, <1>7, <2>1 DEF DirsExact
<1> QED BY <1>8, <1>11, <1>12, <1>15, <1>16, <1>17 DEF DataInv

\* sys_wait reaps the child c.
LEMMA ReapStep ==
    ASSUME ProcInv, pc[cur] = "wait",
           NEW c \in Process, c # init_process, status[c] = "TASK_HANGING", parent[c] = pid[cur],
           Discard(c), thread_exit(c, FALSE), GoTo("ret")
    PROVE  DataInv' /\ FlowInv'
<1> USE ThreadAssumption, ProcAssumption
<1>0. /\ cur \in Process /\ Alive(cur) /\ c # cur /\ Alive(c) /\ status[cur] = "TASK_RUNNING"
      /\ c \in Thread /\ c # idle_thread /\ c # main_thread /\ Process \subseteq Thread
      /\ status \in [Thread -> TaskStatus] /\ init_process \in Process
  BY CurFacts, PidFacts DEF ProcInv, SchedInv, SchedTypeOK, Alive
<1>1. /\ status' = [status EXCEPT ![c] = "TASK_DIED"] /\ cur' = cur /\ intr' = "INTR_OFF"
      /\ pc' = [pc EXCEPT ![cur] = "ret"]
  BY DEF thread_exit, GoTo
<1>2. /\ pc' \in [Thread -> PC]
      /\ \A t \in Thread : pc'[t] = IF t = cur THEN "ret" ELSE pc[t]
      /\ \A t \in Thread : status'[t] = IF t = c THEN "TASK_DIED" ELSE status[t]
  BY <1>0, <1>1, CurFacts DEF PC
<1>3. \A t \in Thread : Alive(t)' <=> (Alive(t) /\ t # c)
  BY <1>2 DEF Alive
<1>4. /\ DataInv'
      /\ \A t \in Thread : t # c => pid'[t] = pid[t] /\ parent'[t] = parent[t]
      /\ parent'[c] = -1
  BY <1>0, <1>2, <1>3, DiscardLemma
<1>5. CallersInv /\ CallsInv /\ FamilyInv /\ WaitInv
  BY DEF ProcInv, FlowInv
<1>6. pc[c] = "hang"
  BY <1>0, <1>5 DEF CallsInv
<1>7. CallersInv'
  BY <1>0, <1>2, <1>5 DEF CallersInv
<1>8. CallsInv'
  <2> SUFFICES ASSUME NEW t \in Process, Alive(t)'
               PROVE  /\ pc'[t] \in {"exit", "hang"} =>
                            (t = cur' /\ intr' = "INTR_OFF") \/ (pc'[t] = "hang" /\ status'[t] = "TASK_HANGING")
                      /\ status'[t] = "TASK_HANGING" => pc'[t] = "hang"
                      /\ status'[t] = "TASK_WAITING" => pc'[t] = "wait"
    BY DEF CallsInv
  <2>1. CASE t = cur
    BY <1>0, <1>2, <2>1
  <2>2. CASE t # cur
    <3>1. pc'[t] = pc[t] /\ status'[t] = status[t] /\ Alive(t) /\ cur' = cur
      BY <1>0, <1>1, <1>2, <1>3, <2>2
    <3> QED BY <1>5, <2>2, <3>1 DEF CallsInv
  <2> QED BY <2>1, <2>2
<1>9. FamilyInv'
  <2> SUFFICES ASSUME NEW t \in Process \ {init_process}, Alive(t)'
               PROVE  \E q \in Process : Alive(q)' /\ pid'[q] = parent'[t] /\ pc'[q] # "hang"
    BY DEF FamilyInv
  <2>1. t # c /\ Alive(t) /\ parent'[t] = parent[t]
    BY <1>0, <1>3, <1>4
  <2>2. PICK q \in Process : Alive(q) /\ pid[q] = parent[t] /\ pc[q] # "hang"
    BY <1>5, <2>1 DEF FamilyInv
  <2> QED BY <1>0, <1>2, <1>3, <1>4, <1>6, <2>1, <2>2
<1>10. WaitInv'
  <2> SUFFICES ASSUME NEW q \in Process, status'[q] = "TASK_WAITING"
               PROVE  /\ \E t \in Process : Alive(t)' /\ parent'[t] = pid'[q]
                      /\ q # init_process =>
                           \A t \in Process : Alive(t)' /\ parent'[t] = pid'[q] => pc'[t] # "hang"
    BY DEF WaitInv
  <2>1. q \in Thread /\ q # c /\ q # cur /\ status[q] = "TASK_WAITING" /\ pid'[q] = pid[q] /\ Alive(q)
    BY <1>0, <1>2, <1>4 DEF Alive
  <2>2. pid[q] # pid[cur]
    BY <1>0, <2>1, PidFacts DEF ProcInv
  <2>3. PICK t \in Process : Alive(t) /\ parent[t] = pid[q]
    BY <1>5, <2>1 DEF WaitInv
  <2>4. t # c /\ Alive(t)' /\ parent'[t] = pid'[q]
    BY <1>0, <1>3, <1>4, <2>1, <2>2, <2>3
  <2>5. ASSUME q # init_process, NEW u \in Process, Alive(u)', parent'[u] = pid'[q]
        PROVE  pc'[u] # "hang"
    BY <1>0, <1>2, <1>3, <1>4, <1>5, <2>1, <2>5 DEF WaitInv
  <2> QED BY <2>4, <2>5
<1> QED BY <1>4, <1>7, <1>8, <1>9, <1>10 DEF FlowInv

\* sys_wait sleeps.
LEMMA SleepStep ==
    ASSUME ProcInv, SchedInv', pc[cur] = "wait",
           thread_block("TASK_WAITING", "INTR_OFF"), UNCHANGED <<pid, tid, parent, tids, all, dirs, pc>>,
           \E t \in Process : Alive(t) /\ parent[t] = pid[cur],
           \A t \in Process : Alive(t) /\ parent[t] = pid[cur] => status[t] # "TASK_HANGING"
    PROVE  DataInv' /\ FlowInv'
<1>0. /\ cur \in Process /\ cur # idle_thread /\ Process \subseteq Thread /\ status[cur] = "TASK_RUNNING"
      /\ \A t \in Process : t # idle_thread
  BY CurFacts
<1>1. /\ status'[cur] = "TASK_WAITING"
      /\ \A t \in Thread \ {cur, idle_thread} : KeptStatus(t)
  <2>1. "TASK_WAITING" \in Stopped /\ "INTR_OFF" \in IntrStatus /\ SchedInv
    BY DEF Stopped, IntrStatus, ProcInv
  <2> QED BY <1>0, <2>1, BlockStatus DEF KeptStatus, Awake
<1>2. Alive(idle_thread) /\ Alive(idle_thread)'
  BY DEF ProcInv, SchedInv, IdleAvailable, Alive
<1>3. \A t \in Thread : Alive(t)' <=> Alive(t)
  BY <1>0, <1>1, <1>2 DEF KeptStatus, Awake, Alive
<1>4. DataInv'
  BY <1>3, CurFacts, DataKept DEF ProcInv
<1>5. CallersInv /\ CallsInv /\ FamilyInv /\ WaitInv
  BY DEF ProcInv, FlowInv
<1>6. CallersInv' /\ FamilyInv'
  BY <1>0, <1>3, <1>5 DEF CallersInv, FamilyInv
<1>7. CallsInv'
  BY <1>0, <1>1, <1>3, <1>5 DEF CallsInv, KeptStatus, Awake
<1>8. \A t \in Process : Alive(t) /\ parent[t] = pid[cur] => pc[t] # "hang"
  BY <1>5 DEF CallsInv
<1>9. \A q \in Process : status'[q] = "TASK_WAITING" => q = cur \/ status[q] = "TASK_WAITING"
  BY <1>0, <1>1 DEF KeptStatus, Awake
<1>10. WaitInv'
  BY <1>0, <1>3, <1>5, <1>8, <1>9 DEF WaitInv
<1> QED BY <1>4, <1>6, <1>7, <1>10 DEF FlowInv

\* sys_exit gives its children to init and wakes its parent.
LEMMA ExitStep ==
    ASSUME ProcInv, sys_exit
    PROVE  DataInv' /\ FlowInv'
<1> USE ThreadAssumption, ProcAssumption
<1>0. /\ cur \in Process /\ cur # idle_thread /\ Process \subseteq Thread /\ status[cur] = "TASK_RUNNING"
      /\ init_process \in Process /\ cur # init_process /\ Alive(cur) /\ Alive(init_process)
      /\ pid[init_process] = 1 /\ 1 \in Pid /\ pid[cur] \in Pid /\ pc[cur] = "exit"
      /\ status \in [Thread -> TaskStatus]
  BY CurFacts, PidFacts
  DEF sys_exit, ProcInv, FlowInv, CallersInv, DataInv, BootInv, Pid, SchedInv, SchedTypeOK
<1>1. PICK boss \in Process : boss = pid2thread(parent[cur])
  BY Boss DEF sys_exit
<1>2. \A p \in Process : Alive(p) /\ pid[p] = parent[cur] => p = boss
  BY <1>0, <1>1, Boss
<1>3. CallersInv /\ CallsInv /\ FamilyInv /\ WaitInv
  BY DEF ProcInv, FlowInv
<1>4. intr = "INTR_OFF"
  BY <1>0, <1>3 DEF CallsInv
<1>5. /\ status' = IF status[boss] = "TASK_WAITING" THEN [status EXCEPT ![boss] = "TASK_READY"] ELSE status
      /\ cur' = cur /\ intr' = intr /\ pc' = [pc EXCEPT ![cur] = "hang"]
      /\ parent' = Adopted(pid[cur]) /\ UNCHANGED <<pid, tid, tids, all, dirs>>
  BY <1>1 DEF sys_exit, Waits, thread_unblock, schedVars, GoTo
<1>6. /\ \A t \in Thread : pc'[t] = IF t = cur THEN "hang" ELSE pc[t]
      /\ pc' \in [Thread -> PC]
      /\ \A t \in Thread : status'[t] = IF t = boss /\ status[t] = "TASK_WAITING" THEN "TASK_READY" ELSE status[t]
  BY <1>0, <1>5, CurFacts DEF PC
<1>7. \A t \in Thread : Alive(t)' <=> Alive(t)
  BY <1>6 DEF Alive
<1>8. /\ parent' \in [Thread -> {-1} \cup Pid]
      /\ \A t \in Thread : parent'[t] = IF Alive(t) /\ parent[t] = pid[cur] THEN 1 ELSE parent[t]
  <2>1. parent \in [Thread -> {-1} \cup Pid] /\ \A t \in Thread : elem_find(all, t) <=> Alive(t)
    BY DEF ProcInv, DataInv, ProcTypeOK, AllExact
  <2> QED BY <1>0, <1>5, <2>1 DEF Adopted
<1>9. DataInv'
  <2>1. \A t \in Thread : parent[t] = -1 => parent'[t] = -1
    BY <1>0, <1>8 DEF Pid
  <2> QED BY <1>5, <1>6, <1>7, <1>8, <2>1, DataKept DEF ProcInv
<1>10. CallersInv'
  BY <1>0, <1>3, <1>6 DEF CallersInv
<1>11. CallsInv'
  <2> SUFFICES ASSUME NEW t \in Process, Alive(t)'
               PROVE  /\ pc'[t] \in {"exit", "hang"} =>
                            (t = cur' /\ intr' = "INTR_OFF") \/ (pc'[t] = "hang" /\ status'[t] = "TASK_HANGING")
                      /\ status'[t] = "TASK_HANGING" => pc'[t] = "hang"
                      /\ status'[t] = "TASK_WAITING" => pc'[t] = "wait"
    BY DEF CallsInv
  <2>1. CASE t = cur
    BY <1>0, <1>4, <1>5, <1>6, <2>1
  <2>2. CASE t # cur
    BY <1>0, <1>3, <1>6, <1>7, <2>2 DEF CallsInv
  <2> QED BY <2>1, <2>2
<1>12. FamilyInv'
  <2> SUFFICES ASSUME NEW t \in Process \ {init_process}, Alive(t)'
               PROVE  \E q \in Process : Alive(q)' /\ pid'[q] = parent'[t] /\ pc'[q] # "hang"
    BY DEF FamilyInv
  <2>1. CASE parent[t] = pid[cur]
    BY <1>0, <1>3, <1>5, <1>6, <1>7, <1>8, <2>1 DEF CallersInv
  <2>2. CASE parent[t] # pid[cur]
    <3>1. PICK q \in Process : Alive(q) /\ pid[q] = parent[t] /\ pc[q] # "hang"
      BY <1>0, <1>3, <1>7 DEF FamilyInv
    <3>2. q # cur
      BY <2>2, <3>1
    <3> QED BY <1>0, <1>5, <1>6, <1>7, <1>8, <2>2, <3>1, <3>2
  <2> QED BY <2>1, <2>2
<1>13. WaitInv'
  <2> SUFFICES ASSUME NEW q \in Process, status'[q] = "TASK_WAITING"
               PROVE  /\ \E t \in Process : Alive(t)' /\ parent'[t] = pid'[q]
                      /\ q # init_process =>
                           \A t \in Process : Alive(t)' /\ parent'[t] = pid'[q] => pc'[t] # "hang"
    BY DEF WaitInv
  <2>1. q \in Thread /\ q # boss /\ q # cur /\ status[q] = "TASK_WAITING" /\ pid'[q] = pid[q] /\ Alive(q)
    BY <1>0, <1>5, <1>6 DEF Alive
  <2>2. pid[q] # pid[cur] /\ (q # init_process => pid[q] # 1)
    BY <1>0, <2>1, PidFacts DEF ProcInv
  <2>3. PICK t \in Process : Alive(t) /\ parent[t] = pid[q]
    BY <1>3, <2>1 DEF WaitInv
  <2>4. Alive(t)' /\ parent'[t] = pid'[q]
    BY <1>0, <1>7, <1>8, <2>1, <2>2, <2>3
  <2>5. ASSUME q # init_process, NEW u \in Process, Alive(u)', parent'[u] = pid'[q]
        PROVE  pc'[u] # "hang"
    <3>1. Alive(u) /\ parent[u] = pid[q]
      BY <1>0, <1>7, <1>8, <2>1, <2>2, <2>5
    <3>2. u # cur
      BY <1>2, <2>1, <3>1
    <3>3. pc[u] # "hang"
      BY <1>3, <2>1, <2>5, <3>1 DEF WaitInv
    <3> QED BY <1>0, <1>6, <3>2, <3>3
  <2> QED BY <2>4, <2>5
<1> QED BY <1>9, <1>10, <1>11, <1>12, <1>13 DEF FlowInv

\* ... and stops for good.
LEMMA HangStep ==
    ASSUME ProcInv, SchedInv', sys_exit_hang
    PROVE  DataInv' /\ FlowInv'
<1>0. /\ cur \in Process /\ cur # idle_thread /\ Process \subseteq Thread /\ status[cur] = "TASK_RUNNING"
      /\ (\A t \in Process : t # idle_thread) /\ pc[cur] = "hang"
      /\ UNCHANGED <<pid, tid, parent, tids, all, dirs, pc>>
  BY CurFacts DEF sys_exit_hang
<1>1. /\ status'[cur] = "TASK_HANGING"
      /\ \A t \in Thread \ {cur, idle_thread} : KeptStatus(t)
  <2>1. "TASK_HANGING" \in Stopped /\ "INTR_OFF" \in IntrStatus /\ SchedInv
    BY DEF Stopped, IntrStatus, ProcInv
  <2> QED BY <1>0, <2>1, BlockStatus DEF KeptStatus, Awake, sys_exit_hang
<1>2. Alive(idle_thread) /\ Alive(idle_thread)'
  BY DEF ProcInv, SchedInv, IdleAvailable, Alive
<1>3. \A t \in Thread : Alive(t)' <=> Alive(t)
  BY <1>0, <1>1, <1>2 DEF KeptStatus, Awake, Alive
<1>4. DataInv'
  BY <1>0, <1>3, CurFacts, DataKept DEF ProcInv
<1>5. CallersInv /\ CallsInv /\ FamilyInv /\ WaitInv
  BY DEF ProcInv, FlowInv
<1>6. CallersInv' /\ FamilyInv'
  BY <1>0, <1>3, <1>5 DEF CallersInv, FamilyInv
<1>7. CallsInv'
  BY <1>0, <1>1, <1>3, <1>5 DEF CallsInv, KeptStatus, Awake
<1>8. \A q \in Process : status'[q] = "TASK_WAITING" => status[q] = "TASK_WAITING"
  BY <1>0, <1>1 DEF KeptStatus, Awake
<1>9. WaitInv'
  BY <1>0, <1>3, <1>5, <1>8 DEF WaitInv
<1> QED BY <1>4, <1>6, <1>7, <1>9 DEF FlowInv

LEMMA MainExitStep ==
    ASSUME ProcInv, SchedInv', main_exit
    PROVE  DataInv' /\ FlowInv'
<1> USE ThreadAssumption, ProcAssumption
<1>0. /\ cur = main_thread /\ cur # idle_thread /\ Process \subseteq Thread /\ main_thread \notin Process
      /\ (\A t \in Process : t # idle_thread) /\ Alive(main_thread) /\ main_thread # init_process
      /\ Discard(main_thread) /\ pc' = pc
  BY CurFacts DEF main_exit, Process
<1>1. \A t \in Thread : t # idle_thread =>
         IF t = main_thread THEN status'[t] = "TASK_DIED" ELSE KeptStatus(t)
  <2>1. ExitSelf /\ SchedInv
    BY <1>0 DEF main_exit, ExitSelf, ProcInv
  <2> QED BY <1>0, <2>1, ExitSelfStatus
<1>2. Alive(idle_thread) /\ Alive(idle_thread)'
  BY DEF ProcInv, SchedInv, IdleAvailable, Alive
<1>3. \A t \in Thread : Alive(t)' <=> (Alive(t) /\ t # main_thread)
  BY <1>0, <1>1, <1>2 DEF KeptStatus, Awake, Alive
<1>4. /\ DataInv'
      /\ \A t \in Thread : t # main_thread => pid'[t] = pid[t] /\ parent'[t] = parent[t]
  BY <1>0, <1>3, CurFacts, DiscardLemma
<1>5. CallersInv /\ CallsInv /\ FamilyInv /\ WaitInv
  BY DEF ProcInv, FlowInv
<1>6. CallersInv'
  BY <1>0, <1>5 DEF CallersInv
<1>7. FamilyInv'
  BY <1>0, <1>3, <1>4, <1>5 DEF FamilyInv
<1>8. \A t \in Process : KeptStatus(t) /\ t # cur /\ pid'[t] = pid[t] /\ parent'[t] = parent[t]
  BY <1>0, <1>1, <1>4
<1>9. CallsInv'
  BY <1>0, <1>3, <1>5, <1>8 DEF CallsInv, KeptStatus, Awake
<1>10. WaitInv'
  BY <1>0, <1>3, <1>5, <1>8 DEF WaitInv, KeptStatus, Awake
<1> QED BY <1>4, <1>6, <1>7, <1>9, <1>10 DEF FlowInv

LEMMA ProcStep ==
    ASSUME PidsEnough, ProcInv, [ProcNext]_procVars
    PROVE  ProcInv'
<1> USE ProcAssumption
<1>0. SchedInv'
  BY ProcSchedStep, SchedStep DEF ProcInv
<1>1. CASE UNCHANGED procVars
  <2>1. UNCHANGED <<status, ready, ticks, cur, intr, saved, pid, tid, parent, tids, all, dirs, pc>>
    BY <1>1 DEF procVars, schedVars
  <2>2. DataInv'
    BY <2>1, CurFacts, DataKept DEF ProcInv, Alive
  <2>3. FlowInv'
    BY <2>1 DEF ProcInv, FlowInv, CallersInv, CallsInv, FamilyInv, WaitInv, Alive
  <2> QED BY <1>0, <2>2, <2>3 DEF ProcInv
<1>2. CASE SysCall
  <2>1. PICK from \in {"user", "init"}, label \in {"fork", "wait", "exit"} :
           Enter(from, label) /\ (label = "exit" => cur # init_process)
    BY <1>2 DEF SysCall
  <2>2. DataInv' /\ FlowInv'
    BY <2>1, MoveStep DEF Enter, PC
  <2> QED BY <1>0, <2>2 DEF ProcInv
<1>3. CASE SysReturn
  <2>1. PICK l \in {"init", "user"} : GoTo(l)
    BY <1>3 DEF SysReturn
  <2>2. DataInv' /\ FlowInv'
    BY <1>3, <2>1, CurFacts, MoveStep DEF SysReturn, PC
  <2> QED BY <1>0, <2>2 DEF ProcInv
<1>4. CASE \E c \in Process : sys_fork(c)
  BY <1>0, <1>4, ForkStep DEF ProcInv
<1>5. CASE sys_fork_failed
  <2>1. DataInv' /\ FlowInv'
    BY <1>5, CurFacts, MoveStep DEF sys_fork_failed, schedVars, PC
  <2> QED BY <1>0, <2>1 DEF ProcInv
<1>6. CASE sys_wait
  <2>1. PICK c : c = FirstOf(LAMBDA t : find_hanging_child(t, pid[cur]))
    OBVIOUS
  <2>2. pc[cur] = "wait"
    BY <1>6 DEF sys_wait
  <2>3. CASE c # idle_thread /\ Discard(c) /\ thread_exit(c, FALSE) /\ GoTo("ret")
    <3>1. c \in Process /\ c # init_process /\ status[c] = "TASK_HANGING" /\ parent[c] = pid[cur]
      BY <2>1, <2>2, <2>3, ReapedChild
    <3>2. DataInv' /\ FlowInv'
      BY <2>2, <2>3, <3>1, ReapStep
    <3> QED BY <1>0, <3>2 DEF ProcInv
  <2>4. CASE GoTo("ret") /\ UNCHANGED <<schedVars, pid, tid, parent, tids, all, dirs>>
    <3>1. DataInv' /\ FlowInv'
      BY <2>2, <2>4, CurFacts, MoveStep DEF schedVars, PC
    <3> QED BY <1>0, <3>1 DEF ProcInv
  <2>5. CASE /\ c = idle_thread
             /\ FirstOf(LAMBDA t : find_child(t, pid[cur])) # idle_thread
             /\ thread_block("TASK_WAITING", "INTR_OFF")
             /\ UNCHANGED <<pid, tid, parent, tids, all, dirs, pc>>
    <3>1. \E t \in Process : Alive(t) /\ parent[t] = pid[cur]
      BY <2>2, <2>5, AnyChild
    <3>2. \A t \in Process : Alive(t) /\ parent[t] = pid[cur] => status[t] # "TASK_HANGING"
      BY <2>1, <2>2, <2>5, ReapedChild, CurFacts
    <3>3. DataInv' /\ FlowInv'
      BY <1>0, <2>2, <2>5, <3>1, <3>2, SleepStep
    <3> QED BY <1>0, <3>3 DEF ProcInv
  <2> QED BY <1>6, <2>1, <2>3, <2>4, <2>5 DEF sys_wait
<1>7. CASE sys_exit
  BY <1>0, <1>7, ExitStep DEF ProcInv
<1>8. CASE sys_exit_hang
  BY <1>0, <1>8, HangStep DEF ProcInv
<1>9. CASE main_exit
  BY <1>0, <1>9, MainExitStep DEF ProcInv
<1>10. CASE Preempt
  BY <1>0, <1>10, PreemptStep DEF ProcInv
<1> QED BY <1>1, <1>2, <1>3, <1>4, <1>5, <1>6, <1>7, <1>8, <1>9, <1>10 DEF ProcNext

----------------------------------------------------------------------------
(* Theorems.                                                                *)

\* The invariant of processes: the pool counts them exactly, thread_all_list
\* holds them, each has a parent that can reap it, and nobody is interrupted
\* between waking its parent and hanging.
THEOREM ProcInvariant == PidsEnough => (ProcSpec => []ProcInv)
<1> SUFFICES ASSUME PidsEnough PROVE ProcSpec => []ProcInv
  OBVIOUS
<1>1. ProcInit => ProcInv
  BY ProcInitLemma
<1>2. ProcInv /\ [ProcNext]_procVars => ProcInv'
  BY ProcStep
<1> QED BY <1>1, <1>2, PTL DEF ProcSpec

\* A pid is given to one process at a time and not again before the process is
\* reaped (allocate_pid and release_pid of thread.c), whatever the order of
\* forks, exits and waits.
THEOREM PidsExactTheorem == PidsEnough => (ProcSpec => []PidsExact)
<1>1. ProcInv => PidsExact
  BY DEF ProcInv, DataInv, PoolInv
<1> QED BY <1>1, ProcInvariant, PTL

\* Every process has a parent that has not exited: sys_exit hands the children
\* to init before it hangs (wait_exit.c).
THEOREM ParentAliveTheorem == PidsEnough => (ProcSpec => []ParentAlive)
<1>1. ProcInv => ParentAlive
  BY DEF ProcInv, FlowInv, FamilyInv, CallsInv, ParentAlive, Alive
<1> QED BY <1>1, ProcInvariant, PTL

\* A process sleeps in sys_wait only with a child, none of which has exited:
\* no exit is lost between its test and its sleep (wait_exit.c).
THEOREM WaitSoundTheorem == PidsEnough => (ProcSpec => []WaitSound)
<1>1. ProcInv => WaitSound
  BY DEF ProcInv, FlowInv, WaitInv, CallsInv, WaitSound, Alive
<1> QED BY <1>1, ProcInvariant, PTL

\* A page directory lives as long as its process (fork and thread_exit).
THEOREM DirsExactTheorem == PidsEnough => (ProcSpec => []DirsExact)
<1>1. ProcInv => DirsExact
  BY DEF ProcInv, DataInv
<1> QED BY <1>1, ProcInvariant, PTL

\* fork, wait and exit use the scheduler as every thread does: Proc implements
\* Sched.
THEOREM ProcImplementsSched == PidsEnough => (ProcSpec => SchedSpec)
<1>1. ProcInit => SchedInit
  BY DEF ProcInit
<1>2. ProcInv /\ [ProcNext]_procVars => [SchedNext]_schedVars
  BY ProcSchedStep
<1> QED BY <1>1, <1>2, ProcInvariant, PTL DEF ProcSpec, SchedSpec
=============================================================================
