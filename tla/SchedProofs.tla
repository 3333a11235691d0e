---------------------------- MODULE SchedProofs ----------------------------
(***************************************************************************)
(* Proofs for Sched: the inductive invariant of the scheduler, for every    *)
(* set of threads, every assignment of priorities and every boot list.      *)
(***************************************************************************)
EXTENDS Sched, TLAPS

\* Appending a thread that is not linked keeps the list duplicate free and
\* links exactly that thread in addition (list_append).
LEMMA AppendLemma ==
    ASSUME NEW S, NEW s \in Seq(S), NEW x \in S, NoDup(s), ~ elem_find(s, x)
    PROVE  /\ Append(s, x) \in Seq(S)
           /\ Append(s, x) # <<>>
           /\ NoDup(Append(s, x))
           /\ \A y \in S : elem_find(Append(s, x), y) <=> (elem_find(s, y) \/ y = x)
<1>1. /\ Append(s, x) \in Seq(S)
      /\ Append(s, x) # <<>>
      /\ Len(Append(s, x)) = Len(s) + 1
      /\ \A i \in 1..Len(s) : Append(s, x)[i] = s[i]
      /\ Append(s, x)[Len(s) + 1] = x
      /\ Len(s) \in Nat
  OBVIOUS
<1>2. NoDup(Append(s, x))
  BY <1>1 DEF NoDup, elem_find
<1>3. \A y \in S : elem_find(Append(s, x), y) <=> (elem_find(s, y) \/ y = x)
  BY <1>1 DEF elem_find
<1> QED BY <1>1, <1>2, <1>3

\* The same for a push at the front (list_push).
LEMMA PushLemma ==
    ASSUME NEW S, NEW s \in Seq(S), NEW x \in S, NoDup(s), ~ elem_find(s, x)
    PROVE  /\ list_push(s, x) \in Seq(S)
           /\ list_push(s, x) # <<>>
           /\ NoDup(list_push(s, x))
           /\ \A y \in S : elem_find(list_push(s, x), y) <=> (elem_find(s, y) \/ y = x)
<1> DEFINE p == list_push(s, x)
<1>1. /\ p \in Seq(S)
      /\ Len(p) = Len(s) + 1
      /\ \A i \in 1..Len(s) : p[i + 1] = s[i]
      /\ p[1] = x
      /\ Len(s) \in Nat
  BY DEF list_push
<1> HIDE DEF p
<1>2. \A j \in 1..Len(p) : j = 1 \/ (j - 1 \in 1..Len(s) /\ p[j] = s[j - 1])
  BY <1>1
<1>3. NoDup(p)
  <2> SUFFICES ASSUME NEW i \in 1..Len(p), NEW j \in 1..Len(p), p[i] = p[j]
               PROVE  i = j
    BY DEF NoDup
  <2>1. ASSUME NEW k \in 1..Len(p), k # 1 PROVE p[k] # x
    BY <1>2, <2>1 DEF elem_find
  <2>2. CASE i = 1 \/ j = 1
    BY <2>1, <2>2, <1>1
  <2>3. CASE i # 1 /\ j # 1
    <3>1. /\ i - 1 \in 1..Len(s) /\ p[i] = s[i - 1]
          /\ j - 1 \in 1..Len(s) /\ p[j] = s[j - 1]
      BY <1>2, <2>3
    <3>2. i - 1 = j - 1
      BY <3>1 DEF NoDup
    <3> QED BY <3>2
  <2> QED BY <2>2, <2>3
<1>4. ASSUME NEW y \in S
      PROVE  elem_find(p, y) <=> (elem_find(s, y) \/ y = x)
  <2>1. elem_find(p, y) => elem_find(s, y) \/ y = x
    BY <1>1, <1>2 DEF elem_find
  <2>2. elem_find(s, y) => elem_find(p, y)
    <3> SUFFICES ASSUME NEW i \in 1..Len(s), s[i] = y
                 PROVE  elem_find(p, y)
      BY DEF elem_find
    <3>1. i + 1 \in 1..Len(p) /\ p[i + 1] = y
      BY <1>1
    <3> QED BY <3>1 DEF elem_find
  <2>3. elem_find(p, x)
    BY <1>1 DEF elem_find
  <2> QED BY <2>1, <2>2, <2>3
<1>5. p # <<>>
  BY <1>1
<1> QED BY <1>1, <1>3, <1>4, <1>5 DEF p

\* Popping the head of a duplicate-free list unlinks exactly that thread.
LEMMA PopLemma ==
    ASSUME NEW S, NEW s \in Seq(S), s # <<>>, NoDup(s)
    PROVE  /\ Head(s) \in S
           /\ elem_find(s, Head(s))
           /\ Tail(s) \in Seq(S)
           /\ NoDup(Tail(s))
           /\ \A y \in S : elem_find(Tail(s), y) <=> (elem_find(s, y) /\ y # Head(s))
<1>1. /\ Len(s) \in Nat \ {0}
      /\ Head(s) = s[1]
      /\ Head(s) \in S
      /\ Tail(s) \in Seq(S)
      /\ Len(Tail(s)) = Len(s) - 1
      /\ \A i \in 1..(Len(s) - 1) : Tail(s)[i] = s[i + 1]
  OBVIOUS
<1>2. NoDup(Tail(s))
  BY <1>1 DEF NoDup
<1>3. ASSUME NEW y \in S
      PROVE  elem_find(Tail(s), y) <=> (elem_find(s, y) /\ y # Head(s))
  <2>1. elem_find(Tail(s), y) => elem_find(s, y) /\ y # Head(s)
    BY <1>1 DEF elem_find, NoDup
  <2>2. ASSUME elem_find(s, y), y # Head(s)
        PROVE  elem_find(Tail(s), y)
    <3>1. PICK i \in 1..Len(s) : s[i] = y
      BY <2>2 DEF elem_find
    <3>2. i - 1 \in 1..Len(Tail(s)) /\ Tail(s)[i - 1] = y
      BY <1>1, <2>2, <3>1
    <3> QED BY <3>2 DEF elem_find
  <2> QED BY <2>1, <2>2
<1>4. elem_find(s, Head(s))
  BY <1>1 DEF elem_find
<1> QED BY <1>1, <1>2, <1>3, <1>4

----------------------------------------------------------------------------
\* The inductive invariant: what the list holds is tied to the statuses, and
\* the idle thread is never one that schedule could not unblock.
SchedInv == SchedTypeOK /\ ReadyExact /\ IdleAvailable

\* The states in which schedule may be called: the caller cur either still
\* runs and is not linked, or has left TASK_RUNNING; everything else is as
\* the invariant wants it.
Schedulable(st, rdy, sv) ==
    /\ st \in [Thread -> TaskStatus]
    /\ rdy \in Seq(Thread)
    /\ sv \in [Thread -> IntrStatus]
    /\ NoDup(rdy)
    /\ \A t \in Thread : elem_find(rdy, t) <=> st[t] = "TASK_READY"
    /\ \A t \in Thread : st[t] = "TASK_RUNNING" => t = cur
    /\ st[idle_thread] \in {"TASK_RUNNING", "TASK_READY", "TASK_BLOCKED"}

\* schedule establishes the invariant from every state it may be called in.
LEMMA ScheduleLemma ==
    ASSUME SchedTypeOK,
           NEW st, NEW rdy, NEW sv, Schedulable(st, rdy, sv), schedule(st, rdy, sv)
    PROVE  SchedInv'
<1> USE ThreadAssumption
<1> DEFINE q == Requeue(st, rdy)
           queue == IF q = <<>> THEN list_push(<<>>, idle_thread) ELSE q
           next == Head(queue)
<1>1. /\ q \in Seq(Thread)
      /\ NoDup(q)
      /\ \A t \in Thread : elem_find(q, t) <=> (elem_find(rdy, t) \/ (t = cur /\ st[cur] = "TASK_RUNNING"))
  <2>1. CASE st[cur] = "TASK_RUNNING"
    BY <2>1, AppendLemma DEF Requeue, list_append, Schedulable, SchedTypeOK
  <2>2. CASE st[cur] # "TASK_RUNNING"
    BY <2>2 DEF Requeue, Schedulable
  <2> QED BY <2>1, <2>2
<1>2. /\ queue \in Seq(Thread)
      /\ queue # <<>>
      /\ NoDup(queue)
      /\ q # <<>> => queue = q
      /\ q = <<>> => \A t \in Thread : elem_find(queue, t) <=> t = idle_thread
  <2>1. CASE q = <<>>
    <3>1. <<>> \in Seq(Thread) /\ NoDup(<<>>) /\ \A t \in Thread : ~ elem_find(<<>>, t)
      BY DEF NoDup, elem_find
    <3> QED BY <2>1, <3>1, PushLemma
  <2>2. CASE q # <<>>
    BY <2>2, <1>1
  <2> QED BY <2>1, <2>2
<1>3. /\ next \in Thread
      /\ elem_find(queue, next)
      /\ Tail(queue) \in Seq(Thread)
      /\ NoDup(Tail(queue))
      /\ \A y \in Thread : elem_find(Tail(queue), y) <=> (elem_find(queue, y) /\ y # next)
  BY <1>2, PopLemma
<1>4. /\ status' = [t \in Thread |->
                      IF t = next THEN "TASK_RUNNING"
                      ELSE IF t = cur /\ st[t] = "TASK_RUNNING" THEN "TASK_READY"
                      ELSE st[t]]
      /\ ready' = Tail(queue)
      /\ ticks' = Refill(st)
      /\ cur' = next
      /\ saved' = sv
      /\ intr' = sv[next]
  BY DEF schedule
<1>5. q = <<>> => \A t \in Thread : st[t] \notin {"TASK_RUNNING", "TASK_READY"}
  <2> SUFFICES ASSUME q = <<>>, NEW t \in Thread
               PROVE  st[t] \notin {"TASK_RUNNING", "TASK_READY"}
    OBVIOUS
  <2>1. ~ elem_find(q, t)
    BY DEF elem_find
  <2> HIDE DEF q
  <2> QED BY <2>1, <1>1 DEF Schedulable
<1> HIDE DEF q, queue, next
<1>6. SchedTypeOK'
  <2>1. ticks' \in [Thread -> 1..255] /\ \A t \in Thread : ticks'[t] <= Priority[t]
    <3>1. Priority[cur] \in 1..255 /\ cur \in Thread
      BY DEF SchedTypeOK
    <3>2. CASE st[cur] = "TASK_RUNNING"
      <4>1. ticks' = [ticks EXCEPT ![cur] = Priority[cur]]
        BY <1>4, <3>2 DEF Refill
      <4>2. ticks' \in [Thread -> 1..255]
        BY <3>1, <4>1 DEF SchedTypeOK
      <4>3. ASSUME NEW t \in Thread PROVE ticks'[t] <= Priority[t]
        <5>1. CASE t = cur
          <6>1. ticks'[t] = Priority[t]
            BY <4>1, <5>1 DEF SchedTypeOK
          <6> QED BY <3>1, <5>1, <6>1
        <5>2. CASE t # cur
          BY <4>1, <5>2 DEF SchedTypeOK
        <5> QED BY <5>1, <5>2
      <4> QED BY <4>2, <4>3
    <3>3. CASE st[cur] # "TASK_RUNNING"
      <4>1. ticks' = ticks
        BY <1>4, <3>3 DEF Refill
      <4> QED BY <4>1 DEF SchedTypeOK
    <3> QED BY <3>2, <3>3
  <2> QED BY <2>1, <1>3, <1>4 DEF SchedTypeOK, Schedulable, TaskStatus
<1>7. ReadyExact'
  <2>1. ASSUME NEW t \in Thread
        PROVE  elem_find(ready', t) <=> status'[t] = "TASK_READY"
    <3>1. CASE q = <<>>
      BY <3>1, <1>2, <1>3, <1>4, <1>5 DEF Schedulable
    <3>2. CASE q # <<>>
      BY <3>2, <1>1, <1>2, <1>3, <1>4 DEF Schedulable
    <3> QED BY <3>1, <3>2
  <2>2. ASSUME NEW t \in Thread
        PROVE  t = cur' <=> status'[t] = "TASK_RUNNING"
    BY <1>3, <1>4 DEF Schedulable
  <2> QED BY <1>3, <1>4, <2>1, <2>2 DEF ReadyExact
<1>8. IdleAvailable'
  <2>1. status'[idle_thread] \in {"TASK_RUNNING", "TASK_READY", "TASK_BLOCKED"}
    BY <1>4 DEF Schedulable
  <2>2. ASSUME cur' # idle_thread, ready' = <<>>
        PROVE  status'[idle_thread] = "TASK_BLOCKED"
    <3>1. ~ elem_find(ready', idle_thread)
      BY <2>2 DEF elem_find
    <3> QED BY <2>1, <2>2, <3>1, <1>7 DEF ReadyExact
  <2> QED BY <2>1, <2>2 DEF IdleAvailable
<1> QED BY <1>6, <1>7, <1>8 DEF SchedInv

----------------------------------------------------------------------------
LEMMA InitLemma == SchedInit => SchedInv
<1> SUFFICES ASSUME SchedInit PROVE SchedInv
  OBVIOUS
<1>1. SchedTypeOK
  <2>1. ASSUME NEW t \in Thread
        PROVE  ticks[t] = Priority[t] /\ Priority[t] \in 1..255
    BY ThreadAssumption DEF SchedInit
  <2>2. ASSUME NEW t \in Thread PROVE ticks[t] <= Priority[t]
    <3>1. ticks[t] = Priority[t] /\ Priority[t] \in 1..255 /\ ticks[t] \in 1..255
      BY <2>1
    <3> QED BY <3>1
  <2>3. ticks \in [Thread -> 1..255]
    BY ThreadAssumption DEF SchedInit
  <2>4. ready \in Seq(Thread)
    BY BootAssumption DEF SchedInit
  <2>5. /\ status \in [Thread -> TaskStatus]
        /\ cur \in Thread
        /\ intr \in IntrStatus
        /\ saved \in [Thread -> IntrStatus]
    BY ThreadAssumption DEF SchedInit, TaskStatus, IntrStatus
  <2> QED BY <2>2, <2>3, <2>4, <2>5 DEF SchedTypeOK
<1>2. ReadyExact
  BY ThreadAssumption, BootAssumption DEF ReadyExact, SchedInit
<1>3. IdleAvailable
  <2>1. ready # <<>>
    BY BootAssumption DEF SchedInit, elem_find
  <2>2. status[idle_thread] = "TASK_READY"
    BY ThreadAssumption, BootAssumption DEF SchedInit
  <2> QED BY <2>1, <2>2 DEF IdleAvailable
<1> QED BY <1>1, <1>2, <1>3 DEF SchedInv

\* thread_block is called with the CPU running cur.
LEMMA BlockLemma ==
    ASSUME SchedInv, NEW stat \in Stopped, NEW old \in IntrStatus,
           cur = idle_thread => stat = "TASK_BLOCKED", thread_block(stat, old)
    PROVE  SchedInv'
<1> DEFINE st == [status EXCEPT ![cur] = stat]
           sv == [saved EXCEPT ![cur] = old]
<1>1. Schedulable(st, ready, sv)
  BY ThreadAssumption
  DEF SchedInv, SchedTypeOK, ReadyExact, IdleAvailable, Schedulable, Stopped, TaskStatus
<1>2. schedule(st, ready, sv)
  BY DEF thread_block
<1> QED BY <1>1, <1>2, ScheduleLemma DEF SchedInv

\* thread_unblock of a stopped thread that is not the idle thread.
LEMMA UnblockLemma ==
    ASSUME SchedInv, NEW t \in Thread, Unblock(t)
    PROVE  SchedInv'
<1>1. ~ elem_find(ready, t)
  BY DEF SchedInv, ReadyExact, Unblock, Stopped
<1>2. /\ ready' \in Seq(Thread)
      /\ ready' # <<>>
      /\ NoDup(ready')
      /\ \A y \in Thread : elem_find(ready', y) <=> (elem_find(ready, y) \/ y = t)
  BY <1>1, PushLemma DEF SchedInv, SchedTypeOK, ReadyExact, Unblock, thread_unblock
<1>3. SchedTypeOK'
  BY <1>2 DEF SchedInv, SchedTypeOK, Unblock, thread_unblock, TaskStatus
<1>4. ReadyExact'
  BY <1>2 DEF SchedInv, SchedTypeOK, ReadyExact, Unblock, thread_unblock, Stopped
<1>5. IdleAvailable'
  BY <1>2, ThreadAssumption DEF SchedInv, SchedTypeOK, IdleAvailable, Unblock, thread_unblock
<1> QED BY <1>3, <1>4, <1>5 DEF SchedInv

LEMMA StartLemma ==
    ASSUME SchedInv, NEW t \in Thread, Start(t)
    PROVE  SchedInv'
<1> USE ThreadAssumption
<1>1. ~ elem_find(ready, t)
  BY DEF SchedInv, ReadyExact, Start
<1>2. /\ ready' \in Seq(Thread)
      /\ ready' # <<>>
      /\ NoDup(ready')
      /\ \A y \in Thread : elem_find(ready', y) <=> (elem_find(ready, y) \/ y = t)
  BY <1>1, AppendLemma DEF SchedInv, SchedTypeOK, ReadyExact, Start, thread_start, list_append
<1>3. SchedTypeOK'
  <2>1. ticks' \in [Thread -> 1..255] /\ \A u \in Thread : ticks'[u] <= Priority[u]
    <3>1. ticks' = [ticks EXCEPT ![t] = Priority[t]] /\ Priority[t] \in 1..255
      BY DEF Start, thread_start
    <3>2. ticks' \in [Thread -> 1..255]
      BY <3>1 DEF SchedInv, SchedTypeOK
    <3>3. ASSUME NEW u \in Thread PROVE ticks'[u] <= Priority[u]
      <4>1. CASE u = t
        <5>1. ticks'[u] = Priority[u]
          BY <3>1, <4>1 DEF SchedInv, SchedTypeOK
        <5> QED BY <3>1, <4>1, <5>1
      <4>2. CASE u # t BY <3>1, <4>2 DEF SchedInv, SchedTypeOK
      <4> QED BY <4>1, <4>2
    <3> QED BY <3>2, <3>3
  <2> QED BY <1>2, <2>1 DEF SchedInv, SchedTypeOK, Start, thread_start, TaskStatus, IntrStatus
<1>4. ReadyExact'
  BY <1>2 DEF SchedInv, SchedTypeOK, ReadyExact, Start, thread_start
<1>5. IdleAvailable'
  BY <1>2 DEF SchedInv, SchedTypeOK, IdleAvailable, Start, thread_start
<1> QED BY <1>3, <1>4, <1>5 DEF SchedInv

LEMMA TimerLemma ==
    ASSUME SchedInv, intr_timer_handler
    PROVE  SchedInv'
<1> USE ThreadAssumption
<1> DEFINE left == (ticks[cur] + 255) % 256
           sv == [saved EXCEPT ![cur] = "INTR_ON"]
<1>1. cur \in Thread /\ ticks[cur] \in 1..255
  BY DEF SchedInv, SchedTypeOK
<1>2. left = ticks[cur] - 1
  <2>1. \A n \in 1..255 : (n + 255) % 256 = n - 1
    OBVIOUS
  <2> QED BY <1>1, <2>1
<1>3. CASE left = 0
  <2>1. Schedulable(status, ready, sv)
    BY DEF SchedInv, SchedTypeOK, ReadyExact, IdleAvailable, Schedulable, IntrStatus
  <2>2. schedule(status, ready, sv)
    BY <1>3 DEF intr_timer_handler
  <2> QED BY <2>1, <2>2, ScheduleLemma DEF SchedInv
<1>4. CASE left # 0
  <2>1. /\ ticks' = [ticks EXCEPT ![cur] = left]
        /\ UNCHANGED <<status, ready, cur, intr, saved>>
    BY <1>4 DEF intr_timer_handler
  <2>2. left \in 1..255 /\ left <= ticks[cur]
    BY <1>1, <1>2, <1>4
  <2> HIDE DEF left
  <2>3. ticks' \in [Thread -> 1..255]
    BY <2>1, <2>2 DEF SchedInv, SchedTypeOK
  <2>4. ASSUME NEW t \in Thread PROVE ticks'[t] <= Priority[t]
    <3>1. /\ ticks[t] \in 1..255
          /\ Priority[t] \in 1..255
          /\ ticks[t] <= Priority[t]
      BY DEF SchedInv, SchedTypeOK
    <3>2. CASE t = cur
      <4>1. ticks'[t] = left
        BY <2>1, <3>2 DEF SchedInv, SchedTypeOK
      <4>2. left \in 1..255 /\ left <= ticks[t]
        BY <2>2, <3>2
      <4>3. \A a, b, c \in 1..255 : a <= b /\ b <= c => a <= c
        OBVIOUS
      <4> QED BY <3>1, <4>1, <4>2, <4>3
    <3>3. CASE t # cur
      <4>1. ticks'[t] = ticks[t] /\ ticks'[t] \in 1..255
        BY <2>1, <2>3, <3>3 DEF SchedInv, SchedTypeOK
      <4> QED BY <3>1, <4>1
    <3> QED BY <3>2, <3>3
  <2> QED BY <2>1, <2>3, <2>4 DEF SchedInv, SchedTypeOK, ReadyExact, IdleAvailable
<1> QED BY <1>3, <1>4

LEMMA YieldLemma ==
    ASSUME SchedInv, Yield
    PROVE  SchedInv'
<1> DEFINE st == [status EXCEPT ![cur] = "TASK_READY"]
           rdy == Append(ready, cur)
           sv == [saved EXCEPT ![cur] = intr]
<1>1. ~ elem_find(ready, cur) /\ cur \in Thread
  BY DEF SchedInv, SchedTypeOK, ReadyExact
<1>2. /\ rdy \in Seq(Thread)
      /\ NoDup(rdy)
      /\ \A y \in Thread : elem_find(rdy, y) <=> (elem_find(ready, y) \/ y = cur)
  BY <1>1, AppendLemma DEF SchedInv, SchedTypeOK, ReadyExact
<1> HIDE DEF rdy
<1>3. Schedulable(st, rdy, sv)
  BY <1>1, <1>2, ThreadAssumption
  DEF SchedInv, SchedTypeOK, ReadyExact, IdleAvailable, Schedulable, TaskStatus
<1>4. schedule(st, rdy, sv)
  BY DEF Yield, thread_yield, YieldPrepared, list_append, rdy
<1> QED BY <1>3, <1>4, ScheduleLemma DEF SchedInv

LEMMA ExitSelfLemma ==
    ASSUME SchedInv, ExitSelf
    PROVE  SchedInv'
<1> DEFINE st == [status EXCEPT ![cur] = "TASK_DIED"]
<1>1. ~ elem_find(ready, cur) /\ cur \in Thread
  BY DEF SchedInv, SchedTypeOK, ReadyExact
<1>2. Schedulable(st, ready, saved)
  BY <1>1, ThreadAssumption
  DEF SchedInv, SchedTypeOK, ReadyExact, IdleAvailable, Schedulable, TaskStatus, ExitSelf
<1>3. schedule(st, ready, saved)
  BY <1>1 DEF ExitSelf, thread_exit
<1> QED BY <1>2, <1>3, ScheduleLemma DEF SchedInv

LEMMA ReapLemma ==
    ASSUME SchedInv, NEW t \in Thread, Reap(t)
    PROVE  SchedInv'
<1>1. ~ elem_find(ready, t)
  BY DEF SchedInv, ReadyExact, Reap
<1>2. /\ status' = [status EXCEPT ![t] = "TASK_DIED"]
      /\ ready' = ready
      /\ intr' = "INTR_OFF"
      /\ UNCHANGED <<ticks, cur, saved>>
  BY <1>1 DEF Reap, thread_exit
<1>3. SchedTypeOK'
  BY <1>2 DEF SchedInv, SchedTypeOK, TaskStatus, IntrStatus
<1>4. ReadyExact'
  BY <1>2 DEF SchedInv, SchedTypeOK, ReadyExact, Reap
<1>5. IdleAvailable'
  BY <1>2, ThreadAssumption DEF SchedInv, SchedTypeOK, IdleAvailable, Reap
<1> QED BY <1>3, <1>4, <1>5 DEF SchedInv

LEMMA SchedStep == SchedInv /\ [SchedNext]_schedVars => SchedInv'
<1> SUFFICES ASSUME SchedInv, [SchedNext]_schedVars
             PROVE  SchedInv'
  OBVIOUS
<1>1. CASE intr_timer_handler
  BY <1>1, TimerLemma
<1>2. CASE Idle
  <2>1. "TASK_BLOCKED" \in Stopped /\ intr \in IntrStatus
    BY DEF Stopped, SchedInv, SchedTypeOK
  <2> QED BY <1>2, <2>1, BlockLemma DEF Idle
<1>3. CASE \E stat \in Stopped, old \in IntrStatus : Block(stat, old)
  BY <1>3, BlockLemma DEF Block
<1>4. CASE Yield
  BY <1>4, YieldLemma
<1>5. CASE \E t \in Thread : Unblock(t) \/ Start(t) \/ Reap(t)
  BY <1>5, UnblockLemma, StartLemma, ReapLemma
<1>6. CASE IntrDisable \/ IntrEnable
  BY <1>6 DEF IntrDisable, IntrEnable, SchedInv, SchedTypeOK, ReadyExact, IdleAvailable, IntrStatus
<1>7. CASE ExitSelf
  BY <1>7, ExitSelfLemma
<1>8. CASE UNCHANGED schedVars
  BY <1>8 DEF schedVars, SchedInv, SchedTypeOK, ReadyExact, IdleAvailable
<1> QED BY <1>1, <1>2, <1>3, <1>4, <1>5, <1>6, <1>7, <1>8 DEF SchedNext

----------------------------------------------------------------------------
(* What schedule does to the statuses.                                      *)

\* schedule moves the caller to the ready list if it still runs, makes one
\* thread run that was ready (or is the caller or the idle thread), and
\* touches no other.
LEMMA ScheduleStatus ==
    ASSUME SchedTypeOK,
           NEW st, NEW rdy, NEW sv, Schedulable(st, rdy, sv), schedule(st, rdy, sv),
           NEW t \in Thread, t # idle_thread
    PROVE  /\ st[t] \notin {"TASK_READY", "TASK_RUNNING"} => status'[t] = st[t]
           /\ st[t] \in {"TASK_READY", "TASK_RUNNING"} =>
                 status'[t] \in {"TASK_READY", "TASK_RUNNING"}
<1> DEFINE q == Requeue(st, rdy)
           queue == IF q = <<>> THEN list_push(<<>>, idle_thread) ELSE q
           next == Head(queue)
<1>1. status'[t] = IF t = next THEN "TASK_RUNNING"
                   ELSE IF t = cur /\ st[t] = "TASK_RUNNING" THEN "TASK_READY"
                   ELSE st[t]
  BY DEF schedule
<1>2. t = next => st[t] \in {"TASK_READY", "TASK_RUNNING"}
  <2> SUFFICES ASSUME t = next PROVE st[t] \in {"TASK_READY", "TASK_RUNNING"}
    OBVIOUS
  <2>1. CASE q = <<>>
    BY <2>1 DEF list_push
  <2>2. CASE q # <<>>
    <3>1. CASE st[cur] = "TASK_RUNNING"
      <4>1. /\ NoDup(rdy) /\ rdy \in Seq(Thread) /\ cur \in Thread
            /\ ~ elem_find(rdy, cur)
        BY <3>1 DEF Schedulable, SchedTypeOK
      <4>2. q = Append(rdy, cur)
        BY <3>1 DEF Requeue, list_append
      <4>3. /\ q \in Seq(Thread) /\ NoDup(q)
            /\ elem_find(q, t) <=> (elem_find(rdy, t) \/ t = cur)
        BY <4>1, <4>2, AppendLemma
      <4>4. elem_find(q, t)
        BY <2>2, <4>3, PopLemma
      <4> QED BY <3>1, <4>3, <4>4 DEF Schedulable
    <3>2. CASE st[cur] # "TASK_RUNNING"
      <4>1. q = rdy /\ NoDup(rdy) /\ rdy \in Seq(Thread)
        BY <3>2 DEF Requeue, Schedulable
      <4>2. elem_find(rdy, t)
        BY <2>2, <4>1, PopLemma
      <4> QED BY <4>2 DEF Schedulable
    <3> QED BY <3>1, <3>2
  <2> QED BY <2>1, <2>2
<1> QED BY <1>1, <1>2

\* thread_block of the running thread changes the status of no other thread
\* between sleeping and awake.
LEMMA BlockStatus ==
    ASSUME SchedInv, NEW stat \in Stopped, NEW old \in IntrStatus,
           cur = idle_thread => stat = "TASK_BLOCKED", thread_block(stat, old)
    PROVE  /\ cur # idle_thread => status'[cur] = stat
           /\ \A t \in Thread \ {cur, idle_thread} :
                 /\ status[t] \notin {"TASK_READY", "TASK_RUNNING"} => status'[t] = status[t]
                 /\ status[t] \in {"TASK_READY", "TASK_RUNNING"} =>
                       status'[t] \in {"TASK_READY", "TASK_RUNNING"}
<1> DEFINE st == [status EXCEPT ![cur] = stat]
           sv == [saved EXCEPT ![cur] = old]
<1>1. Schedulable(st, ready, sv)
  BY ThreadAssumption
  DEF SchedInv, SchedTypeOK, ReadyExact, IdleAvailable, Schedulable, Stopped, TaskStatus
<1>2. schedule(st, ready, sv)
  BY DEF thread_block
<1>3. /\ cur \in Thread /\ st[cur] = stat
      /\ stat \notin {"TASK_READY", "TASK_RUNNING"}
      /\ \A t \in Thread : t # cur => st[t] = status[t]
  BY DEF SchedInv, SchedTypeOK, Stopped
<1> HIDE DEF st, sv
<1> QED BY <1>1, <1>2, <1>3, ScheduleStatus DEF SchedInv

\* The status of t is kept, but for whose turn it is among those that can run.
Awake == {"TASK_READY", "TASK_RUNNING"}
KeptStatus(t) ==
    IF status[t] \in Awake THEN status'[t] \in Awake ELSE status'[t] = status[t]

LEMMA TimerStatus ==
    ASSUME SchedInv, intr_timer_handler, NEW t \in Thread, t # idle_thread
    PROVE  KeptStatus(t)
<1> DEFINE sv == [saved EXCEPT ![cur] = "INTR_ON"]
<1>1. Schedulable(status, ready, sv) /\ SchedTypeOK
  BY DEF SchedInv, SchedTypeOK, ReadyExact, IdleAvailable, Schedulable, IntrStatus
<1>2. CASE schedule(status, ready, sv)
  BY <1>1, <1>2, ScheduleStatus DEF KeptStatus, Awake
<1>3. CASE status' = status
  BY <1>3 DEF KeptStatus
<1> QED BY <1>2, <1>3 DEF intr_timer_handler

LEMMA IdleStatus ==
    ASSUME SchedInv, Idle, NEW t \in Thread, t # idle_thread
    PROVE  KeptStatus(t)
<1>1. "TASK_BLOCKED" \in Stopped /\ intr \in IntrStatus
  BY DEF Stopped, SchedInv, SchedTypeOK
<1> QED BY <1>1, BlockStatus DEF Idle, KeptStatus, Awake

LEMMA YieldStatus ==
    ASSUME SchedInv, Yield, NEW t \in Thread, t # idle_thread
    PROVE  KeptStatus(t)
<1> DEFINE st == [status EXCEPT ![cur] = "TASK_READY"]
           rdy == Append(ready, cur)
           sv == [saved EXCEPT ![cur] = intr]
<1>1. ~ elem_find(ready, cur) /\ cur \in Thread /\ status[cur] = "TASK_RUNNING" /\ SchedTypeOK
  BY DEF SchedInv, SchedTypeOK, ReadyExact
<1>2. /\ rdy \in Seq(Thread)
      /\ NoDup(rdy)
      /\ \A y \in Thread : elem_find(rdy, y) <=> (elem_find(ready, y) \/ y = cur)
  BY <1>1, AppendLemma DEF SchedInv, SchedTypeOK, ReadyExact
<1>3. schedule(st, rdy, sv)
  BY DEF Yield, thread_yield, YieldPrepared, list_append
<1> HIDE DEF rdy
<1>4. Schedulable(st, rdy, sv)
  BY <1>1, <1>2, ThreadAssumption
  DEF SchedInv, SchedTypeOK, ReadyExact, IdleAvailable, Schedulable, TaskStatus
<1>5. st[t] = IF t = cur THEN "TASK_READY" ELSE status[t]
  BY <1>1 DEF SchedTypeOK
<1> HIDE DEF st
<1> QED BY <1>1, <1>3, <1>4, <1>5, ScheduleStatus DEF KeptStatus, Awake

LEMMA ExitSelfStatus ==
    ASSUME SchedInv, ExitSelf, NEW t \in Thread, t # idle_thread
    PROVE  IF t = cur THEN status'[t] = "TASK_DIED" ELSE KeptStatus(t)
<1> DEFINE st == [status EXCEPT ![cur] = "TASK_DIED"]
<1>1. ~ elem_find(ready, cur) /\ cur \in Thread /\ SchedTypeOK
  BY DEF SchedInv, SchedTypeOK, ReadyExact
<1>2. Schedulable(st, ready, saved)
  BY <1>1, ThreadAssumption
  DEF SchedInv, SchedTypeOK, ReadyExact, IdleAvailable, Schedulable, TaskStatus, ExitSelf
<1>3. schedule(st, ready, saved)
  BY <1>1 DEF ExitSelf, thread_exit
<1>4. st[t] = IF t = cur THEN "TASK_DIED" ELSE status[t]
  BY <1>1 DEF SchedTypeOK
<1> HIDE DEF st
<1> QED BY <1>1, <1>2, <1>3, <1>4, ScheduleStatus DEF KeptStatus, Awake

----------------------------------------------------------------------------
(* Theorems.                                                                *)

\* The scheduler keeps its invariant in every behaviour of every client.
THEOREM SchedInvariant == SchedSpec => []SchedInv
<1>1. SchedInit => SchedInv
  BY InitLemma
<1>2. SchedInv /\ [SchedNext]_schedVars => SchedInv'
  BY SchedStep
<1> QED BY <1>1, <1>2, PTL DEF SchedSpec

\* The uint8_t time slice of a thread never wraps and never exceeds its
\* priority (intr_timer_handler, schedule).
THEOREM SchedTypeCorrect == SchedSpec => []SchedTypeOK
<1>1. SchedInv => SchedTypeOK
  BY DEF SchedInv
<1> QED BY <1>1, SchedInvariant, PTL

\* The ready list and the statuses agree: no ASSERT on elem_find in schedule,
\* thread_yield, thread_start or thread_unblock fails.
THEOREM ReadyListExact == SchedSpec => []ReadyExact
<1>1. SchedInv => ReadyExact
  BY DEF SchedInv
<1> QED BY <1>1, SchedInvariant, PTL

\* schedule always finds a thread to run: if the ready list is empty, the idle
\* thread can be unblocked.
THEOREM IdleThreadAvailable == SchedSpec => []IdleAvailable
<1>1. SchedInv => IdleAvailable
  BY DEF SchedInv
<1> QED BY <1>1, SchedInvariant, PTL
=============================================================================
