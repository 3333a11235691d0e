----------------------------- MODULE SyncProofs -----------------------------
(***************************************************************************)
(* Proofs for Sync: mutual exclusion of the recursive lock under            *)
(* preemption, no lost wakeup, and that Sync implements Sched.              *)
(***************************************************************************)
EXTENDS Sync, SchedProofs

\* holder and holder_repeat_nr, for a free lock and for each point its owner
\* can be at.
LockShapeAt(l, t) ==
    /\ value[l] = 1 => holder[l] = NULL /\ holder_repeat_nr[l] = 0
    /\ held[<<t, l>>] > 0 => holder[l] = t /\ holder_repeat_nr[l] = held[<<t, l>>]
    /\ want[t] = l =>
          /\ pc[t] = "own" => holder[l] = NULL /\ holder_repeat_nr[l] = 0
          /\ pc[t] = "nr"  => holder[l] = t /\ holder_repeat_nr[l] = 0
          /\ pc[t] = "rel" => holder[l] = NULL /\ holder_repeat_nr[l] = 1
          /\ pc[t] = "up"  => holder[l] = NULL /\ holder_repeat_nr[l] = 0
          /\ pc[t] # "run" => held[<<t, l>>] = 0

LockShape == \A l \in Lock, t \in Thread : LockShapeAt(l, t)

\* The idle thread never enters sync.c.
IdleOutside == pc[idle_thread] = "run" /\ \A l \in Lock : held[<<idle_thread, l>>] = 0

\* The inductive invariant: the lock part and the part that ties the lists of
\* waiters to the scheduler.
LockInv == LockTypeOK /\ MutualExclusion /\ LockShape /\ IdleOutside
WakeInv == WaitersAsleep /\ NoLostWakeup
SyncInv == SchedInv /\ SyncTypeOK /\ LockInv /\ WakeInv

LEMMA SyncInitLemma == SyncInit => SyncInv
<1> SUFFICES ASSUME SyncInit PROVE SyncInv
  OBVIOUS
<1> USE ThreadAssumption, LockAssumption
<1>1. SchedInv
  BY InitLemma DEF SyncInit
<1>2. SyncTypeOK
  BY DEF SyncInit, SyncTypeOK, LockTypeOK, PC, IntrStatus
<1>3. \A t \in Thread, l \in Lock : ~ Owns(t, l)
  BY DEF SyncInit, Owns
<1>4. MutualExclusion
  BY <1>3 DEF MutualExclusion, SyncInit
<1>5. LockShape /\ IdleOutside
  BY DEF LockShape, LockShapeAt, IdleOutside, SyncInit
<1>6. WakeInv
  BY DEF WakeInv, WaitersAsleep, NoLostWakeup, SyncInit, NoDup, elem_find
<1> QED BY <1>1, <1>2, <1>4, <1>5, <1>6 DEF SyncInv, LockInv, SyncTypeOK

----------------------------------------------------------------------------
(* The lock part of the invariant, one lemma per operation.                 *)

\* What the owner of a lock is, spelled out for the proofs below.
LEMMA OwnerFacts ==
    ASSUME LockInv, NEW l \in Lock
    PROVE  /\ value[l] \in {0, 1}
           /\ value[l] = 1 => \A t \in Thread : ~ Owns(t, l)
           /\ \A t, u \in Thread : Owns(t, l) /\ Owns(u, l) => t = u
<1> QED BY DEF LockInv, LockTypeOK, MutualExclusion

LEMMA AcquireHolderLemma ==
    ASSUME LockInv, cur \in Thread, NEW l \in Lock, want[cur] = l, acquire_holder(l)
    PROVE  LockInv'
<1> USE ThreadAssumption, LockAssumption
<1>1. LockTypeOK'
  BY DEF LockInv, LockTypeOK, acquire_holder, PC
<1>2. \A t \in Thread, k \in Lock : Owns(t, k)' <=> Owns(t, k)
  BY DEF LockInv, LockTypeOK, LockShape, LockShapeAt, Owns, acquire_holder
<1>3. MutualExclusion'
  BY <1>2 DEF LockInv, MutualExclusion, acquire_holder
<1>4. LockShape'
  <2> SUFFICES ASSUME NEW k \in Lock, NEW t \in Thread
               PROVE  LockShapeAt(k, t)'
    BY DEF LockShape, LockShapeAt
  <2>1. LockShapeAt(k, t) /\ LockShapeAt(k, cur) /\ held[<<t, k>>] \in Nat
    BY DEF LockInv, LockShape, LockShapeAt, LockTypeOK
  <2>2. CASE k # l
    BY <2>1, <2>2 DEF LockInv, LockTypeOK, LockShapeAt, acquire_holder
  <2>3. CASE k = l /\ t = cur
    BY <2>1, <2>3, OwnerFacts DEF LockInv, LockTypeOK, LockShapeAt, Owns, acquire_holder
  <2>4. CASE k = l /\ t # cur
    <3>1. ~ Owns(t, l) /\ value[l] # 1
      BY <2>4, OwnerFacts DEF Owns, acquire_holder
    <3> QED BY <2>1, <2>4, <3>1 DEF LockInv, LockTypeOK, LockShapeAt, Owns, acquire_holder
  <2> QED BY <2>2, <2>3, <2>4
<1>5. IdleOutside'
  BY DEF LockInv, LockTypeOK, IdleOutside, acquire_holder
<1> QED BY <1>1, <1>3, <1>4, <1>5 DEF LockInv

LEMMA ReleaseNrLemma ==
    ASSUME LockInv, cur \in Thread, NEW l \in Lock, want[cur] = l, release_nr(l)
    PROVE  LockInv'
<1> USE ThreadAssumption, LockAssumption
<1>1. LockTypeOK'
  BY DEF LockInv, LockTypeOK, release_nr, PC
<1>2. \A t \in Thread, k \in Lock : Owns(t, k)' <=> Owns(t, k)
  BY DEF LockInv, LockTypeOK, LockShape, LockShapeAt, Owns, release_nr
<1>3. MutualExclusion'
  BY <1>2 DEF LockInv, MutualExclusion, release_nr
<1>4. LockShape'
  <2> SUFFICES ASSUME NEW k \in Lock, NEW t \in Thread
               PROVE  LockShapeAt(k, t)'
    BY DEF LockShape, LockShapeAt
  <2>1. LockShapeAt(k, t) /\ LockShapeAt(k, cur) /\ held[<<t, k>>] \in Nat
    BY DEF LockInv, LockShape, LockShapeAt, LockTypeOK
  <2>2. CASE k # l
    BY <2>1, <2>2 DEF LockInv, LockTypeOK, LockShapeAt, release_nr
  <2>3. CASE k = l /\ t = cur
    BY <2>1, <2>3, OwnerFacts DEF LockInv, LockTypeOK, LockShapeAt, Owns, release_nr
  <2>4. CASE k = l /\ t # cur
    <3>1. ~ Owns(t, l) /\ value[l] # 1
      BY <2>4, OwnerFacts DEF Owns, release_nr
    <3> QED BY <2>1, <2>4, <3>1 DEF LockInv, LockTypeOK, LockShapeAt, Owns, release_nr
  <2> QED BY <2>2, <2>3, <2>4
<1>5. IdleOutside'
  BY DEF LockInv, LockTypeOK, IdleOutside, release_nr
<1> QED BY <1>1, <1>3, <1>4, <1>5 DEF LockInv

LEMMA AcquireNrLemma ==
    ASSUME LockInv, cur \in Thread, NEW l \in Lock, want[cur] = l, acquire_nr(l)
    PROVE  LockInv'
<1> USE ThreadAssumption, LockAssumption
<1>0. /\ LockTypeOK
      /\ held[<<cur, l>>] = 0 /\ holder[l] = cur /\ value[l] = 0
      /\ \A t \in Thread : Owns(t, l) => t = cur
  BY OwnerFacts DEF LockInv, LockTypeOK, LockShape, LockShapeAt, Owns, acquire_nr
<1>1. /\ LockTypeOK'
      /\ \A t \in Thread, k \in Lock :
            held'[<<t, k>>] = IF t = cur /\ k = l THEN 1 ELSE held[<<t, k>>]
  BY <1>0 DEF LockTypeOK, acquire_nr, PC
<1>2. \A t \in Thread, k \in Lock : Owns(t, k)' <=> Owns(t, k)
  <2> SUFFICES ASSUME NEW t \in Thread, NEW k \in Lock
               PROVE  Owns(t, k)' <=> Owns(t, k)
    OBVIOUS
  <2>1. CASE t = cur /\ k = l
    BY <1>0, <1>1, <2>1 DEF LockTypeOK, Owns, acquire_nr
  <2>2. CASE ~ (t = cur /\ k = l)
    <3>1. held'[<<t, k>>] = held[<<t, k>>]
      BY <1>1, <2>2
    <3> QED BY <1>0, <2>2, <3>1 DEF LockTypeOK, Owns, acquire_nr
  <2> QED BY <2>1, <2>2
<1>3. MutualExclusion'
  BY <1>2 DEF LockInv, MutualExclusion, acquire_nr
<1>4. LockShape'
  <2> SUFFICES ASSUME NEW k \in Lock, NEW t \in Thread
               PROVE  LockShapeAt(k, t)'
    BY DEF LockShape, LockShapeAt
  <2>1. LockShapeAt(k, t) /\ held[<<t, k>>] \in Nat
    BY <1>0 DEF LockInv, LockShape, LockTypeOK
  <2>2. CASE k # l
    BY <1>0, <1>1, <2>1, <2>2 DEF LockTypeOK, LockShapeAt, acquire_nr
  <2>3. CASE k = l /\ t = cur
    BY <1>0, <1>1, <2>1, <2>3 DEF LockTypeOK, LockShapeAt, acquire_nr
  <2>4. CASE k = l /\ t # cur
    BY <1>0, <1>1, <2>1, <2>4 DEF LockTypeOK, LockShapeAt, Owns, acquire_nr
  <2> QED BY <2>2, <2>3, <2>4
<1>5. IdleOutside'
  BY <1>0, <1>1 DEF LockInv, LockTypeOK, IdleOutside, acquire_nr
<1> QED BY <1>1, <1>3, <1>4, <1>5 DEF LockInv

LEMMA AcquireLemma ==
    ASSUME LockInv, cur \in Thread, NEW l \in Lock, lock_acquire(l)
    PROVE  LockInv'
<1> USE ThreadAssumption, LockAssumption
<1>1. CASE holder[l] # cur
  <2>0. /\ LockTypeOK /\ held[<<cur, l>>] = 0
        /\ pc' = [pc EXCEPT ![cur] = "down"] /\ want' = [want EXCEPT ![cur] = l]
        /\ UNCHANGED <<value, holder, holder_repeat_nr, held>>
        /\ cur # idle_thread /\ pc[cur] = "run"
    BY <1>1 DEF LockInv, LockTypeOK, LockShape, LockShapeAt, lock_acquire
  <2>1. LockTypeOK'
    BY <2>0 DEF LockTypeOK, PC
  <2>2. \A t \in Thread, k \in Lock : Owns(t, k)' <=> Owns(t, k)
    BY <2>0 DEF LockTypeOK, Owns
  <2>3. MutualExclusion'
    BY <2>0, <2>2 DEF LockInv, MutualExclusion
  <2>4. LockShape'
    <3> SUFFICES ASSUME NEW k \in Lock, NEW t \in Thread
                 PROVE  LockShapeAt(k, t)'
      BY DEF LockShape, LockShapeAt
    <3>1. LockShapeAt(k, t)
      BY DEF LockInv, LockShape
    <3> QED BY <2>0, <3>1 DEF LockTypeOK, LockShapeAt
  <2>5. IdleOutside'
    BY <2>0 DEF LockInv, LockTypeOK, IdleOutside
  <2> QED BY <2>1, <2>3, <2>4, <2>5 DEF LockInv
<1>2. CASE holder[l] = cur
  <2>0. /\ LockTypeOK
        /\ holder_repeat_nr' = [holder_repeat_nr EXCEPT ![l] = @ + 1]
        /\ held' = [held EXCEPT ![<<cur, l>>] = @ + 1]
        /\ UNCHANGED <<value, holder, pc, want>>
        /\ cur # idle_thread /\ pc[cur] = "run"
    BY <1>2 DEF LockInv, lock_acquire
  <2>1. \E u \in Thread : Owns(u, l)
    <3>1. value[l] # 1
      BY <1>2 DEF LockInv, LockShape, LockShapeAt
    <3> QED BY <2>0, <3>1 DEF LockInv, LockTypeOK, MutualExclusion
  <2>2. held[<<cur, l>>] > 0 /\ Owns(cur, l)
    <3>1. PICK u \in Thread : Owns(u, l)
      BY <2>1
    <3>2. LockShapeAt(l, u)
      BY DEF LockInv, LockShape
    <3> QED BY <1>2, <2>0, <3>1, <3>2 DEF LockShapeAt, Owns, LockTypeOK
  <2>3. /\ LockTypeOK'
        /\ \A t \in Thread, k \in Lock :
              held'[<<t, k>>] = IF t = cur /\ k = l THEN held[<<t, k>>] + 1 ELSE held[<<t, k>>]
    <3>1. held' \in [Thread \X Lock -> Nat]
      <4>1. held[<<cur, l>>] + 1 \in Nat
        BY <2>0 DEF LockTypeOK
      <4> QED BY <2>0, <4>1 DEF LockTypeOK
    <3>2. holder_repeat_nr' \in [Lock -> Nat]
      BY <2>0 DEF LockTypeOK
    <3>3. LockTypeOK'
      BY <2>0, <3>1, <3>2 DEF LockTypeOK
    <3>4. \A t \in Thread, k \in Lock :
             held'[<<t, k>>] = IF t = cur /\ k = l THEN held[<<t, k>>] + 1 ELSE held[<<t, k>>]
      BY <2>0 DEF LockTypeOK
    <3> QED BY <3>3, <3>4
  <2>4. \A t \in Thread, k \in Lock : Owns(t, k)' <=> Owns(t, k)
    <3> SUFFICES ASSUME NEW t \in Thread, NEW k \in Lock
                 PROVE  Owns(t, k)' <=> Owns(t, k)
      OBVIOUS
    <3>1. held[<<t, k>>] \in Nat
      BY <2>0 DEF LockTypeOK
    <3>2. held'[<<t, k>>] > 0 <=> held[<<t, k>>] > 0
      BY <2>2, <2>3, <3>1
    <3> QED BY <2>0, <3>2 DEF Owns
  <2>5. MutualExclusion'
    BY <2>0, <2>4 DEF LockInv, MutualExclusion
  <2>6. LockShape'
    <3> SUFFICES ASSUME NEW k \in Lock, NEW t \in Thread
                 PROVE  LockShapeAt(k, t)'
      BY DEF LockShape, LockShapeAt
    <3>1. LockShapeAt(k, t) /\ held[<<t, k>>] \in Nat /\ holder_repeat_nr[k] \in Nat
      BY <2>0 DEF LockInv, LockShape, LockTypeOK
    <3>2. CASE k # l
      BY <2>0, <2>3, <3>1, <3>2 DEF LockTypeOK, LockShapeAt
    <3>3. CASE k = l /\ t = cur
      BY <1>2, <2>0, <2>2, <2>3, <3>1, <3>3 DEF LockTypeOK, LockShapeAt
    <3>4. CASE k = l /\ t # cur
      <4>1. ~ Owns(t, k)
        BY <2>2, <3>4, OwnerFacts
      <4>2. value[k] # 1
        BY <1>2, <3>1, <3>4 DEF LockShapeAt
      <4> QED BY <2>0, <2>3, <3>1, <3>4, <4>1, <4>2 DEF LockTypeOK, LockShapeAt, Owns
    <3> QED BY <3>2, <3>3, <3>4
  <2>7. IdleOutside'
    BY <2>0, <2>3 DEF LockInv, LockTypeOK, IdleOutside
  <2> QED BY <2>3, <2>5, <2>6, <2>7 DEF LockInv
<1> QED BY <1>1, <1>2

LEMMA ReleaseLemma ==
    ASSUME LockInv, cur \in Thread, NEW l \in Lock, lock_release(l)
    PROVE  LockInv'
<1> USE ThreadAssumption, LockAssumption
<1>0. /\ LockTypeOK
      /\ pc[cur] = "run" /\ held[<<cur, l>>] > 0 /\ Owns(cur, l)
      /\ holder[l] = cur /\ holder_repeat_nr[l] = held[<<cur, l>>]
      /\ held' = [held EXCEPT ![<<cur, l>>] = @ - 1]
      /\ UNCHANGED value
      /\ \A t \in Thread : Owns(t, l) => t = cur
      /\ value[l] # 1
      /\ cur # idle_thread
  BY OwnerFacts DEF LockInv, LockTypeOK, LockShape, LockShapeAt, IdleOutside, Owns, lock_release
<1>1. \A t \in Thread, k \in Lock :
         held'[<<t, k>>] = IF t = cur /\ k = l THEN held[<<t, k>>] - 1 ELSE held[<<t, k>>]
  BY <1>0 DEF LockTypeOK
<1>2. LockTypeOK'
  <2>1. held' \in [Thread \X Lock -> Nat]
    <3>1. held[<<cur, l>>] - 1 \in Nat
      BY <1>0 DEF LockTypeOK
    <3> QED BY <1>0, <3>1 DEF LockTypeOK
  <2>2. holder_repeat_nr' \in [Lock -> Nat]
    BY <1>0 DEF LockTypeOK, lock_release
  <2>3. /\ value' \in [Lock -> 0..1] /\ want' \in [Thread -> Lock]
        /\ holder' \in [Lock -> Thread \cup {NULL}]
    BY <1>0 DEF LockTypeOK, lock_release
  <2>4. pc' \in [Thread -> PC]
    BY <1>0 DEF LockTypeOK, lock_release, PC
  <2> QED BY <2>1, <2>2, <2>3, <2>4 DEF LockTypeOK
<1>3. \A t \in Thread, k \in Lock : Owns(t, k)' <=> Owns(t, k)
  <2> SUFFICES ASSUME NEW t \in Thread, NEW k \in Lock
               PROVE  Owns(t, k)' <=> Owns(t, k)
    OBVIOUS
  <2>1. CASE holder_repeat_nr[l] > 1
    <3>1. held[<<t, k>>] \in Nat /\ UNCHANGED <<pc, want>>
      BY <1>0, <2>1 DEF LockTypeOK, lock_release
    <3>2. held'[<<t, k>>] > 0 <=> held[<<t, k>>] > 0
      BY <1>0, <1>1, <2>1, <3>1
    <3> QED BY <3>1, <3>2 DEF Owns
  <2>2. CASE holder_repeat_nr[l] <= 1
    <3>1. /\ pc' = [pc EXCEPT ![cur] = "rel"] /\ want' = [want EXCEPT ![cur] = l]
      BY <1>0, <2>2 DEF LockTypeOK, lock_release
    <3>2. CASE t = cur /\ k = l
      BY <1>0, <3>1, <3>2 DEF LockTypeOK, Owns
    <3>3. CASE ~ (t = cur /\ k = l)
      <4>1. held'[<<t, k>>] = held[<<t, k>>]
        BY <1>1, <3>3
      <4> QED BY <1>0, <3>1, <3>3, <4>1 DEF LockTypeOK, Owns
    <3> QED BY <3>2, <3>3
  <2>3. holder_repeat_nr[l] \in Nat
    BY <1>0 DEF LockTypeOK
  <2> QED BY <2>1, <2>2, <2>3
<1>4. MutualExclusion'
  BY <1>0, <1>3 DEF LockInv, MutualExclusion
<1>5. LockShape'
  <2> SUFFICES ASSUME NEW k \in Lock, NEW t \in Thread
               PROVE  LockShapeAt(k, t)'
    BY DEF LockShape, LockShapeAt
  <2>1. LockShapeAt(k, t) /\ held[<<t, k>>] \in Nat /\ holder_repeat_nr[k] \in Nat
    BY <1>0 DEF LockInv, LockShape, LockTypeOK
  <2>2. CASE k # l
    BY <1>0, <1>1, <2>1, <2>2 DEF LockTypeOK, LockShapeAt, lock_release
  <2>3. CASE k = l /\ t = cur
    BY <1>0, <1>1, <2>1, <2>3 DEF LockTypeOK, LockShapeAt, lock_release
  <2>4. CASE k = l /\ t # cur
    BY <1>0, <1>1, <2>1, <2>4 DEF LockTypeOK, LockShapeAt, Owns, lock_release
  <2> QED BY <2>2, <2>3, <2>4
<1>6. IdleOutside'
  BY <1>0, <1>1 DEF LockInv, LockTypeOK, IdleOutside, lock_release
<1> QED BY <1>2, <1>4, <1>5, <1>6 DEF LockInv

\* sema_down takes the semaphore, at its first test or at a later one.
LEMMA TakeLemma ==
    ASSUME LockInv, cur \in Thread, NEW l \in Lock, want[cur] = l,
           pc[cur] \in {"down", "wait"}, value[l] # 0,
           value' = [value EXCEPT ![l] = Lowered(l)],
           pc' = [pc EXCEPT ![cur] = "own"],
           UNCHANGED <<holder, holder_repeat_nr, want, held>>
    PROVE  LockInv'
<1> USE ThreadAssumption, LockAssumption
<1>0. /\ LockTypeOK /\ value[l] = 1
      /\ value' = [value EXCEPT ![l] = 0]
      /\ \A t \in Thread : ~ Owns(t, l)
      /\ holder[l] = NULL /\ holder_repeat_nr[l] = 0
      /\ cur # idle_thread
  <2>1. value[l] = 1 /\ LockTypeOK
    BY OwnerFacts DEF LockInv
  <2>2. Lowered(l) = 0
    BY <2>1 DEF Lowered
  <2> QED BY <2>1, <2>2, OwnerFacts DEF LockInv, LockShape, LockShapeAt, IdleOutside
<1>1. LockTypeOK'
  BY <1>0 DEF LockTypeOK, PC
<1>2. \A t \in Thread, k \in Lock : Owns(t, k)' <=> (Owns(t, k) \/ (t = cur /\ k = l))
  BY <1>0 DEF LockTypeOK, Owns
<1>3. MutualExclusion'
  BY <1>0, <1>2 DEF LockInv, MutualExclusion, LockTypeOK
<1>4. LockShape'
  <2> SUFFICES ASSUME NEW k \in Lock, NEW t \in Thread
               PROVE  LockShapeAt(k, t)'
    BY DEF LockShape, LockShapeAt
  <2>1. LockShapeAt(k, t)
    BY DEF LockInv, LockShape
  <2>2. CASE k # l
    BY <1>0, <2>1, <2>2 DEF LockTypeOK, LockShapeAt
  <2>3. CASE k = l
    BY <1>0, <2>1, <2>3 DEF LockTypeOK, LockShapeAt
  <2> QED BY <2>2, <2>3
<1>5. IdleOutside'
  BY <1>0 DEF LockInv, LockTypeOK, IdleOutside
<1> QED BY <1>1, <1>3, <1>4, <1>5 DEF LockInv

\* sema_down appends the caller to the waiters.
LEMMA EnqueueLemma ==
    ASSUME LockInv, cur \in Thread, NEW l \in Lock, want[cur] = l,
           pc[cur] \in {"down", "wait"}, Enqueue(l)
    PROVE  LockInv'
<1> USE ThreadAssumption, LockAssumption
<1>0. /\ LockTypeOK /\ pc' = [pc EXCEPT ![cur] = "wait"]
      /\ UNCHANGED <<value, holder, holder_repeat_nr, want, held>>
  BY DEF LockInv, Enqueue
<1>1. LockTypeOK'
  BY <1>0 DEF LockTypeOK, PC
<1>2. \A t \in Thread, k \in Lock : Owns(t, k)' <=> Owns(t, k)
  BY <1>0 DEF LockTypeOK, Owns
<1>3. MutualExclusion'
  BY <1>0, <1>2 DEF LockInv, MutualExclusion
<1>4. LockShape'
  <2> SUFFICES ASSUME NEW k \in Lock, NEW t \in Thread
               PROVE  LockShapeAt(k, t)'
    BY DEF LockShape, LockShapeAt
  <2>1. LockShapeAt(k, t)
    BY DEF LockInv, LockShape
  <2> QED BY <1>0, <2>1 DEF LockTypeOK, LockShapeAt
<1>5. IdleOutside'
  BY <1>0 DEF LockInv, LockTypeOK, IdleOutside
<1> QED BY <1>1, <1>3, <1>4, <1>5 DEF LockInv

LEMMA UpLemma ==
    ASSUME LockInv, cur \in Thread, NEW l \in Lock, want[cur] = l, sema_up(l)
    PROVE  LockInv'
<1> USE ThreadAssumption, LockAssumption
<1>0. /\ LockTypeOK /\ pc[cur] = "up"
      /\ value[l] = 0
      /\ value' = [value EXCEPT ![l] = 1]
      /\ pc' = [pc EXCEPT ![cur] = "run"]
      /\ UNCHANGED <<holder, holder_repeat_nr, want, held>>
      /\ holder[l] = NULL /\ holder_repeat_nr[l] = 0 /\ held[<<cur, l>>] = 0
      /\ \A t \in Thread : Owns(t, l) => t = cur
  <2>1. LockTypeOK /\ pc[cur] = "up" /\ Owns(cur, l)
    BY DEF LockInv, sema_up, Owns
  <2>2. value[l] = 0
    BY <2>1, OwnerFacts
  <2>3. Raised(l) = 1
    BY <2>2 DEF Raised
  <2>4. LockShapeAt(l, cur)
    BY DEF LockInv, LockShape
  <2> QED BY <2>1, <2>2, <2>3, <2>4, OwnerFacts DEF sema_up, LockShapeAt
<1>1. LockTypeOK'
  BY <1>0 DEF LockTypeOK, PC
<1>2. \A t \in Thread, k \in Lock : Owns(t, k)' <=> (Owns(t, k) /\ k # l)
  BY <1>0 DEF LockTypeOK, Owns
<1>3. MutualExclusion'
  BY <1>0, <1>2 DEF LockInv, MutualExclusion, LockTypeOK
<1>4. LockShape'
  <2> SUFFICES ASSUME NEW k \in Lock, NEW t \in Thread
               PROVE  LockShapeAt(k, t)'
    BY DEF LockShape, LockShapeAt
  <2>1. LockShapeAt(k, t)
    BY DEF LockInv, LockShape
  <2>2. CASE k # l
    BY <1>0, <2>1, <2>2 DEF LockTypeOK, LockShapeAt
  <2>3. CASE k = l
    BY <1>0, <2>1, <2>3 DEF LockTypeOK, LockShapeAt, Owns
  <2> QED BY <2>2, <2>3
<1>5. IdleOutside'
  BY <1>0 DEF LockInv, LockTypeOK, IdleOutside
<1> QED BY <1>1, <1>3, <1>4, <1>5 DEF LockInv

----------------------------------------------------------------------------
(* The wakeup part of the invariant.                                        *)

\* Nothing that concerns the waiters changes while the running thread passes
\* through lock_acquire and lock_release without touching its semaphore.
LEMMA QuietWake ==
    ASSUME SchedInv, SyncTypeOK, WakeInv, pc[cur] # "wait",
           pc' \in [Thread -> PC], want' \in [Thread -> Lock],
           pc'[cur] # "wait",
           \A t \in Thread : t # cur => pc'[t] = pc[t] /\ want'[t] = want[t],
           \A l \in Lock : value'[l] = 1 => value[l] = 1,
           UNCHANGED <<waiters, status>>
    PROVE  WakeInv'
<1>0. cur \in Thread /\ status[cur] = "TASK_RUNNING"
  BY DEF SchedInv, SchedTypeOK, ReadyExact
<1>1. WaitersAsleep'
  BY <1>0 DEF WakeInv, WaitersAsleep
<1>2. NoLostWakeup'
  BY <1>0 DEF WakeInv, NoLostWakeup
<1> QED BY <1>1, <1>2 DEF WakeInv

\* A woken thread that finds the semaphore up takes it.
LEMMA TakeAgainWake ==
    ASSUME SchedInv, SyncTypeOK, WakeInv, NEW l \in Lock, want[cur] = l,
           pc[cur] = "wait", value[l] # 0,
           value' = [value EXCEPT ![l] = Lowered(l)],
           pc' = [pc EXCEPT ![cur] = "own"],
           UNCHANGED <<waiters, status, want>>
    PROVE  WakeInv'
<1>0. /\ cur \in Thread /\ status[cur] = "TASK_RUNNING"
      /\ value' = [value EXCEPT ![l] = 0]
  <2>1. value[l] = 1
    BY DEF SyncTypeOK, LockTypeOK
  <2>2. Lowered(l) = 0
    BY <2>1 DEF Lowered
  <2> QED BY <2>2 DEF SchedInv, SchedTypeOK, ReadyExact
<1>1. WaitersAsleep'
  BY <1>0 DEF WakeInv, WaitersAsleep, SyncTypeOK, LockTypeOK
<1>2. NoLostWakeup'
  BY <1>0 DEF WakeInv, NoLostWakeup, SyncTypeOK, LockTypeOK
<1> QED BY <1>1, <1>2 DEF WakeInv

\* The caller of sema_down goes to sleep in the list of waiters.
LEMMA EnqueueWake ==
    ASSUME SchedInv, SyncTypeOK, LockInv, WakeInv, NEW l \in Lock, want[cur] = l,
           pc[cur] \in {"down", "wait"}, Enqueue(l)
    PROVE  WakeInv' /\ waiters' \in [Lock -> Seq(Thread)]
<1>0. /\ cur \in Thread /\ status[cur] = "TASK_RUNNING"
      /\ cur # idle_thread
      /\ pc[idle_thread] = "run"
      /\ value[l] = 0
      /\ pc' = [pc EXCEPT ![cur] = "wait"]
      /\ waiters' = [waiters EXCEPT ![l] = Append(waiters[l], cur)]
      /\ UNCHANGED <<value, want>>
  BY DEF SchedInv, SchedTypeOK, ReadyExact, LockInv, IdleOutside, Enqueue, list_append
<1>1. /\ status'[cur] = "TASK_BLOCKED"
      /\ \A t \in Thread \ {cur, idle_thread} :
            /\ status[t] \notin {"TASK_READY", "TASK_RUNNING"} => status'[t] = status[t]
            /\ status[t] \in {"TASK_READY", "TASK_RUNNING"} =>
                  status'[t] \in {"TASK_READY", "TASK_RUNNING"}
  BY <1>0, BlockStatus DEF Enqueue, Stopped, IntrStatus
<1>2. ~ elem_find(waiters[l], cur) /\ NoDup(waiters[l]) /\ waiters[l] \in Seq(Thread)
  BY <1>0 DEF WakeInv, WaitersAsleep, SyncTypeOK
<1>3. /\ waiters'[l] \in Seq(Thread)
      /\ NoDup(waiters'[l])
      /\ \A y \in Thread : elem_find(waiters'[l], y) <=> (elem_find(waiters[l], y) \/ y = cur)
      /\ \A k \in Lock : k # l => waiters'[k] = waiters[k]
  <2>1. waiters'[l] = Append(waiters[l], cur)
    BY <1>0 DEF SyncTypeOK
  <2>2. \A k \in Lock : k # l => waiters'[k] = waiters[k]
    BY <1>0 DEF SyncTypeOK
  <2> QED BY <1>0, <1>2, <2>1, <2>2, AppendLemma
<1>4. waiters' \in [Lock -> Seq(Thread)]
  BY <1>0, <1>2, AppendLemma DEF SyncTypeOK
<1>5. \A t \in Thread : pc'[t] = IF t = cur THEN "wait" ELSE pc[t]
  BY <1>0 DEF SyncTypeOK, LockTypeOK
<1>6. WaitersAsleep'
  <2> SUFFICES ASSUME NEW k \in Lock
               PROVE  /\ NoDup(waiters'[k])
                      /\ \A t \in Thread : elem_find(waiters'[k], t) =>
                            status'[t] = "TASK_BLOCKED" /\ pc'[t] = "wait" /\ want'[t] = k
    BY DEF WaitersAsleep
  <2>1. NoDup(waiters'[k])
    BY <1>3 DEF WakeInv, WaitersAsleep
  <2>2. ASSUME NEW t \in Thread, elem_find(waiters'[k], t)
        PROVE  status'[t] = "TASK_BLOCKED" /\ pc'[t] = "wait" /\ want'[t] = k
    <3>1. CASE t = cur
      <4>1. k = l
        BY <1>0, <1>3, <2>2, <3>1 DEF WakeInv, WaitersAsleep
      <4> QED BY <1>0, <1>1, <1>5, <3>1, <4>1
    <3>2. CASE t # cur
      <4>1. status[t] = "TASK_BLOCKED" /\ pc[t] = "wait" /\ want[t] = k
        BY <1>3, <2>2, <3>2 DEF WakeInv, WaitersAsleep
      <4> QED BY <1>0, <1>1, <1>5, <3>2, <4>1
    <3> QED BY <3>1, <3>2
  <2> QED BY <2>1, <2>2
<1>7. NoLostWakeup'
  <2>1. ASSUME NEW t \in Thread, pc'[t] = "wait", status'[t] = "TASK_BLOCKED"
        PROVE  elem_find(waiters'[want'[t]], t)
    <3>1. CASE t = cur
      BY <1>0, <1>3, <3>1
    <3>2. CASE t # cur
      <4>1. pc[t] = "wait" /\ t # idle_thread /\ want[t] \in Lock
        BY <1>0, <1>5, <2>1, <3>2 DEF SyncTypeOK, LockTypeOK
      <4>2. status[t] = "TASK_BLOCKED"
        BY <1>1, <2>1, <3>2, <4>1
      <4>3. elem_find(waiters[want[t]], t)
        BY <4>1, <4>2 DEF WakeInv, NoLostWakeup
      <4> QED BY <1>0, <1>3, <4>1, <4>3
    <3> QED BY <3>1, <3>2
  <2>2. ASSUME NEW k \in Lock, value'[k] = 1, waiters'[k] # <<>>
        PROVE  \E t \in Thread : /\ pc'[t] = "wait" /\ want'[t] = k
                                 /\ status'[t] \in {"TASK_READY", "TASK_RUNNING"}
    <3>1. k # l /\ value[k] = 1 /\ waiters[k] # <<>>
      BY <1>0, <1>3, <2>2
    <3>2. PICK t \in Thread : /\ pc[t] = "wait" /\ want[t] = k
                              /\ status[t] \in {"TASK_READY", "TASK_RUNNING"}
      BY <3>1 DEF WakeInv, NoLostWakeup
    <3>3. t # cur /\ t # idle_thread
      BY <1>0, <3>1, <3>2
    <3> QED BY <1>0, <1>1, <1>5, <3>2, <3>3
  <2> QED BY <2>1, <2>2 DEF NoLostWakeup
<1> QED BY <1>4, <1>6, <1>7 DEF WakeInv

\* sema_up wakes the thread that has waited longest.
LEMMA UpWake ==
    ASSUME SchedInv, SyncTypeOK, LockInv, WakeInv, NEW l \in Lock, want[cur] = l, sema_up(l)
    PROVE  /\ WakeInv' /\ waiters' \in [Lock -> Seq(Thread)]
           /\ [SchedNext]_schedVars
<1>0. /\ cur \in Thread /\ status[cur] = "TASK_RUNNING"
      /\ pc[idle_thread] = "run"
      /\ pc[cur] = "up"
      /\ pc' = [pc EXCEPT ![cur] = "run"]
      /\ UNCHANGED want
      /\ \A t \in Thread : pc'[t] = IF t = cur THEN "run" ELSE pc[t]
      /\ \A k \in Lock : k # l => value'[k] = value[k]
  BY DEF SchedInv, SchedTypeOK, ReadyExact, LockInv, IdleOutside, sema_up, SyncTypeOK, LockTypeOK
<1>1. CASE waiters[l] = <<>>
  <2>1. UNCHANGED schedVars /\ UNCHANGED waiters
    BY <1>1 DEF sema_up
  <2>2. WaitersAsleep'
    BY <1>0, <2>1 DEF WakeInv, WaitersAsleep, schedVars
  <2>3. NoLostWakeup'
    BY <1>0, <1>1, <2>1 DEF WakeInv, NoLostWakeup, schedVars
  <2> QED BY <2>1, <2>2, <2>3 DEF WakeInv, SyncTypeOK
<1>2. CASE waiters[l] # <<>>
  <2> DEFINE h == Head(waiters[l])
  <2>1. /\ waiters' = [waiters EXCEPT ![l] = Tail(waiters[l])]
        /\ status' = [status EXCEPT ![h] = "TASK_READY"]
        /\ thread_unblock(h)
        /\ UNCHANGED <<ticks, cur, intr, saved>>
    BY <1>2 DEF sema_up, Popped, thread_unblock
  <2>2. NoDup(waiters[l]) /\ waiters[l] \in Seq(Thread)
    BY DEF WakeInv, WaitersAsleep, SyncTypeOK
  <2>3. /\ h \in Thread
        /\ elem_find(waiters[l], h)
        /\ Tail(waiters[l]) \in Seq(Thread)
        /\ NoDup(Tail(waiters[l]))
        /\ \A y \in Thread : elem_find(Tail(waiters[l]), y) <=> (elem_find(waiters[l], y) /\ y # h)
    BY <1>2, <2>2, PopLemma
  <2> HIDE DEF h
  <2>4. /\ waiters'[l] = Tail(waiters[l])
        /\ \A k \in Lock : k # l => waiters'[k] = waiters[k]
        /\ waiters' \in [Lock -> Seq(Thread)]
    BY <2>1, <2>3 DEF SyncTypeOK
  <2>5. /\ status[h] = "TASK_BLOCKED" /\ pc[h] = "wait" /\ want[h] = l
        /\ h # cur /\ h # idle_thread
        /\ \A t \in Thread : status'[t] = IF t = h THEN "TASK_READY" ELSE status[t]
    BY <1>0, <2>1, <2>3 DEF WakeInv, WaitersAsleep, SchedInv, SchedTypeOK
  <2>6. [SchedNext]_schedVars
    BY <2>1, <2>3, <2>5 DEF SchedNext, Unblock, Stopped
  <2>7. WaitersAsleep'
    <3> SUFFICES ASSUME NEW k \in Lock
                 PROVE  /\ NoDup(waiters'[k])
                        /\ \A t \in Thread : elem_find(waiters'[k], t) =>
                              status'[t] = "TASK_BLOCKED" /\ pc'[t] = "wait" /\ want'[t] = k
      BY DEF WaitersAsleep
    <3>1. NoDup(waiters'[k])
      BY <2>3, <2>4 DEF WakeInv, WaitersAsleep
    <3>2. ASSUME NEW t \in Thread, elem_find(waiters'[k], t)
          PROVE  status'[t] = "TASK_BLOCKED" /\ pc'[t] = "wait" /\ want'[t] = k
      <4>1. elem_find(waiters[k], t) /\ (k = l => t # h)
        BY <2>3, <2>4, <3>2
      <4>2. status[t] = "TASK_BLOCKED" /\ pc[t] = "wait" /\ want[t] = k
        BY <4>1 DEF WakeInv, WaitersAsleep
      <4>3. t # h /\ t # cur
        BY <1>0, <2>5, <4>1, <4>2
      <4> QED BY <1>0, <2>5, <4>2, <4>3
    <3> QED BY <3>1, <3>2
  <2>8. NoLostWakeup'
    <3>1. ASSUME NEW t \in Thread, pc'[t] = "wait", status'[t] = "TASK_BLOCKED"
          PROVE  elem_find(waiters'[want'[t]], t)
      <4>1. t # h /\ pc[t] = "wait" /\ status[t] = "TASK_BLOCKED" /\ want[t] \in Lock
        BY <1>0, <2>5, <3>1 DEF SyncTypeOK, LockTypeOK
      <4>2. elem_find(waiters[want[t]], t)
        BY <4>1 DEF WakeInv, NoLostWakeup
      <4> QED BY <1>0, <2>3, <2>4, <4>1, <4>2
    <3>2. ASSUME NEW k \in Lock, value'[k] = 1, waiters'[k] # <<>>
          PROVE  \E t \in Thread : /\ pc'[t] = "wait" /\ want'[t] = k
                                   /\ status'[t] \in {"TASK_READY", "TASK_RUNNING"}
      <4>1. CASE k = l
        BY <1>0, <2>3, <2>5, <4>1
      <4>2. CASE k # l
        <5>1. PICK t \in Thread : /\ pc[t] = "wait" /\ want[t] = k
                                  /\ status[t] \in {"TASK_READY", "TASK_RUNNING"}
          BY <1>0, <2>4, <3>2, <4>2 DEF WakeInv, NoLostWakeup
        <5> QED BY <1>0, <2>5, <5>1
      <4> QED BY <4>1, <4>2
    <3> QED BY <3>1, <3>2 DEF NoLostWakeup
  <2> QED BY <2>4, <2>6, <2>7, <2>8 DEF WakeInv
<1> QED BY <1>1, <1>2

\* What the steps outside sync.c may do to a status: put nobody to sleep as
\* TASK_BLOCKED, wake nobody who is, and leave the threads inside sync.c awake.
StatusKept ==
    \A t \in Thread \ {idle_thread} :
        /\ status'[t] = "TASK_BLOCKED" <=> status[t] = "TASK_BLOCKED"
        /\ pc[t] # "run" /\ status[t] \in {"TASK_READY", "TASK_RUNNING"} =>
              status'[t] \in {"TASK_READY", "TASK_RUNNING"}

LEMMA OtherStatus ==
    ASSUME SchedInv, OtherStep
    PROVE  StatusKept /\ [SchedNext]_schedVars
<1> USE ThreadAssumption
<1>0. cur \in Thread /\ status[cur] = "TASK_RUNNING" /\ SchedTypeOK
  BY DEF SchedInv, SchedTypeOK, ReadyExact
<1>1. CASE intr_timer_handler
  BY <1>1, TimerStatus DEF StatusKept, KeptStatus, Awake, SchedNext
<1>2. CASE Idle
  BY <1>2, IdleStatus DEF StatusKept, KeptStatus, Awake, SchedNext
<1>3. CASE pc[cur] = "run" /\ Yield
  BY <1>3, YieldStatus DEF StatusKept, KeptStatus, Awake, SchedNext
<1>4. CASE pc[cur] = "run" /\ (IntrDisable \/ IntrEnable)
  BY <1>4 DEF IntrDisable, IntrEnable, StatusKept, SchedNext
<1>5. CASE pc[cur] = "run" /\ Block("TASK_WAITING", intr)
  <2>1. "TASK_WAITING" \in Stopped /\ intr \in IntrStatus
    BY <1>0 DEF Stopped, SchedTypeOK
  <2> QED BY <1>0, <1>5, <2>1, BlockStatus DEF Block, StatusKept, SchedNext
<1>6. CASE pc[cur] = "run" /\ ExitSelf
  BY <1>0, <1>6, ExitSelfStatus DEF StatusKept, KeptStatus, Awake, SchedNext
<1>7. CASE \E t \in Thread : pc[cur] = "run" /\ Start(t)
  BY <1>0, <1>7 DEF Start, thread_start, StatusKept, SchedNext, SchedTypeOK
<1>8. CASE \E t \in Thread : status[t] = "TASK_WAITING" /\ Unblock(t)
  BY <1>0, <1>8 DEF Unblock, thread_unblock, StatusKept, SchedNext, SchedTypeOK
<1> QED BY <1>1, <1>2, <1>3, <1>4, <1>5, <1>6, <1>7, <1>8 DEF OtherStep

\* LockInv is about the variables of sync.c alone.
LEMMA LockStutter ==
    ASSUME SyncTypeOK, LockInv, UNCHANGED lockVars
    PROVE  SyncTypeOK' /\ LockInv'
<1>1. SyncTypeOK' /\ LockTypeOK'
  BY DEF lockVars, SyncTypeOK, LockTypeOK
<1>2. MutualExclusion'
  BY DEF lockVars, LockInv, MutualExclusion, Owns
<1>3. LockShape'
  BY DEF lockVars, LockInv, LockShape, LockShapeAt
<1>4. IdleOutside'
  BY DEF lockVars, LockInv, IdleOutside
<1> QED BY <1>1, <1>2, <1>3, <1>4 DEF LockInv

LEMMA OtherLemma ==
    ASSUME SyncInv, OtherStep
    PROVE  SyncTypeOK' /\ LockInv' /\ WakeInv'
<1>0. UNCHANGED lockVars /\ StatusKept
  BY OtherStatus DEF OtherStep, SyncInv
<1>1. SyncTypeOK' /\ LockInv'
  BY <1>0, LockStutter DEF SyncInv
<1>2. pc[idle_thread] = "run"
  BY DEF SyncInv, LockInv, IdleOutside
<1>3. WaitersAsleep'
  BY <1>0, <1>2 DEF SyncInv, WakeInv, WaitersAsleep, StatusKept, lockVars
<1>4. NoLostWakeup'
  BY <1>0, <1>2 DEF SyncInv, WakeInv, NoLostWakeup, StatusKept, lockVars
<1> QED BY <1>1, <1>3, <1>4 DEF WakeInv

----------------------------------------------------------------------------
(* One step of the code of sync.c.                                          *)
LEMMA LockStepLemma ==
    ASSUME SyncInv, LockStep
    PROVE  SyncTypeOK' /\ LockInv' /\ WakeInv' /\ [SchedNext]_schedVars
<1>0. /\ cur \in Thread /\ SchedInv /\ SyncTypeOK /\ LockInv /\ WakeInv
      /\ want[cur] \in Lock
  BY DEF SyncInv, SchedInv, SchedTypeOK, SyncTypeOK, LockTypeOK
<1>1. ASSUME LockInv',
             pc[cur] # "wait", pc'[cur] # "wait", UNCHANGED schedVars,
             \A t \in Thread : t # cur => pc'[t] = pc[t] /\ want'[t] = want[t],
             \A l \in Lock : value'[l] = 1 => value[l] = 1,
             UNCHANGED <<waiters, old_status>>
      PROVE  SyncTypeOK' /\ LockInv' /\ WakeInv' /\ [SchedNext]_schedVars
  <2>1. SyncTypeOK'
    BY <1>0, <1>1 DEF LockInv, SyncTypeOK
  <2>2. WakeInv'
    <3>1. pc' \in [Thread -> PC] /\ want' \in [Thread -> Lock]
      BY <2>1 DEF SyncTypeOK, LockTypeOK
    <3> QED BY <1>0, <1>1, <3>1, QuietWake DEF schedVars
  <2> QED BY <1>1, <2>1, <2>2
<1>2. ASSUME NEW l \in Lock, lock_acquire(l)
      PROVE  SyncTypeOK' /\ LockInv' /\ WakeInv' /\ [SchedNext]_schedVars
  <2>1. LockInv'
    BY <1>0, <1>2, AcquireLemma
  <2> QED BY <1>0, <1>1, <1>2, <2>1 DEF lock_acquire, SyncTypeOK, LockTypeOK
<1>3. ASSUME NEW l \in Lock, lock_release(l)
      PROVE  SyncTypeOK' /\ LockInv' /\ WakeInv' /\ [SchedNext]_schedVars
  <2>1. LockInv'
    BY <1>0, <1>3, ReleaseLemma
  <2> QED BY <1>0, <1>1, <1>3, <2>1 DEF lock_release, SyncTypeOK, LockTypeOK
<1> DEFINE l == want[cur]
<1>4. CASE acquire_holder(l)
  <2>1. LockInv'
    BY <1>0, <1>4, AcquireHolderLemma
  <2> QED BY <1>0, <1>1, <1>4, <2>1 DEF acquire_holder, SyncTypeOK, LockTypeOK
<1>5. CASE acquire_nr(l)
  <2>1. LockInv'
    BY <1>0, <1>5, AcquireNrLemma
  <2> QED BY <1>0, <1>1, <1>5, <2>1 DEF acquire_nr, SyncTypeOK, LockTypeOK
<1>6. CASE release_nr(l)
  <2>1. LockInv'
    BY <1>0, <1>6, ReleaseNrLemma
  <2> QED BY <1>0, <1>1, <1>6, <2>1 DEF release_nr, SyncTypeOK, LockTypeOK
<1>7. CASE sema_up(l)
  <2>1. LockInv'
    BY <1>0, <1>7, UpLemma
  <2>2. WakeInv' /\ waiters' \in [Lock -> Seq(Thread)] /\ [SchedNext]_schedVars
    BY <1>0, <1>7, UpWake
  <2>3. SyncTypeOK'
    BY <1>0, <1>7, <2>1, <2>2 DEF SyncTypeOK, LockInv, sema_up
  <2> QED BY <2>1, <2>2, <2>3
<1>8. ASSUME Enqueue(l), pc[cur] \in {"down", "wait"},
             old_status' \in [Thread -> IntrStatus]
      PROVE  SyncTypeOK' /\ LockInv' /\ WakeInv' /\ [SchedNext]_schedVars
  <2>1. LockInv'
    BY <1>0, <1>8, EnqueueLemma
  <2>2. WakeInv' /\ waiters' \in [Lock -> Seq(Thread)]
    BY <1>0, <1>8, EnqueueWake
  <2>3. SyncTypeOK'
    BY <1>8, <2>1, <2>2 DEF SyncTypeOK, LockInv
  <2>4. cur # idle_thread
    BY <1>0, <1>8 DEF LockInv, IdleOutside
  <2>5. Block("TASK_BLOCKED", "INTR_OFF")
    BY <1>8, <2>4 DEF Block, Enqueue, Stopped
  <2>6. "TASK_BLOCKED" \in Stopped /\ "INTR_OFF" \in IntrStatus
    BY DEF Stopped, IntrStatus
  <2> QED BY <2>1, <2>2, <2>3, <2>5, <2>6 DEF SchedNext
<1>9. CASE sema_down(l)
  <2>1. CASE Enqueue(l)
    <3>1. value[l] = 0
      BY <2>1 DEF Enqueue
    <3>2. old_status' \in [Thread -> IntrStatus]
      BY <1>0, <1>9, <3>1 DEF sema_down, SyncTypeOK, SchedInv, SchedTypeOK
    <3> QED BY <1>8, <1>9, <2>1, <3>2 DEF sema_down
  <2>2. CASE value[l] # 0
    <3>1. /\ value' = [value EXCEPT ![l] = Lowered(l)]
          /\ pc' = [pc EXCEPT ![cur] = "own"]
          /\ UNCHANGED schedVars
          /\ UNCHANGED <<waiters, holder, holder_repeat_nr, want, old_status, held>>
          /\ pc[cur] = "down"
      BY <1>9, <2>2 DEF sema_down, Enqueue
    <3>2. LockInv'
      BY <1>0, <2>2, <3>1, TakeLemma
    <3>3. value[l] = 1
      BY <1>0, <2>2 DEF SyncTypeOK, LockTypeOK
    <3>4. \A k \in Lock : value'[k] = 1 => value[k] = 1
      BY <1>0, <3>1, <3>3 DEF SyncTypeOK, LockTypeOK
    <3>5. /\ pc[cur] # "wait" /\ pc'[cur] # "wait"
          /\ \A t \in Thread : t # cur => pc'[t] = pc[t] /\ want'[t] = want[t]
      BY <1>0, <3>1 DEF SyncTypeOK, LockTypeOK
    <3> QED BY <1>1, <3>1, <3>2, <3>4, <3>5
  <2> QED BY <1>9, <2>1, <2>2 DEF sema_down
<1>10. CASE sema_down_again(l)
  <2>1. CASE Enqueue(l)
    <3>1. value[l] = 0
      BY <2>1 DEF Enqueue
    <3>2. old_status' \in [Thread -> IntrStatus]
      BY <1>0, <1>10, <3>1 DEF sema_down_again, SyncTypeOK
    <3> QED BY <1>8, <1>10, <2>1, <3>2 DEF sema_down_again
  <2>2. CASE value[l] # 0
    <3>1. /\ value' = [value EXCEPT ![l] = Lowered(l)]
          /\ pc' = [pc EXCEPT ![cur] = "own"]
          /\ intr' = old_status[cur]
          /\ UNCHANGED <<status, ready, ticks, cur, saved>>
          /\ UNCHANGED <<waiters, holder, holder_repeat_nr, want, old_status, held>>
          /\ pc[cur] = "wait"
      BY <1>10, <2>2 DEF sema_down_again, Enqueue
    <3>2. LockInv'
      BY <1>0, <2>2, <3>1, TakeLemma
    <3>3. WakeInv'
      BY <1>0, <2>2, <3>1, TakeAgainWake
    <3>4. SyncTypeOK'
      BY <1>0, <3>1, <3>2 DEF SyncTypeOK, LockInv
    <3>5. [SchedNext]_schedVars
      <4>1. cur # idle_thread
        BY <1>0, <3>1 DEF LockInv, IdleOutside
      <4>2. intr \in IntrStatus /\ intr' \in IntrStatus
        BY <1>0, <3>1 DEF SchedInv, SchedTypeOK, SyncTypeOK
      <4> QED BY <3>1, <4>1, <4>2 DEF SchedNext, IntrEnable, IntrDisable, schedVars, IntrStatus
    <3> QED BY <3>2, <3>3, <3>4, <3>5
  <2> QED BY <1>10, <2>1, <2>2 DEF sema_down_again
<1> QED BY <1>2, <1>3, <1>4, <1>5, <1>6, <1>7, <1>9, <1>10 DEF LockStep

\* Every step of Sync is a step of the scheduler or leaves it alone.
LEMMA SyncStepRefines ==
    ASSUME SyncInv, [SyncNext]_syncVars
    PROVE  [SchedNext]_schedVars
<1>1. CASE LockStep
  BY <1>1, LockStepLemma
<1>2. CASE OtherStep
  BY <1>2, OtherStatus DEF SyncInv
<1>3. CASE UNCHANGED syncVars
  BY <1>3 DEF syncVars
<1> QED BY <1>1, <1>2, <1>3 DEF SyncNext

LEMMA SyncStep == SyncInv /\ [SyncNext]_syncVars => SyncInv'
<1> SUFFICES ASSUME SyncInv, [SyncNext]_syncVars
             PROVE  SyncInv'
  OBVIOUS
<1>1. SchedInv'
  BY SyncStepRefines, SchedStep DEF SyncInv
<1>2. SyncTypeOK' /\ LockInv' /\ WakeInv'
  <2>1. CASE LockStep
    BY <2>1, LockStepLemma
  <2>2. CASE OtherStep
    BY <2>2, OtherLemma
  <2>3. CASE UNCHANGED syncVars
    <3>1. SyncTypeOK' /\ LockInv'
      BY <2>3, LockStutter DEF syncVars, SyncInv
    <3>2. WakeInv'
      BY <2>3 DEF syncVars, schedVars, lockVars, SyncInv, WakeInv, WaitersAsleep, NoLostWakeup
    <3> QED BY <3>1, <3>2
  <2> QED BY <2>1, <2>2, <2>3 DEF SyncNext
<1> QED BY <1>1, <1>2 DEF SyncInv

\* The inductive invariant of the locks holds in every behaviour.
THEOREM SyncInvariant == SyncSpec => []SyncInv
<1> QED BY SyncInitLemma, SyncStep, PTL DEF SyncSpec

\* Every variable of sync.c has its type; a semaphore of a lock is 0 or 1.
THEOREM SyncTypeCorrect == SyncSpec => []SyncTypeOK
<1>1. SyncInv => SyncTypeOK
  BY DEF SyncInv
<1> QED BY <1>1, SyncInvariant, PTL

\* A lock has at most one owner, however threads are preempted inside
\* lock_acquire and lock_release, and its semaphore is 0 exactly when it has
\* one: the ASSERTs of sema_down and sema_up cannot fail.
THEOREM LockMutualExclusion == SyncSpec => []MutualExclusion
<1>1. SyncInv => MutualExclusion
  BY DEF SyncInv, LockInv
<1> QED BY <1>1, SyncInvariant, PTL

\* The recursion count is right: the ASSERTs of lock_acquire and lock_release
\* on holder and holder_repeat_nr cannot fail.
THEOREM RecursionCount == SyncSpec => []HolderCountsRight
<1>1. SyncInv => HolderCountsRight
  <2> SUFFICES ASSUME SyncInv, NEW t \in Thread, NEW l \in Lock
               PROVE  /\ held[<<t, l>>] > 0 => holder[l] = t /\ holder_repeat_nr[l] = held[<<t, l>>]
                      /\ pc[t] \in {"own", "nr"} /\ want[t] = l => holder_repeat_nr[l] = 0
                      /\ holder[l] = t => Owns(t, l)
    BY DEF HolderCountsRight
  <2>1. LockInv /\ LockShapeAt(l, t) /\ t # NULL
    BY LockAssumption DEF SyncInv, LockInv, LockShape
  <2>2. ASSUME holder[l] = t PROVE Owns(t, l)
    <3>1. value[l] # 1
      BY <2>1, <2>2 DEF LockShapeAt
    <3>2. PICK u \in Thread : Owns(u, l)
      BY <2>1, <3>1 DEF LockInv, LockTypeOK, MutualExclusion
    <3>3. LockShapeAt(l, u)
      BY <2>1 DEF LockInv, LockShape
    <3> QED BY <2>1, <2>2, <3>2, <3>3 DEF LockShapeAt, Owns
  <2> QED BY <2>1, <2>2 DEF LockShapeAt
<1> QED BY <1>1, SyncInvariant, PTL

\* Whoever waits for a lock sleeps in its list, and only there.
THEOREM WaitersSleep == SyncSpec => []WaitersAsleep
<1>1. SyncInv => WaitersAsleep
  BY DEF SyncInv, WakeInv
<1> QED BY <1>1, SyncInvariant, PTL

\* No wakeup is lost between sema_up and the loop of sema_down.
THEOREM WakeupsKept == SyncSpec => []NoLostWakeup
<1>1. SyncInv => NoLostWakeup
  BY DEF SyncInv, WakeInv
<1> QED BY <1>1, SyncInvariant, PTL

\* The locks use the scheduler as it is meant to be used: Sync implements
\* Sched, so the scheduler's invariant holds under it too.
THEOREM SyncImplementsSched == SyncSpec => SchedSpec
<1>1. SyncInit => SchedInit
  BY DEF SyncInit
<1>2. SyncInv /\ [SyncNext]_syncVars => [SchedNext]_schedVars
  BY SyncStepRefines
<1> QED BY <1>1, <1>2, SyncInvariant, PTL DEF SyncSpec, SchedSpec
=============================================================================
