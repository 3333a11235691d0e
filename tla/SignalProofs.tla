---------------------------- MODULE SignalProofs ----------------------------
(***************************************************************************)
(* Proofs for Signal, for any number of processes, handlers, signals and    *)
(* places in the ring: handlers are entered in the order of the signals,    *)
(* and the registers of the main program survive them.                      *)
(***************************************************************************)
EXTENDS Signal, WellFoundedInduction, TLAPS

N == SIG_QUEUE_MAX_CNT

(* The ring, without the remainder of sigq_next: the place of the i-th       *)
(* signal after the tail, how many there are, and which sequence they are.   *)
Slot(t, i) == IF t + i - 1 < N THEN t + i - 1 ELSE t + i - 1 - N
Used(h, t) == IF h >= t THEN h - t ELSE h - t + N
Holds(q, h, t, s) ==
    /\ Len(s) = Used(h, t)
    /\ \A i \in 1..Len(s) : s[i] = q[Slot(t, i)]

----------------------------------------------------------------------------
\* sigq_next goes round the ring.
LEMMA NextPlace ==
    ASSUME NEW i \in Place
    PROVE  /\ sigq_next(i) \in Place
           /\ sigq_next(i) = IF i = N - 1 THEN 0 ELSE i + 1
<1>1. N \in Nat /\ N > 0 /\ i \in 0..(N - 1)
  BY SignalAssumption DEF N, Place
<1>2. CASE i = N - 1
  <2>1. (i + 1) % N = 0
    BY <1>1, <1>2
  <2> QED BY <1>1, <1>2, <2>1 DEF sigq_next, N, Place
<1>3. CASE i # N - 1
  <2>1. (i + 1) % N = i + 1
    BY <1>1, <1>3
  <2> QED BY <1>1, <1>3, <2>1 DEF sigq_next, N, Place
<1> QED BY <1>2, <1>3

\* sigq_put on a ring that is not full appends to the sequence it holds.
LEMMA PutLemma ==
    ASSUME NEW q \in [Place -> Sig], NEW h \in Place, NEW t \in Place,
           NEW s \in Seq(Sig), NEW x \in Sig,
           Holds(q, h, t, s), sigq_next(h) # t
    PROVE  Holds([q EXCEPT ![h] = x], sigq_next(h), t, Append(s, x))
<1> DEFINE r == [q EXCEPT ![h] = x]
           s2 == Append(s, x)
<1>1. N \in Nat /\ N > 0 /\ h \in 0..(N - 1) /\ t \in 0..(N - 1) /\ Place = 0..(N - 1)
  BY SignalAssumption DEF N, Place
<1>2. sigq_next(h) = IF h = N - 1 THEN 0 ELSE h + 1
  BY NextPlace
<1>3. Len(s) \in Nat /\ Len(s) = Used(h, t) /\ Len(s) < N - 1
  BY <1>1, <1>2 DEF Holds, Used
<1>4. Len(s2) = Len(s) + 1 /\ \A i \in 1..Len(s) : s2[i] = s[i]
  OBVIOUS
<1>5. s2[Len(s) + 1] = x
  OBVIOUS
<1>6. Len(s2) = Used(sigq_next(h), t)
  BY <1>1, <1>2, <1>3, <1>4 DEF Used
<1>7. \A i \in 1..Len(s) : Slot(t, i) # h /\ Slot(t, i) \in Place
  BY <1>1, <1>3 DEF Slot, Used
<1>8. Slot(t, Len(s) + 1) = h
  BY <1>1, <1>3 DEF Slot, Used
<1>9. ASSUME NEW i \in 1..Len(s2) PROVE s2[i] = r[Slot(t, i)]
  <2>1. CASE i \in 1..Len(s)
    BY <2>1, <1>4, <1>7 DEF Holds
  <2>2. CASE i = Len(s) + 1
    BY <2>2, <1>5, <1>8
  <2> QED BY <2>1, <2>2, <1>3, <1>4
<1> QED BY <1>6, <1>9 DEF Holds

\* sigq_get on a ring that is not empty returns the head of the sequence it
\* holds and leaves the tail.
LEMMA GetLemma ==
    ASSUME NEW q \in [Place -> Sig], NEW h \in Place, NEW t \in Place,
           NEW s \in Seq(Sig), Holds(q, h, t, s), h # t
    PROVE  /\ s # <<>>
           /\ Head(s) = q[t]
           /\ Holds(q, h, sigq_next(t), Tail(s))
<1>1. N \in Nat /\ N > 0 /\ h \in 0..(N - 1) /\ t \in 0..(N - 1) /\ Place = 0..(N - 1)
  BY SignalAssumption DEF N, Place
<1>2. sigq_next(t) = IF t = N - 1 THEN 0 ELSE t + 1
  BY NextPlace
<1>3. Len(s) \in Nat /\ Len(s) = Used(h, t) /\ Len(s) > 0 /\ Len(s) < N
  BY <1>1 DEF Holds, Used
<1>4. s # <<>>
  BY <1>3
<1>5. /\ Head(s) = s[1] /\ Len(Tail(s)) = Len(s) - 1
      /\ \A i \in 1..Len(Tail(s)) : Tail(s)[i] = s[i + 1]
  BY <1>4
<1>6. Slot(t, 1) = t
  BY <1>1 DEF Slot
<1>7. Len(Tail(s)) = Used(h, sigq_next(t))
  BY <1>1, <1>2, <1>3, <1>5 DEF Used
<1>8. ASSUME NEW i \in 1..Len(Tail(s)) PROVE Tail(s)[i] = q[Slot(sigq_next(t), i)]
  <2>1. i + 1 \in 1..Len(s)
    BY <1>3, <1>5
  <2>2. Slot(sigq_next(t), i) = Slot(t, i + 1)
    BY <1>1, <1>2, <1>3, <2>1 DEF Slot
  <2> QED BY <1>5, <2>1, <2>2 DEF Holds
<1> QED BY <1>3, <1>4, <1>5, <1>6, <1>7, <1>8 DEF Holds
----------------------------------------------------------------------------
(* The inductive invariant.                                                 *)

Mode == {"user", "calling", "away", "asleep", "none"}

SigTypeOK ==
    /\ mode \in [Proc -> Mode]
    /\ regs \in [Proc -> Main \cup Handling]
    /\ handler \in [Proc -> [Sig -> Func \cup {NULL}]]
    /\ sig_queue \in [Proc -> [Place -> Sig]]
    /\ sig_head \in [Proc -> Place]
    /\ sig_tail \in [Proc -> Place]
    /\ in_event \in [Proc -> BOOLEAN]
    /\ main_mission_stack \in [Proc -> Main]
    /\ backup_esp \in [Proc -> Proc]
    /\ mainRegs \in [Proc -> Main]
    /\ pending \in [Proc -> Seq(Sig)]
    /\ deaf \in [Proc -> BOOLEAN]
    /\ calls \in Nat

\* The ring of every process holds exactly the signals sent and not taken.
RingExact == \A p \in Proc : Holds(sig_queue[p], sig_head[p], sig_tail[p], pending[p])

\* ContextKept without backup_esp, which only a handler that forks can spoil.
Context(p) ==
    IF InHandler(p)
    THEN main_mission_stack[p] = mainRegs[p] /\ in_event[p] /\ ~ deaf[p]
    ELSE regs[p] = mainRegs[p] /\ in_event[p] = deaf[p]

ContextInv == \A p \in Proc : mode[p] # "none" => Context(p)

\* In a handler backup_esp points into the own stack.
OwnStack == \A p \in Proc : mode[p] # "none" /\ InHandler(p) => backup_esp[p] = p

SigInv == SigTypeOK /\ RingExact /\ ContextInv /\ (~ HandlerForks => OwnStack)

LEMMA SigInitLemma == SigInit => SigInv
<1> SUFFICES ASSUME SigInit PROVE SigInv
  OBVIOUS
<1>1. 0 \in Sig /\ 0 \in Place
  BY SignalAssumption DEF Sig, Place
<1>2. [at |-> "main", eax |-> 0] \in Main
  BY DEF Main, Value
<1>3. SigTypeOK
  BY <1>1, <1>2, SignalAssumption DEF SigInit, SigTypeOK, Mode
<1>4. RingExact
  <2> SUFFICES ASSUME NEW p \in Proc
               PROVE  Holds(sig_queue[p], sig_head[p], sig_tail[p], pending[p])
    BY DEF RingExact
  <2>1. sig_head[p] = 0 /\ sig_tail[p] = 0 /\ pending[p] = <<>>
    BY DEF SigInit
  <2> QED BY <2>1 DEF Holds, Used
<1>5. ContextInv
  BY DEF SigInit, ContextInv, Context, InHandler
<1>6. OwnStack
  BY DEF SigInit, OwnStack, InHandler
<1> QED BY <1>3, <1>4, <1>5, <1>6 DEF SigInv

----------------------------------------------------------------------------
(* Registers.                                                               *)

\* Registers are those of the main program or of a handler, and writing eax
\* does not change which.
LEMMA RegsLemma ==
    ASSUME NEW r \in Main \cup Handling, NEW v \in Value
    PROVE  /\ r.at \in {"main", "handler"}
           /\ r.at = "main" <=> r \in Main
           /\ [r EXCEPT !.eax = v] \in Main \cup Handling
           /\ [r EXCEPT !.eax = v].at = r.at
           /\ r \in Main => [r EXCEPT !.eax = v] \in Main
<1>1. CASE r \in Main
  BY <1>1 DEF Main, Handling
<1>2. CASE r \in Handling
  BY <1>2 DEF Main, Handling
<1> QED BY <1>1, <1>2

\* The result of a system call goes to the registers of the caller alone, and
\* to the main program unless a handler calls.
LEMMA ResultLemma ==
    ASSUME SigTypeOK, NEW p \in Proc, NEW v \in Value, Result(p, v)
    PROVE  /\ regs' \in [Proc -> Main \cup Handling]
           /\ mainRegs' \in [Proc -> Main]
           /\ \A q \in Proc : InHandler(q)' = InHandler(q)
           /\ \A q \in Proc : InHandler(q) => mainRegs'[q] = mainRegs[q]
           /\ \A q \in Proc : regs[q] = mainRegs[q] /\ ~ InHandler(q) => regs'[q] = mainRegs'[q]
<1>1. regs \in [Proc -> Main \cup Handling] /\ mainRegs \in [Proc -> Main]
  BY DEF SigTypeOK
<1>2. regs' = [regs EXCEPT ![p] = [regs[p] EXCEPT !.eax = v]]
  BY DEF Result
<1>3. mainRegs' = IF InHandler(p) THEN mainRegs
                  ELSE [mainRegs EXCEPT ![p] = [mainRegs[p] EXCEPT !.eax = v]]
  BY DEF Result
<1>4. /\ [regs[p] EXCEPT !.eax = v] \in Main \cup Handling
      /\ [regs[p] EXCEPT !.eax = v].at = regs[p].at
  BY <1>1, RegsLemma
<1>5. [mainRegs[p] EXCEPT !.eax = v] \in Main
  BY <1>1, RegsLemma
<1>6. regs' \in [Proc -> Main \cup Handling] /\ mainRegs' \in [Proc -> Main]
  BY <1>1, <1>2, <1>3, <1>4, <1>5
<1>7. \A q \in Proc : regs'[q] = IF q = p THEN [regs[p] EXCEPT !.eax = v] ELSE regs[q]
  BY <1>1, <1>2
<1>8. \A q \in Proc : mainRegs'[q] = IF q = p /\ ~ InHandler(p)
                                     THEN [mainRegs[p] EXCEPT !.eax = v] ELSE mainRegs[q]
  BY <1>1, <1>3
<1>9. \A q \in Proc : InHandler(q)' = InHandler(q)
  BY <1>4, <1>7 DEF InHandler
<1> QED BY <1>6, <1>7, <1>8, <1>9

\* A call that only writes its result keeps the context of every process: the
\* PCB fields the context depends on are the ones named here.
LEMMA ResultContext ==
    ASSUME SigTypeOK, ContextInv, ~ HandlerForks => OwnStack,
           NEW p \in Proc, NEW v \in Value, Result(p, v),
           \A q \in Proc : mode[q] = "none" => mode'[q] = "none",
           UNCHANGED <<main_mission_stack, in_event, deaf, backup_esp>>
    PROVE  ContextInv' /\ (~ HandlerForks => OwnStack)'
<1>1. /\ \A q \in Proc : InHandler(q)' = InHandler(q)
      /\ \A q \in Proc : InHandler(q) => mainRegs'[q] = mainRegs[q]
      /\ \A q \in Proc : regs[q] = mainRegs[q] /\ ~ InHandler(q) => regs'[q] = mainRegs'[q]
  BY ResultLemma
<1>2. ASSUME NEW q \in Proc, mode'[q] # "none" PROVE Context(q)'
  <2>1. Context(q)
    BY <1>2 DEF ContextInv
  <2>2. CASE InHandler(q)
    BY <1>1, <2>1, <2>2 DEF Context
  <2>3. CASE ~ InHandler(q)
    BY <1>1, <2>1, <2>3 DEF Context
  <2> QED BY <2>2, <2>3
<1>3. ASSUME ~ HandlerForks, NEW q \in Proc, mode'[q] # "none", InHandler(q)'
      PROVE  backup_esp'[q] = q
  BY <1>1, <1>3 DEF OwnStack
<1> QED BY <1>2, <1>3 DEF ContextInv, OwnStack
----------------------------------------------------------------------------
(* Steps.                                                                   *)

\* No process comes to life, and modes stay modes.
NoneStays == mode' \in [Proc -> Mode] /\ \A q \in Proc : mode[q] = "none" => mode'[q] = "none"

LEMMA ModeLemma ==
    ASSUME SigTypeOK, NEW p \in Proc, mode[p] # "none",
           NEW m \in Mode, GoTo(p, m)
    PROVE  NoneStays
<1> QED BY DEF SigTypeOK, GoTo, NoneStays

\* A step that only moves a process between user mode and the kernel.
LEMMA QuietStep ==
    ASSUME SigInv, NoneStays, calls' \in Nat,
           UNCHANGED <<regs, pcbVars, mainRegs, pending, deaf>>
    PROVE  SigInv'
<1>1. SigTypeOK'
  BY DEF SigInv, SigTypeOK, NoneStays, pcbVars
<1>2. RingExact'
  BY DEF SigInv, RingExact, pcbVars
<1>3. \A q \in Proc : (InHandler(q)' <=> InHandler(q)) /\ (Context(q)' <=> Context(q))
  BY DEF InHandler, Context, pcbVars
<1>4. ContextInv'
  BY <1>3 DEF SigInv, ContextInv, NoneStays
<1>5. (~ HandlerForks => OwnStack)'
  BY <1>3 DEF SigInv, OwnStack, NoneStays, pcbVars
<1> QED BY <1>1, <1>2, <1>4, <1>5 DEF SigInv

\* The ring of every process is typed and holds what is pending.
RingOK ==
    /\ sig_queue \in [Proc -> [Place -> Sig]]
    /\ sig_head \in [Proc -> Place]
    /\ sig_tail \in [Proc -> Place]
    /\ pending \in [Proc -> Seq(Sig)]
    /\ RingExact

LEMMA RingFrame ==
    ASSUME SigInv, UNCHANGED <<sig_queue, sig_head, sig_tail, pending>>
    PROVE  RingOK'
<1> QED BY DEF SigInv, SigTypeOK, RingOK, RingExact

LEMMA sigq_putLemma ==
    ASSUME SigInv, NEW t \in Proc, NEW s \in Sig, ~ sigq_full(t), sigq_put(t, s),
           UNCHANGED sig_tail
    PROVE  RingOK'
<1>1. /\ sig_queue \in [Proc -> [Place -> Sig]]
      /\ sig_head \in [Proc -> Place]
      /\ sig_tail \in [Proc -> Place]
      /\ pending \in [Proc -> Seq(Sig)]
      /\ RingExact
  BY DEF SigInv, SigTypeOK
<1>2. sigq_next(sig_head[t]) \in Place
  BY <1>1, NextPlace
<1>3. /\ sig_queue' = [sig_queue EXCEPT ![t] = [sig_queue[t] EXCEPT ![sig_head[t]] = s]]
      /\ sig_head' = [sig_head EXCEPT ![t] = sigq_next(sig_head[t])]
      /\ pending' = [pending EXCEPT ![t] = Append(pending[t], s)]
      /\ sig_tail' = sig_tail
  BY DEF sigq_put
<1>4. /\ [sig_queue[t] EXCEPT ![sig_head[t]] = s] \in [Place -> Sig]
      /\ Append(pending[t], s) \in Seq(Sig)
  BY <1>1
<1>5. /\ sig_queue' \in [Proc -> [Place -> Sig]]
      /\ sig_head' \in [Proc -> Place]
      /\ sig_tail' \in [Proc -> Place]
      /\ pending' \in [Proc -> Seq(Sig)]
  BY <1>1, <1>2, <1>3, <1>4
<1>6. Holds([sig_queue[t] EXCEPT ![sig_head[t]] = s], sigq_next(sig_head[t]),
            sig_tail[t], Append(pending[t], s))
  BY <1>1, PutLemma DEF RingExact, sigq_full
<1>7. ASSUME NEW q \in Proc
      PROVE  Holds(sig_queue'[q], sig_head'[q], sig_tail'[q], pending'[q])
  <2>1. CASE q = t
    BY <1>1, <1>3, <1>6, <2>1
  <2>2. CASE q # t
    <3>1. /\ sig_queue'[q] = sig_queue[q] /\ sig_head'[q] = sig_head[q]
          /\ sig_tail'[q] = sig_tail[q] /\ pending'[q] = pending[q]
      BY <1>1, <1>3, <2>2
    <3> QED BY <1>1, <3>1 DEF RingExact
  <2> QED BY <2>1, <2>2
<1> QED BY <1>5, <1>7 DEF RingOK, RingExact

\* check_signal takes the oldest signal that is pending.
LEMMA TakeSignalLemma ==
    ASSUME SigInv, NEW p \in Proc, TakeSignal(p)
    PROVE  /\ RingOK'
           /\ in_event' = [in_event EXCEPT ![p] = TRUE]
           /\ pending[p] # <<>>
           /\ pending'[p] = Tail(pending[p])
           /\ sigq_get(p) = Head(pending[p])
           /\ sigq_get(p) \in Sig
           /\ TakenHandler(p) \in Func \cup {NULL}
<1>1. /\ sig_queue \in [Proc -> [Place -> Sig]]
      /\ sig_head \in [Proc -> Place]
      /\ sig_tail \in [Proc -> Place]
      /\ pending \in [Proc -> Seq(Sig)]
      /\ handler \in [Proc -> [Sig -> Func \cup {NULL}]]
      /\ RingExact
  BY DEF SigInv, SigTypeOK
<1>2. sig_head[p] # sig_tail[p]
  BY DEF TakeSignal, signal_due, sigq_empty
<1>3. /\ pending[p] # <<>>
      /\ Head(pending[p]) = sig_queue[p][sig_tail[p]]
      /\ Holds(sig_queue[p], sig_head[p], sigq_next(sig_tail[p]), Tail(pending[p]))
  BY <1>1, <1>2, GetLemma DEF RingExact
<1>4. /\ sig_tail' = [sig_tail EXCEPT ![p] = sigq_next(sig_tail[p])]
      /\ pending' = [pending EXCEPT ![p] = Tail(pending[p])]
      /\ sig_queue' = sig_queue /\ sig_head' = sig_head
  BY <1>3 DEF TakeSignal
<1>5. sigq_next(sig_tail[p]) \in Place /\ Tail(pending[p]) \in Seq(Sig)
  BY <1>1, <1>3, NextPlace
<1>6. /\ sig_queue' \in [Proc -> [Place -> Sig]]
      /\ sig_head' \in [Proc -> Place]
      /\ sig_tail' \in [Proc -> Place]
      /\ pending' \in [Proc -> Seq(Sig)]
  BY <1>1, <1>4, <1>5
<1>7. ASSUME NEW q \in Proc
      PROVE  Holds(sig_queue'[q], sig_head'[q], sig_tail'[q], pending'[q])
  <2>1. CASE q = p
    BY <1>1, <1>3, <1>4, <2>1
  <2>2. CASE q # p
    <3>1. sig_tail'[q] = sig_tail[q] /\ pending'[q] = pending[q]
      BY <1>1, <1>4, <2>2
    <3> QED BY <1>1, <1>4, <3>1 DEF RingExact
  <2> QED BY <2>1, <2>2
<1>8. sigq_get(p) = Head(pending[p]) /\ sigq_get(p) \in Sig
  BY <1>1, <1>3 DEF sigq_get
<1>9. TakenHandler(p) \in Func \cup {NULL}
  BY <1>1, <1>8 DEF TakenHandler
<1>10. RingOK'
  BY <1>6, <1>7 DEF RingOK, RingExact
<1>11. in_event' = [in_event EXCEPT ![p] = TRUE]
  BY DEF TakeSignal
<1> QED BY <1>1, <1>3, <1>4, <1>8, <1>9, <1>10, <1>11

\* A call that writes its result, and perhaps a handler or a ring.
LEMMA ResultStep ==
    ASSUME SigInv, NoneStays, calls' \in Nat, RingOK',
           NEW p \in Proc, NEW v \in Value, Result(p, v),
           handler' \in [Proc -> [Sig -> Func \cup {NULL}]],
           UNCHANGED <<main_mission_stack, in_event, deaf, backup_esp>>
    PROVE  SigInv'
<1>1. regs' \in [Proc -> Main \cup Handling] /\ mainRegs' \in [Proc -> Main]
  BY ResultLemma DEF SigInv
<1>2. SigTypeOK'
  BY <1>1 DEF SigInv, SigTypeOK, RingOK, NoneStays
<1>3. RingExact'
  BY DEF RingOK
<1>4. ContextInv' /\ (~ HandlerForks => OwnStack)'
  BY ResultContext DEF SigInv, NoneStays
<1> QED BY <1>2, <1>3, <1>4 DEF SigInv
\* Leaving the kernel for a handler: the registers saved are those of the main
\* program, because in_event keeps a process in a handler from taking another.
LEMMA do_signalLemma ==
    ASSUME SigInv, NEW p \in Proc, do_signal(p)
    PROVE  SigInv' /\ regs[p] = mainRegs[p] /\ regs'[p].func = TakenHandler(p)
<1>1. SigTypeOK /\ ContextInv /\ mode[p] # "none" /\ Leaves(p) /\ TakeSignal(p)
  BY DEF SigInv, do_signal, Leaves
<1>2. /\ RingOK' /\ in_event' = [in_event EXCEPT ![p] = TRUE]
      /\ TakenHandler(p) \in Func
  BY <1>1, TakeSignalLemma DEF do_signal
<1>3. ~ in_event[p] /\ handler' = handler
  BY <1>1 DEF TakeSignal, signal_due
<1>4. ~ InHandler(p) /\ regs[p] = mainRegs[p] /\ ~ deaf[p]
  BY <1>1, <1>3 DEF ContextInv, Context
<1>5. NoneStays
  BY <1>1, ModeLemma DEF Leaves, Mode
<1> DEFINE r == [at |-> "handler", eax |-> 0, func |-> TakenHandler(p)]
<1>6. /\ main_mission_stack' = [main_mission_stack EXCEPT ![p] = mainRegs[p]]
      /\ backup_esp' = [backup_esp EXCEPT ![p] = p]
      /\ regs' = [regs EXCEPT ![p] = r]
      /\ UNCHANGED <<mainRegs, deaf, calls>>
  BY <1>4 DEF do_signal, Backup
<1>7. r \in Main \cup Handling /\ r.at = "handler" /\ r.func = TakenHandler(p)
  BY <1>2 DEF Handling, Value
<1> HIDE DEF r
<1>8. SigTypeOK'
  BY <1>1, <1>2, <1>3, <1>5, <1>6, <1>7 DEF SigTypeOK, RingOK, NoneStays
<1>9. regs'[p] = r /\ InHandler(p)'
  BY <1>1, <1>6, <1>7 DEF SigTypeOK, InHandler
<1>10. ASSUME NEW q \in Proc, mode'[q] # "none"
       PROVE  Context(q)' /\ (~ HandlerForks /\ InHandler(q)' => backup_esp'[q] = q)
  <2>1. CASE q = p
    BY <1>1, <1>2, <1>4, <1>6, <1>9, <2>1 DEF Context, SigTypeOK
  <2>2. CASE q # p
    <3>1. /\ regs'[q] = regs[q] /\ main_mission_stack'[q] = main_mission_stack[q]
          /\ in_event'[q] = in_event[q] /\ backup_esp'[q] = backup_esp[q]
      BY <1>1, <1>2, <1>6, <2>2 DEF SigTypeOK
    <3>2. mode[q] # "none"
      BY <1>5, <1>10 DEF NoneStays
    <3> QED BY <1>1, <1>6, <3>1, <3>2 DEF Context, InHandler, ContextInv, SigInv, OwnStack
  <2> QED BY <2>1, <2>2
<1>11. SigInv'
  BY <1>2, <1>8, <1>10 DEF SigInv, RingOK, ContextInv, OwnStack
<1> QED BY <1>4, <1>7, <1>9, <1>11

\* The signal has no handler: in_event stays set for good.
LEMMA NoHandlerLemma ==
    ASSUME SigInv, NEW p \in Proc, intr_exit_no_handler(p)
    PROVE  SigInv'
<1>1. SigTypeOK /\ ContextInv /\ mode[p] # "none" /\ Leaves(p) /\ TakeSignal(p)
  BY DEF SigInv, intr_exit_no_handler, Leaves
<1>2. RingOK' /\ in_event' = [in_event EXCEPT ![p] = TRUE]
  BY <1>1, TakeSignalLemma
<1>3. ~ in_event[p] /\ handler' = handler
  BY <1>1 DEF TakeSignal, signal_due
<1>4. ~ InHandler(p) /\ regs[p] = mainRegs[p]
  BY <1>1, <1>3 DEF ContextInv, Context
<1>5. NoneStays
  BY <1>1, ModeLemma DEF Leaves, Mode
<1>6. /\ deaf' = [deaf EXCEPT ![p] = TRUE]
      /\ UNCHANGED <<regs, main_mission_stack, backup_esp, mainRegs, calls>>
  BY DEF intr_exit_no_handler
<1>7. SigTypeOK'
  BY <1>1, <1>2, <1>3, <1>5, <1>6 DEF SigTypeOK, RingOK, NoneStays
<1>8. \A q \in Proc : InHandler(q)' <=> InHandler(q)
  BY <1>6 DEF InHandler
<1>9. ASSUME NEW q \in Proc, mode'[q] # "none"
      PROVE  Context(q)'
  <2>1. CASE q = p
    BY <1>1, <1>2, <1>4, <1>6, <1>8, <2>1 DEF Context, SigTypeOK
  <2>2. CASE q # p
    <3>1. in_event'[q] = in_event[q] /\ deaf'[q] = deaf[q]
      BY <1>1, <1>2, <1>6, <2>2 DEF SigTypeOK
    <3>2. mode[q] # "none"
      BY <1>5, <1>9 DEF NoneStays
    <3> QED BY <1>1, <1>6, <1>8, <3>1, <3>2 DEF Context, ContextInv
  <2> QED BY <2>1, <2>2
<1>10. (~ HandlerForks => OwnStack)'
  BY <1>5, <1>6, <1>8 DEF SigInv, OwnStack, NoneStays
<1> QED BY <1>2, <1>7, <1>9, <1>10 DEF SigInv, RingOK, ContextInv

\* sigreturn brings the registers of the main program back.
LEMMA sys_sigreturnLemma ==
    ASSUME SigInv, NEW p \in Proc, sys_sigreturn(p)
    PROVE  SigInv' /\ ~ InHandler(p)'
<1>1. SigTypeOK /\ ContextInv /\ mode[p] # "none" /\ Calls(p)
  BY DEF SigInv, sys_sigreturn, Calls
<1>2. NoneStays
  BY <1>1, ModeLemma DEF Calls, Mode
<1>3. /\ in_event' = [in_event EXCEPT ![p] = FALSE]
      /\ regs' = [regs EXCEPT ![p] = main_mission_stack[p]]
      /\ UNCHANGED <<handler, sig_queue, sig_head, sig_tail,
                     main_mission_stack, backup_esp, mainRegs, pending, deaf, calls>>
  BY DEF sys_sigreturn, event_flag, Restored
<1>4. main_mission_stack[p] = mainRegs[p] /\ ~ deaf[p]
  BY <1>1 DEF sys_sigreturn, ContextInv, Context
<1>5. RingOK'
  BY <1>3, RingFrame
<1>6. SigTypeOK'
  BY <1>1, <1>2, <1>3 DEF SigTypeOK, NoneStays
<1>7. regs'[p] = mainRegs[p] /\ mainRegs[p] \in Main /\ ~ InHandler(p)'
  BY <1>1, <1>3, <1>4 DEF SigTypeOK, InHandler, Main
<1>8. ASSUME NEW q \in Proc, mode'[q] # "none"
      PROVE  Context(q)' /\ (~ HandlerForks /\ InHandler(q)' => backup_esp'[q] = q)
  <2>1. CASE q = p
    BY <1>1, <1>3, <1>4, <1>7, <2>1 DEF Context, SigTypeOK
  <2>2. CASE q # p
    <3>1. regs'[q] = regs[q] /\ in_event'[q] = in_event[q]
      BY <1>1, <1>3, <2>2 DEF SigTypeOK
    <3>2. mode[q] # "none"
      BY <1>2, <1>8 DEF NoneStays
    <3> QED BY <1>1, <1>3, <3>1, <3>2 DEF Context, InHandler, ContextInv, SigInv, OwnStack
  <2> QED BY <2>1, <2>2
<1> QED BY <1>5, <1>6, <1>7, <1>8 DEF SigInv, RingOK, ContextInv, OwnStack
\* execv puts another program into the process, handler or not.
LEMMA sys_execvLemma ==
    ASSUME SigInv, NEW p \in Proc, sys_execv(p), calls' \in Nat
    PROVE  SigInv' /\ ~ InHandler(p)'
<1> DEFINE r == [at |-> "main", eax |-> 0]
<1>1. SigTypeOK /\ ContextInv /\ mode[p] # "none" /\ Calls(p)
  BY DEF SigInv, sys_execv, Calls
<1>2. NoneStays
  BY <1>1, ModeLemma DEF Calls, Mode
<1>3. /\ regs' = [regs EXCEPT ![p] = r]
      /\ mainRegs' = [mainRegs EXCEPT ![p] = r]
      /\ deaf' = [deaf EXCEPT ![p] = in_event[p]]
      /\ UNCHANGED <<handler, sig_queue, sig_head, sig_tail, in_event,
                     main_mission_stack, backup_esp, pending>>
  BY DEF sys_execv, pcbVars
<1>4. r \in Main /\ r.at = "main"
  BY DEF Main, Value
<1> HIDE DEF r
<1>5. RingOK'
  BY <1>3, RingFrame
<1>6. SigTypeOK'
  BY <1>1, <1>2, <1>3, <1>4 DEF SigTypeOK, NoneStays
<1>7. regs'[p] = r /\ mainRegs'[p] = r /\ ~ InHandler(p)' /\ in_event[p] = deaf'[p]
  BY <1>1, <1>3, <1>4 DEF SigTypeOK, InHandler
<1>8. ASSUME NEW q \in Proc, mode'[q] # "none"
      PROVE  Context(q)' /\ (~ HandlerForks /\ InHandler(q)' => backup_esp'[q] = q)
  <2>1. CASE q = p
    BY <1>3, <1>7, <2>1 DEF Context
  <2>2. CASE q # p
    <3>1. regs'[q] = regs[q] /\ mainRegs'[q] = mainRegs[q] /\ deaf'[q] = deaf[q]
      BY <1>1, <1>3, <2>2 DEF SigTypeOK
    <3>2. mode[q] # "none"
      BY <1>2, <1>8 DEF NoneStays
    <3> QED BY <1>1, <1>3, <3>1, <3>2 DEF Context, InHandler, ContextInv, SigInv, OwnStack
  <2> QED BY <2>1, <2>2
<1> QED BY <1>5, <1>6, <1>7, <1>8 DEF SigInv, RingOK, ContextInv, OwnStack

\* fork copies the PCB: ring, context and all, but backup_esp of a child made
\* in a handler still points into the parent's stack.
LEMMA sys_forkLemma ==
    ASSUME SigInv, NEW p \in Proc, NEW c \in Proc, sys_fork(p, c), calls' \in Nat
    PROVE  SigInv' /\ \A q \in Proc \ {c} : InHandler(q)' <=> InHandler(q)
<1>1. SigTypeOK /\ ContextInv /\ RingExact
  BY DEF SigInv
<1>2. p # c /\ mode[p] = "user" /\ mode[c] = "none" /\ (InHandler(p) => HandlerForks)
  BY DEF sys_fork
<1> DEFINE r == [regs[p] EXCEPT !.eax = 0]
           m == [mainRegs[p] EXCEPT !.eax = 0]
<1>3. 0 \in Value
  BY DEF Value
<1>4. r \in Main \cup Handling /\ r.at = regs[p].at
  <2>1. regs[p] \in Main \cup Handling
    BY <1>1 DEF SigTypeOK
  <2> QED BY <1>3, <2>1, RegsLemma
<1>5. m \in Main
  BY <1>1, <1>3, RegsLemma DEF SigTypeOK
<1>6. regs[p] = mainRegs[p] => r = m
  OBVIOUS
<1>7. /\ \A q \in Proc : regs'[q] = IF q \in {p, c} THEN r ELSE regs[q]
      /\ regs' \in [Proc -> Main \cup Handling]
  <2>1. regs' = [[regs EXCEPT ![c] = r] EXCEPT ![p] = [[regs EXCEPT ![c] = r][p] EXCEPT !.eax = 0]]
    BY DEF sys_fork
  <2>2. [regs EXCEPT ![c] = r][p] = regs[p]
    BY <1>1, <1>2 DEF SigTypeOK
  <2>3. regs' = [[regs EXCEPT ![c] = r] EXCEPT ![p] = r]
    BY <2>1, <2>2
  <2> HIDE DEF r
  <2> QED BY <1>1, <1>4, <2>3 DEF SigTypeOK
<1>8. /\ InHandler(p) => mainRegs' = [mainRegs EXCEPT ![c] = mainRegs[p]]
      /\ ~ InHandler(p) => \A q \in Proc : mainRegs'[q] = IF q \in {p, c} THEN m ELSE mainRegs[q]
      /\ mainRegs' \in [Proc -> Main]
  <2>1. CASE InHandler(p)
    BY <1>1, <2>1 DEF sys_fork, Copied, SigTypeOK
  <2>2. CASE ~ InHandler(p)
    <3>1. mainRegs' = [[mainRegs EXCEPT ![c] = m]
                       EXCEPT ![p] = [[mainRegs EXCEPT ![c] = m][p] EXCEPT !.eax = 0]]
      BY <2>2 DEF sys_fork
    <3>2. [mainRegs EXCEPT ![c] = m][p] = mainRegs[p]
      BY <1>1, <1>2 DEF SigTypeOK
    <3>3. mainRegs' = [[mainRegs EXCEPT ![c] = m] EXCEPT ![p] = m]
      BY <3>1, <3>2
    <3> HIDE DEF m
    <3> QED BY <1>1, <1>5, <2>2, <3>3 DEF SigTypeOK
  <2> QED BY <2>1, <2>2
<1> HIDE DEF r, m
<1>9. /\ mode' = [mode EXCEPT ![p] = "calling", ![c] = "away"]
      /\ handler' = [handler EXCEPT ![c] = handler[p]]
      /\ sig_queue' = [sig_queue EXCEPT ![c] = sig_queue[p]]
      /\ sig_head' = [sig_head EXCEPT ![c] = sig_head[p]]
      /\ sig_tail' = [sig_tail EXCEPT ![c] = sig_tail[p]]
      /\ in_event' = [in_event EXCEPT ![c] = in_event[p]]
      /\ main_mission_stack' = [main_mission_stack EXCEPT ![c] = main_mission_stack[p]]
      /\ backup_esp' = [backup_esp EXCEPT ![c] = backup_esp[p]]
      /\ pending' = [pending EXCEPT ![c] = pending[p]]
      /\ deaf' = [deaf EXCEPT ![c] = deaf[p]]
  BY DEF sys_fork, Copied
<1>10. SigTypeOK'
  BY <1>1, <1>7, <1>8, <1>9 DEF SigTypeOK, Mode
<1>11. RingExact'
  <2> SUFFICES ASSUME NEW q \in Proc
               PROVE  Holds(sig_queue'[q], sig_head'[q], sig_tail'[q], pending'[q])
    BY DEF RingExact
  <2> DEFINE o == IF q = c THEN p ELSE q
  <2>1. /\ sig_queue'[q] = sig_queue[o] /\ sig_head'[q] = sig_head[o]
        /\ sig_tail'[q] = sig_tail[o] /\ pending'[q] = pending[o]
    BY <1>1, <1>9 DEF SigTypeOK
  <2> QED BY <1>1, <2>1 DEF RingExact
<1>12. \A q \in Proc : InHandler(q)' <=> IF q = c THEN InHandler(p) ELSE InHandler(q)
  BY <1>4, <1>7 DEF InHandler
<1>13. ASSUME NEW q \in Proc, mode'[q] # "none"
       PROVE  Context(q)' /\ (~ HandlerForks /\ InHandler(q)' => backup_esp'[q] = q)
  <2> DEFINE o == IF q = c THEN p ELSE q
  <2>1. mode[o] # "none"
    BY <1>1, <1>2, <1>9, <1>13 DEF SigTypeOK
  <2>2. Context(o) /\ (InHandler(q)' <=> InHandler(o))
    BY <1>1, <1>12, <2>1 DEF ContextInv
  <2>3. /\ in_event'[q] = in_event[o] /\ deaf'[q] = deaf[o]
        /\ main_mission_stack'[q] = main_mission_stack[o] /\ backup_esp'[q] = backup_esp[o]
    BY <1>1, <1>9 DEF SigTypeOK
  <2>4. InHandler(o) => mainRegs'[q] = mainRegs[o]
    BY <1>1, <1>8 DEF SigTypeOK
  <2>5. ~ InHandler(o) => regs'[q] = mainRegs'[q]
    <3> SUFFICES ASSUME ~ InHandler(o) PROVE regs'[q] = mainRegs'[q]
      OBVIOUS
    <3>1. regs[o] = mainRegs[o]
      BY <2>2 DEF Context
    <3>2. CASE o = p
      BY <1>6, <1>7, <1>8, <3>1, <3>2
    <3>3. CASE o # p
      <4>1. q \notin {p, c} /\ regs'[q] = regs[q]
        BY <1>7, <3>3
      <4>2. mainRegs'[q] = mainRegs[q]
        BY <1>1, <1>8, <4>1 DEF SigTypeOK
      <4> QED BY <3>1, <4>1, <4>2
    <3> QED BY <3>2, <3>3
  <2>6. Context(q)'
    BY <2>2, <2>3, <2>4, <2>5 DEF Context
  <2>7. ~ HandlerForks /\ InHandler(q)' => backup_esp'[q] = q
    BY <1>2, <2>1, <2>2, <2>3 DEF SigInv, OwnStack
  <2> QED BY <2>6, <2>7
<1>14. SigInv'
  BY <1>10, <1>11, <1>13 DEF SigInv, ContextInv, OwnStack
<1> QED BY <1>12, <1>14
\* A set of naturals has a least member ...
LEMMA LeastNat ==
    ASSUME NEW T \in SUBSET Nat, T # {}
    PROVE  \E m \in T : \A n \in T : m <= n
<1>1. PICK m \in T : \A n \in T : ~ (<<n, m>> \in OpToRel(<, Nat))
  BY NatLessThanWellFounded, WFMin
<1>2. \A n \in T : ~ (n < m)
  BY <1>1 DEF OpToRel
<1> QED BY <1>2

\* ... so sys_sigregister finds a signal that is free.
LEMMA FirstFreeLemma ==
    ASSUME NEW p \in Proc, FreeSigs(p) # {}
    PROVE  FirstFree(p) \in FreeSigs(p)
<1>1. FreeSigs(p) \in SUBSET Nat
  BY SignalAssumption DEF FreeSigs, Sig
<1> QED BY <1>1, LeastNat DEF FirstFree

\* Every step keeps the invariant.
LEMMA SigStep == SigInv /\ [SigNext]_sigVars => SigInv'
<1> SUFFICES ASSUME SigInv, [SigNext]_sigVars PROVE SigInv'
  OBVIOUS
<1>1. SigTypeOK
  BY DEF SigInv
<1>2. CASE UNCHANGED sigVars
  <2>1. NoneStays /\ calls' \in Nat
    BY <1>1, <1>2 DEF sigVars, NoneStays, SigTypeOK
  <2> QED BY <1>2, <2>1, QuietStep DEF sigVars
<1>3. ASSUME NEW p \in Proc,
             Compute(p) \/ Interrupted(p) \/ Sleeps(p) \/ Woken(p) \/ Exit(p) \/ sys_sigreturn(p)
      PROVE  SigInv'
  <2>1. CASE Compute(p)
    <3>1. NoneStays /\ calls' \in Nat /\ RingOK'
      BY <1>1, <2>1, RingFrame DEF Compute, NoneStays, SigTypeOK, pcbVars
    <3>2. PICK v \in Value : Result(p, v)
      BY <2>1 DEF Compute
    <3>3. handler' \in [Proc -> [Sig -> Func \cup {NULL}]]
      BY <1>1, <2>1 DEF Compute, SigTypeOK, pcbVars
    <3> QED BY <2>1, <3>1, <3>2, <3>3, ResultStep DEF Compute, pcbVars
  <2>2. CASE Interrupted(p)
    <3>1. NoneStays /\ calls' \in Nat
      BY <1>1, <2>2, ModeLemma DEF Interrupted, Mode, SigTypeOK
    <3> QED BY <2>2, <3>1, QuietStep DEF Interrupted
  <2>3. CASE Sleeps(p)
    <3>1. NoneStays /\ calls' \in Nat
      BY <1>1, <2>3, ModeLemma DEF Sleeps, Mode, SigTypeOK
    <3> QED BY <2>3, <3>1, QuietStep DEF Sleeps
  <2>4. CASE Woken(p)
    <3>1. NoneStays /\ calls' \in Nat
      BY <1>1, <2>4, ModeLemma DEF Woken, Mode, SigTypeOK
    <3>2. RingOK'
      BY <2>4, RingFrame DEF Woken, pcbVars
    <3>3. handler' \in [Proc -> [Sig -> Func \cup {NULL}]]
      BY <1>1, <2>4 DEF Woken, SigTypeOK, pcbVars
    <3>4. 0 \in Value /\ Result(p, 0)
      BY <2>4 DEF Woken, Value
    <3> QED BY <2>4, <3>1, <3>2, <3>3, <3>4, ResultStep DEF Woken, pcbVars
  <2>5. CASE intr_exit(p)
    <3>1. NoneStays /\ calls' \in Nat
      BY <1>1, <2>5, ModeLemma DEF intr_exit, Leaves, Mode, SigTypeOK
    <3> QED BY <2>5, <3>1, QuietStep DEF intr_exit
  <2> QED BY <1>3, <2>1, <2>2, <2>3, <2>4, <2>5,
             NoHandlerLemma, do_signalLemma, sys_sigreturnLemma DEF Exit
<1>4. ASSUME NEW p \in Proc, SysCall(p) PROVE SigInv'
  <2>1. calls' \in Nat
    BY <1>1, <1>4 DEF SysCall, Counted, SigTypeOK
  <2>2. Calls(p) => NoneStays
    BY <1>1, ModeLemma DEF Calls, Mode
  <2>3. {0, -1} \subseteq Value
    BY DEF Value
  <2>4. FreeSigs(p) # {} => FirstFree(p) \in Sig
    <3> SUFFICES ASSUME FreeSigs(p) # {} PROVE FirstFree(p) \in FreeSigs(p)
      BY DEF FreeSigs
    <3> QED BY FirstFreeLemma
  <2>5. ASSUME NEW f \in Func,
               handler' = handler \/ handler' = [handler EXCEPT ![p][FirstFree(p)] = f]
        PROVE  handler' \in [Proc -> [Sig -> Func \cup {NULL}]]
    <3>1. handler \in [Proc -> [Sig -> Func \cup {NULL}]]
      BY <1>1 DEF SigTypeOK
    <3>2. [handler[p] EXCEPT ![FirstFree(p)] = f] \in [Sig -> Func \cup {NULL}]
      BY <3>1
    <3> QED BY <2>5, <3>1, <3>2
  <2>6. ASSUME NEW f \in Func, sys_sigregister(p, f) PROVE SigInv'
    <3>1. RingOK' /\ NoneStays
      BY <2>2, <2>6, RingFrame DEF sys_sigregister
    <3>2. handler' \in [Proc -> [Sig -> Func \cup {NULL}]]
      BY <2>5, <2>6 DEF sys_sigregister
    <3>3. PICK v \in Value : Result(p, v)
      BY <2>3, <2>6 DEF sys_sigregister
    <3> QED BY <2>1, <2>6, <3>1, <3>2, <3>3, ResultStep DEF sys_sigregister
  <2>7. ASSUME NEW f \in Func, sys_test(p, f) PROVE SigInv'
    <3>1. NoneStays
      BY <2>2, <2>7 DEF sys_test
    <3>2. RingOK'
      <4>1. CASE FreeSigs(p) = {} \/ sigq_full(p)
        BY <2>7, <4>1, RingFrame DEF sys_test
      <4>2. CASE ~ (FreeSigs(p) = {} \/ sigq_full(p))
        BY <2>4, <2>7, <4>2, sigq_putLemma DEF sys_test
      <4> QED BY <4>1, <4>2
    <3>3. handler' \in [Proc -> [Sig -> Func \cup {NULL}]]
      BY <2>5, <2>7 DEF sys_test
    <3>4. 0 \in Value /\ Result(p, 0)
      BY <2>3, <2>7 DEF sys_test
    <3> QED BY <2>1, <2>7, <3>1, <3>2, <3>3, <3>4, ResultStep DEF sys_test
  <2>8. ASSUME NEW s \in Sig, sys_sigrelease(p, s) PROVE SigInv'
    <3>1. RingOK' /\ NoneStays
      BY <2>2, <2>8, RingFrame DEF sys_sigrelease
    <3>2. handler' \in [Proc -> [Sig -> Func \cup {NULL}]]
      BY <1>1, <2>8 DEF sys_sigrelease, SigTypeOK
    <3>3. 0 \in Value /\ Result(p, 0)
      BY <2>3, <2>8 DEF sys_sigrelease
    <3> QED BY <2>1, <2>8, <3>1, <3>2, <3>3, ResultStep DEF sys_sigrelease
  <2>9. ASSUME NEW t \in Proc, NEW s \in Sig, sys_sendsignal(p, t, s) PROVE SigInv'
    <3>1. NoneStays
      BY <2>2, <2>9 DEF sys_sendsignal
    <3>2. RingOK'
      BY <2>9, RingFrame, sigq_putLemma DEF sys_sendsignal
    <3>3. handler' \in [Proc -> [Sig -> Func \cup {NULL}]]
      BY <1>1, <2>9 DEF sys_sendsignal, SigTypeOK
    <3>4. PICK v \in Value : Result(p, v)
      BY <2>3, <2>9 DEF sys_sendsignal
    <3> QED BY <2>1, <2>9, <3>1, <3>2, <3>3, <3>4, ResultStep DEF sys_sendsignal
  <2>10. CASE sys_exit(p)
    <3>1. NoneStays
      BY <1>1, <2>10, ModeLemma DEF sys_exit, Mode
    <3> QED BY <2>1, <2>10, <3>1, QuietStep DEF sys_exit
  <2> QED BY <1>4, <2>1, <2>6, <2>7, <2>8, <2>9, <2>10, sys_forkLemma, sys_execvLemma DEF SysCall
<1> QED BY <1>2, <1>3, <1>4 DEF SigNext
----------------------------------------------------------------------------
(* Theorems.                                                                *)

\* Everything in a PCB has its type, the ring of every process holds exactly
\* the signals sent and not taken, and the registers of the main program are
\* where the next sigreturn or iret will find them.
THEOREM SigInvariant == SigSpec => []SigInv
<1> QED BY SigInitLemma, SigStep, PTL DEF SigSpec

\* The registers of the main program survive interrupts, system calls, forks
\* and handlers (backup_intr_stack, event_over), for any number of processes,
\* handlers and queued signals, provided no handler calls fork.
THEOREM ContextKeptTheorem == ~ HandlerForks => (SigSpec => []ContextKept)
<1> SUFFICES ASSUME ~ HandlerForks PROVE SigSpec => []ContextKept
  OBVIOUS
<1>1. SigInv => ContextKept
  BY DEF SigInv, ContextInv, Context, OwnStack, ContextKept, Alive
<1> QED BY <1>1, SigInvariant, PTL

\* A handler is entered only for the oldest pending signal, which is then taken
\* (sigq_put, sigq_get, check_signal), whoever sends and whoever forks.
THEOREM HandledInOrderTheorem == SigSpec => HandledInOrder
<1> DEFINE A == \A p \in Proc : ~ InHandler(p) /\ InHandler(p)' /\ mode[p] # "none" =>
                    /\ pending[p] # <<>>
                    /\ regs'[p].func = handler[p][Head(pending[p])]
                    /\ pending'[p] = Tail(pending[p])
<1>1. ASSUME SigInv, [SigNext]_sigVars PROVE [A]_sigVars
  <2> SUFFICES ASSUME SigNext, NEW q \in Proc,
                      ~ InHandler(q), InHandler(q)', mode[q] # "none"
               PROVE  /\ pending[q] # <<>>
                      /\ regs'[q].func = handler[q][Head(pending[q])]
                      /\ pending'[q] = Tail(pending[q])
    BY <1>1
  <2>1. SigTypeOK
    BY <1>1 DEF SigInv
  <2>2. ASSUME NEW p \in Proc, NEW v, v \in Value, Result(p, v) PROVE FALSE
    BY <2>1, <2>2, ResultLemma
  <2>3. ASSUME UNCHANGED regs PROVE FALSE
    BY <2>3 DEF InHandler
  <2>4. {0, -1} \subseteq Value
    BY DEF Value
  <2>5. PICK p \in Proc : \/ Compute(p) \/ Interrupted(p) \/ Sleeps(p) \/ Woken(p)
                          \/ Exit(p) \/ sys_sigreturn(p) \/ SysCall(p)
    BY DEF SigNext
  <2>6. CASE Compute(p) \/ Interrupted(p) \/ Sleeps(p) \/ Woken(p)
    BY <2>2, <2>3, <2>4, <2>6 DEF Compute, Interrupted, Sleeps, Woken
  <2>7. CASE SysCall(p)
    <3>0. calls' \in Nat
      BY <2>1, <2>7 DEF SysCall, Counted, SigTypeOK
    <3>1. ASSUME NEW c \in Proc, sys_fork(p, c) PROVE FALSE
      <4>1. q # c
        BY <3>1 DEF sys_fork
      <4> QED BY <1>1, <3>0, <3>1, <4>1, sys_forkLemma
    <3>2. ~ sys_execv(p)
      <4> SUFFICES ASSUME sys_execv(p) PROVE FALSE
        OBVIOUS
      <4>1. ~ InHandler(p)' /\ regs' = [regs EXCEPT ![p] = [at |-> "main", eax |-> 0]]
        BY <1>1, <3>0, sys_execvLemma DEF sys_execv
      <4> QED BY <2>1, <4>1 DEF SigTypeOK, InHandler
    <3>3. ~ sys_exit(p)
      BY <2>3 DEF sys_exit
    <3> QED BY <2>2, <2>4, <2>7, <3>1, <3>2, <3>3
            DEF SysCall, sys_sigregister, sys_sigrelease, sys_sendsignal, sys_test
  <2>8. CASE sys_sigreturn(p)
    <3>1. ~ InHandler(p)' /\ regs' = [regs EXCEPT ![p] = Restored(p)]
      BY <1>1, <2>8, sys_sigreturnLemma DEF sys_sigreturn
    <3> QED BY <2>1, <3>1 DEF SigTypeOK, InHandler
  <2>9. CASE intr_exit(p) \/ intr_exit_no_handler(p)
    BY <2>3, <2>9 DEF intr_exit, intr_exit_no_handler
  <2>10. CASE do_signal(p)
    <3>1. p = q
      BY <2>1, <2>10 DEF do_signal, SigTypeOK, InHandler
    <3>2. TakeSignal(p)
      BY <2>10 DEF do_signal
    <3>3. /\ pending[p] # <<>> /\ pending'[p] = Tail(pending[p])
          /\ sigq_get(p) = Head(pending[p])
      BY <1>1, <3>2, TakeSignalLemma
    <3>4. regs'[p].func = TakenHandler(p)
      BY <1>1, <2>10, do_signalLemma
    <3> QED BY <3>1, <3>3, <3>4 DEF TakenHandler
  <2> QED BY <2>5, <2>6, <2>7, <2>8, <2>9, <2>10 DEF Exit
<1> QED BY <1>1, SigInvariant, PTL DEF SigSpec, HandledInOrder
=============================================================================
