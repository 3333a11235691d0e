------------------------------- MODULE Signal -------------------------------
(***************************************************************************)
(* Signals (kernel/signal.c) and their delivery on the way back to user     *)
(* mode (intr_exit, syscall_handler and sys_sigreturn in kernel/kernel.S).  *)
(*                                                                         *)
(* A process is interrupted or calls the kernel; its registers go to the    *)
(* top of its kernel stack.  On the way out check_signal may send it to a   *)
(* handler instead: the registers are copied to main_mission_stack, because *)
(* the next interrupt overwrites the top of the stack, and sigreturn brings *)
(* them back.  Interrupts are off from the trap to iret, but the scheduler  *)
(* may let others run in between, who send signals to whom they like.       *)
(***************************************************************************)
EXTENDS Integers, Sequences

CONSTANTS
    Proc,                   \* PCBs of user processes
    first,                  \* the process there is at the start
    SIG_CNT, SIG_QUEUE_MAX_CNT,
    Func,                   \* addresses of handlers in user programs
    NULL,                   \* the null handler
    HandlerForks,           \* may a handler call fork?
    MaxCalls                \* bound: system calls about signals or processes

ASSUME SignalAssumption ==
    /\ first \in Proc
    /\ SIG_CNT \in Nat \ {0}
    /\ SIG_QUEUE_MAX_CNT \in Nat \ {0}
    /\ SIG_CNT <= SIG_QUEUE_MAX_CNT
    /\ SIG_QUEUE_MAX_CNT <= 127
    /\ NULL \notin Func
    /\ HandlerForks \in BOOLEAN
    /\ MaxCalls \in Nat

Sig == 0..(SIG_CNT - 1)
Place == 0..(SIG_QUEUE_MAX_CNT - 1)

\* The registers of a process: where it is and, standing for the others, eax:
\* -1 or anything else, a pid or the number of a signal, which 0 stands for.
Value == {-1, 0}
Main == [at : {"main"}, eax : Value]
Handling == [at : {"handler"}, eax : Value, func : Func]

VARIABLES
    mode,                   \* "user", "calling" the kernel, scheduled "away" or "asleep"
                            \* in the kernel, or "none": no such process
    regs,                   \* registers: in the CPU or at the top of the kernel stack
    handler,                \* task_struct.handler
    sig_queue,              \* the ring of signals ...
    sig_head, sig_tail,     \* ... where the next is put and taken
    in_event,
    main_mission_stack,     \* copy of the registers
    backup_esp,             \* whose kernel stack backup_esp points into
    mainRegs,               \* history: what the main program left in the registers
    pending,                \* history: signals sent and not taken yet
    deaf,                   \* history: has in_event been left set for good?
    calls                   \* system calls made so far

pcbVars == <<handler, sig_queue, sig_head, sig_tail, in_event,
             main_mission_stack, backup_esp>>
sigVars == <<mode, regs, pcbVars, mainRegs, pending, deaf, calls>>

InHandler(p) == regs[p].at = "handler"

----------------------------------------------------------------------------
(* Mutations of the definitions below, used to test the properties.        *)

\* sigq_get moves the tail before it reads.
sigq_get_late(p) == sig_queue[p][(sig_tail[p] + 1) % SIG_QUEUE_MAX_CNT]

\* event_over does not copy main_mission_stack back.
Restored_not(p) == regs[p]

\* event_over does not clear in_event.
event_flag_kept(p) == TRUE

----------------------------------------------------------------------------
(* The ring.                                                                *)

sigq_next(i) == (i + 1) % SIG_QUEUE_MAX_CNT
sigq_empty(p) == sig_head[p] = sig_tail[p]
sigq_full(p) == sigq_next(sig_head[p]) = sig_tail[p]

\* sigq_put on the ring of t; a full ring refuses.
sigq_put(t, s) ==
    /\ sig_queue' = [sig_queue EXCEPT ![t][sig_head[t]] = s]
    /\ sig_head' = [sig_head EXCEPT ![t] = sigq_next(@)]
    /\ pending' = [pending EXCEPT ![t] = Append(@, s)]

----------------------------------------------------------------------------
(* Entering and leaving the kernel.                                         *)

\* With interrupts off nobody runs but the process that is in the kernel.
Runs(p) == \A q \in Proc \ {p} : mode[q] # "calling"

GoTo(p, m) == mode' = [mode EXCEPT ![p] = m]

\* int 0x80 by p, from its main program or from a handler.
Calls(p) == mode[p] = "user" /\ Runs(p) /\ GoTo(p, "calling")
Counted == calls < MaxCalls /\ calls' = calls + 1

\* syscall_handler writes the result of the call to the saved eax.
Result(p, r) ==
    /\ regs' = [regs EXCEPT ![p].eax = r]
    /\ mainRegs' = IF InHandler(p) THEN mainRegs ELSE [mainRegs EXCEPT ![p].eax = r]

\* The main program of p computes.
Compute(p) ==
    /\ mode[p] = "user" /\ Runs(p) /\ ~ InHandler(p)
    /\ \E v \in Value : Result(p, v)
    /\ UNCHANGED <<mode, pcbVars, pending, deaf, calls>>

\* An interrupt after which another thread is scheduled.
Interrupted(p) ==
    /\ mode[p] = "user" /\ Runs(p)
    /\ GoTo(p, "away")
    /\ UNCHANGED <<regs, pcbVars, mainRegs, pending, deaf, calls>>

\* A system call that sleeps; a signal does not wake it.
Sleeps(p) ==
    /\ mode[p] = "user" /\ Runs(p)
    /\ GoTo(p, "asleep")
    /\ UNCHANGED <<regs, pcbVars, mainRegs, pending, deaf, calls>>

\* What p sleeps for has come about; the call returns 0.
Woken(p) ==
    /\ mode[p] = "asleep" /\ Runs(p)
    /\ GoTo(p, "away")
    /\ Result(p, 0)
    /\ UNCHANGED <<pcbVars, pending, deaf, calls>>

\* check_signal: is there a signal to take?
signal_due(p) == ~ in_event[p] /\ ~ sigq_empty(p)

Leaves(p) == mode[p] \in {"away", "calling"} /\ Runs(p) /\ GoTo(p, "user")

\* sigq_get moves the tail, check_signal sets in_event.
TakeSignal(p) ==
    /\ signal_due(p)
    /\ sig_tail' = [sig_tail EXCEPT ![p] = sigq_next(@)]
    /\ in_event' = [in_event EXCEPT ![p] = TRUE]
    /\ pending' = [pending EXCEPT ![p] = IF @ = <<>> THEN @ ELSE Tail(@)]
    /\ UNCHANGED <<handler, sig_queue, sig_head>>

\* What sigq_get returns.
sigq_get(p) == sig_queue[p][sig_tail[p]]
TakenHandler(p) == handler[p][sigq_get(p)]

\* intr_exit when check_signal finds nothing.
intr_exit(p) ==
    /\ Leaves(p)
    /\ ~ signal_due(p)
    /\ UNCHANGED <<regs, pcbVars, mainRegs, pending, deaf, calls>>

\* intr_exit when the handler of the signal has been released, or there never
\* was one: the process goes on, and in_event stays set.
intr_exit_no_handler(p) ==
    /\ Leaves(p)
    /\ TakeSignal(p)
    /\ TakenHandler(p) = NULL
    /\ deaf' = [deaf EXCEPT ![p] = TRUE]
    /\ UNCHANGED <<regs, main_mission_stack, backup_esp, mainRegs, calls>>

\* backup_intr_stack: what main_mission_stack holds afterwards.  A process
\* with a handler always returns to user mode, so cpl_down is true.
Backup(p) == regs[p]

\* .do_signal: the registers are saved and p goes to signal_handler_.
do_signal(p) ==
    /\ Leaves(p)
    /\ TakeSignal(p)
    /\ TakenHandler(p) # NULL
    /\ main_mission_stack' = [main_mission_stack EXCEPT ![p] = Backup(p)]
    /\ backup_esp' = [backup_esp EXCEPT ![p] = p]
    /\ regs' = [regs EXCEPT ![p] = [at |-> "handler", eax |-> 0, func |-> TakenHandler(p)]]
    /\ UNCHANGED <<mainRegs, deaf, calls>>

\* event_over: what it copies to the top of the stack of p, and in_event.
Restored(p) == main_mission_stack[p]
event_flag(p) == FALSE

\* signal_handler: the handler has returned; sys_sigreturn.  The stack it
\* switches to is the one backup_esp points into.
sys_sigreturn(p) ==
    /\ Calls(p)
    /\ InHandler(p)
    /\ backup_esp[p] = p
    /\ in_event' = [in_event EXCEPT ![p] = event_flag(p)]
    /\ regs' = [regs EXCEPT ![p] = Restored(p)]
    /\ UNCHANGED <<handler, sig_queue, sig_head, sig_tail,
                   main_mission_stack, backup_esp, mainRegs, pending, deaf, calls>>

----------------------------------------------------------------------------
(* System calls.                                                            *)

FreeSigs(p) == {s \in Sig : handler[p][s] = NULL}
FirstFree(p) == CHOOSE s \in FreeSigs(p) : \A r \in FreeSigs(p) : s <= r

sys_sigregister(p, f) ==
    /\ Calls(p)
    /\ IF FreeSigs(p) = {}
       THEN Result(p, -1) /\ UNCHANGED handler
       ELSE /\ Result(p, 0)
            /\ handler' = [handler EXCEPT ![p][FirstFree(p)] = f]
    /\ UNCHANGED <<sig_queue, sig_head, sig_tail, in_event,
                   main_mission_stack, backup_esp, pending, deaf>>

\* sys_sigrelease; a signal that is still queued stays there.
sys_sigrelease(p, s) ==
    /\ Calls(p)
    /\ Result(p, 0)
    /\ handler' = [handler EXCEPT ![p][s] = NULL]
    /\ UNCHANGED <<sig_queue, sig_head, sig_tail, in_event,
                   main_mission_stack, backup_esp, pending, deaf>>

\* sys_sendsignal to the process t, or to a tid nobody has.
sys_sendsignal(p, t, s) ==
    /\ Calls(p)
    /\ IF mode[t] = "none" \/ sigq_full(t)
       THEN Result(p, -1) /\ UNCHANGED <<sig_queue, sig_head, pending>>
       ELSE Result(p, 0) /\ sigq_put(t, s)
    /\ UNCHANGED <<handler, sig_tail, in_event, main_mission_stack, backup_esp, deaf>>

\* sys_test: registers a handler and sends itself the signal.
sys_test(p, f) ==
    /\ Calls(p)
    /\ IF FreeSigs(p) = {}
       THEN UNCHANGED handler
       ELSE handler' = [handler EXCEPT ![p][FirstFree(p)] = f]
    /\ IF FreeSigs(p) = {} \/ sigq_full(p)
       THEN UNCHANGED <<sig_queue, sig_head, pending>>
       ELSE sigq_put(p, FirstFree(p))
    /\ Result(p, 0)
    /\ UNCHANGED <<sig_tail, in_event, main_mission_stack, backup_esp, deaf>>

\* A PCB field of the child c is a copy of p's.
Copied(f, p, c) == [f EXCEPT ![c] = f[p]]

\* sys_fork: copy_pcb_vaddrbitmap_stack0 copies the whole PCB, queued signals
\* and backup_esp included; the child finds 0 in eax, the parent a pid.
sys_fork(p, c) ==
    /\ mode[p] = "user" /\ Runs(p)
    /\ InHandler(p) => HandlerForks
    /\ mode[c] = "none"
    /\ mode' = [mode EXCEPT ![p] = "calling", ![c] = "away"]
    /\ regs' = [regs EXCEPT ![c] = [regs[p] EXCEPT !.eax = 0], ![p].eax = 0]
    /\ mainRegs' = IF InHandler(p) THEN Copied(mainRegs, p, c)
                   ELSE [mainRegs EXCEPT ![c] = [mainRegs[p] EXCEPT !.eax = 0], ![p].eax = 0]
    /\ handler' = Copied(handler, p, c)
    /\ sig_queue' = Copied(sig_queue, p, c)
    /\ sig_head' = Copied(sig_head, p, c)
    /\ sig_tail' = Copied(sig_tail, p, c)
    /\ in_event' = Copied(in_event, p, c)
    /\ main_mission_stack' = Copied(main_mission_stack, p, c)
    /\ backup_esp' = Copied(backup_esp, p, c)
    /\ pending' = Copied(pending, p, c)
    /\ deaf' = Copied(deaf, p, c)

\* sys_execv: another program, the same PCB; handlers and in_event stay.
sys_execv(p) ==
    /\ Calls(p)
    /\ regs' = [regs EXCEPT ![p] = [at |-> "main", eax |-> 0]]
    /\ mainRegs' = [mainRegs EXCEPT ![p] = [at |-> "main", eax |-> 0]]
    /\ deaf' = [deaf EXCEPT ![p] = in_event[p]]
    /\ UNCHANGED <<pcbVars, pending>>

\* sys_exit; the first process is init, which never exits.  The time until the
\* parent has waited, in which a signal is queued and never taken, is left out.
sys_exit(p) ==
    /\ p # first
    /\ mode[p] = "user" /\ Runs(p)
    /\ GoTo(p, "none")
    /\ UNCHANGED <<regs, pcbVars, mainRegs, pending, deaf>>

----------------------------------------------------------------------------
SigInit ==
    /\ mode = [p \in Proc |-> IF p = first THEN "user" ELSE "none"]
    /\ regs = [p \in Proc |-> [at |-> "main", eax |-> 0]]
    /\ handler = [p \in Proc |-> [s \in Sig |-> NULL]]
    /\ sig_queue = [p \in Proc |-> [i \in Place |-> 0]]
    /\ sig_head = [p \in Proc |-> 0]
    /\ sig_tail = [p \in Proc |-> 0]
    /\ in_event = [p \in Proc |-> FALSE]
    /\ main_mission_stack = [p \in Proc |-> [at |-> "main", eax |-> 0]]
    /\ backup_esp = [p \in Proc |-> p]
    /\ mainRegs = regs
    /\ pending = [p \in Proc |-> <<>>]
    /\ deaf = [p \in Proc |-> FALSE]
    /\ calls = 0

SysCall(p) ==
    /\ Counted
    /\ \/ \E f \in Func : sys_sigregister(p, f) \/ sys_test(p, f)
       \/ \E s \in Sig : sys_sigrelease(p, s)
       \/ \E t \in Proc, s \in Sig : sys_sendsignal(p, t, s)
       \/ \E c \in Proc : sys_fork(p, c)
       \/ sys_execv(p)
       \/ sys_exit(p)

Exit(p) == intr_exit(p) \/ intr_exit_no_handler(p) \/ do_signal(p)

SigNext ==
    \E p \in Proc :
        \/ Compute(p) \/ Interrupted(p) \/ Sleeps(p) \/ Woken(p)
        \/ Exit(p) \/ sys_sigreturn(p) \/ SysCall(p)

SigSpec == SigInit /\ [][SigNext]_sigVars

\* The timer interrupts user code, who was scheduled away is scheduled again,
\* and handlers return.  Sleepers need not be woken, and nobody need call.
SigFairSpec ==
    /\ SigSpec
    /\ \A p \in Proc :
        /\ SF_sigVars(Interrupted(p))
        /\ SF_sigVars(Exit(p))
        /\ SF_sigVars(sys_sigreturn(p))

----------------------------------------------------------------------------
(* Properties.                                                              *)

Alive == {p \in Proc : mode[p] # "none"}

\* The registers of the main program survive any number of interrupts, system
\* calls, forks and handlers.  While a handler runs they are in
\* main_mission_stack, backup_esp points into the own stack, and in_event keeps
\* every other handler out; else they are in the CPU or on the stack, and
\* in_event is set only if it was left set for good.
ContextKept ==
    \A p \in Alive :
        IF InHandler(p)
        THEN /\ main_mission_stack[p] = mainRegs[p]
             /\ backup_esp[p] = p
             /\ in_event[p] /\ ~ deaf[p]
        ELSE regs[p] = mainRegs[p] /\ in_event[p] = deaf[p]

\* A handler is entered only for the oldest signal sent to the process and not
\* taken yet, which is then taken: the ring neither loses, repeats nor swaps.
HandledInOrder ==
    [][\A p \in Proc : ~ InHandler(p) /\ InHandler(p)' /\ mode[p] # "none" =>
            /\ pending[p] # <<>>
            /\ regs'[p].func = handler[p][Head(pending[p])]
            /\ pending'[p] = Tail(pending[p])]_sigVars

\* Queued signals are all taken, unless the process sleeps in the kernel, exits
\* or has been left deaf by a signal without a handler.
SignalTaken ==
    \A p \in Proc :
        (p \in Alive /\ ~ sigq_empty(p))
            ~> (sigq_empty(p) \/ deaf[p] \/ mode[p] \in {"asleep", "none"})
=============================================================================
