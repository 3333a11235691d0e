# experimental-os: a TLA+ verification project

experimental-os is a small x86 kernel for one CPU: threads and processes, locks,
a heap, a keyboard, pipes, an IDE disk with a file system, signals, and an
NE2000 network card with the beginnings of TCP/IP. This directory models its
core, model-checks it with TLC on small instances and proves the safety
properties of every module but the file system's with TLAPS, for every instance.

`PROJECT.json` lists components, runs, the mutants that show each property can
fail, the source lines behind every definition, hazards, findings and theorems.

To check: `tlc -config MCSched.cfg MCSched` (and likewise for the other runs);
`tlapm SyncProofs.tla` (and the other modules `*Proofs`; `ShellProofs` and
`MemoryProofs` take some minutes each).

## 1. The system

Interrupt gates turn interrupts off, and so does `int 0x80`. Hence:

- **processes** are preempted by the timer in user mode only; inside a system
  call they lose the CPU only where they block (`thread_block`, `sema_down`,
  `ioq_wait`, `sys_wait`, the disk);
- **kernel threads** (`main` after `intr_enable` in `kernel/init.c:31`,
  `ksoftirqd`, `idle`) run with interrupts on and are preempted anywhere except
  between `intr_disable` and `intr_set_status`.

| Component | State | Operations | Interacts with | What is hard | What makes it correct |
|---|---|---|---|---|---|
| Scheduler (`thread/thread.c`, `device/timer.c`, `kernel/interrupt.c`) | status, `thread_ready_list`, ticks, interrupt flag | schedule, yield, block, unblock, start, exit, timer interrupt | everything | preemption, the idle thread, front insertion | list and status agree; there is always a thread to run; nobody starves |
| Semaphores, locks (`thread/sync.c`) | value, waiters, holder, holder_repeat_nr | lock_acquire, lock_release, sema_down, sema_up | scheduler | preemption between the assignments, barging | exclusion, recursion count, no lost wakeup |
| Byte queues (`device/ioqueue.c`, `keyboard.c`, `shell/pipe.c`) | ring, two waiter slots, lock | getchar, putchar, key interrupt, pipe read/write | scheduler, locks | test, lock and sleep; full and empty; interrupt as producer | bounded FIFO, slots sound, keys not missed |
| Processes (`userprog/fork.c`, `wait_exit.c`, `thread.c`) | PCBs, pid pool, `thread_all_list`, parents | fork, exit, wait | scheduler, heap, files | exit against wait, orphans, reuse of pids | unique pids, a living parent, wait returns |
| Network receive (`thread/ksoftirqd.c`, `network/*`) | NIC ring and ISR, softirq queue, message pool | interrupt, softirq_queue_put, ksoftirqd loop | scheduler, heap | merged and misread interrupts, full queue, test and sleep | every NET_RX has a frame; buffers not shared; sleeper woken |
| Heap (`kernel/memory.c`, `lib/kernel/bitmap.c`) | bitmaps, page table, arenas, free lists, pool lock | malloc, free, get_kernel_pages, mfree_page | locks; used by fork, exec, exit, fs, network | failures half way, unlocked callers | memory never shared, arenas exact, lock given back |
| Files (`fs/file.c`, `inode.c`, `fs.c`) | file_table, fd tables, open_inodes, write_deny | open, close, read, write, unlink, fork | disk, heap | state read before a disk wait and used after it | one slot per open, one copy per inode, one writer |
| Directories and disk (`fs/dir.c`, `fs.c`) | bitmaps, inodes and entries on disk | create, delete, mkdir, rmdir | disk | crash between writes | no entry without inode |
| IDE (`device/ide.c`) | channel lock, expecting_intr, disk_done | read, write, interrupt | locks, scheduler | interrupt before the wait | each transfer waits for its own interrupt |
| Signals (`kernel/signal.c`, `kernel.S`) | ring of signals of a PCB, handlers, in_event, saved registers | register, release, send, delivery on the way out, sigreturn | every return to user mode; fork, exec, exit | signals and interrupts during a handler | handlers one at a time and in order, registers restored, signals taken |
| Shell (`shell/*`, `lib/kernel/hash.c`) | line buffer, argv, working directory, descriptors of the pipe | keys, commands, redirection, fork and wait | byte queues, files, processes | what a corrected line leaves in the buffer; paths at the root; who holds the pipe | runs what was typed, paths are clean, the pipe outlives the line's commands |
| Sockets, transmit (`network/*`) | listen lists, ARP cache, msg_waitarp_list | not in the syscall table | softirq | | |
| Console, libraries, loader, ELF loading | | | | sequential | |

## 2. Modules

```
Sched <- SchedProofs                 Fifo (abstract queue)
  ^        ^                           ^
  +-- Sync    <- SyncProofs            |
  +-- IOQueue <- IOQueueProofs         |
  |      +-----------------------------+
  +-- SoftIrq <-+ DriverProofs      Memory <- MemoryProofs
  +-- Ide     <-+                   Signal <- SignalProofs
  +-- Proc    <- ProcProofs         Shell  <- ShellProofs      FileSys
```

The four proof modules below it on the left also extend `SchedProofs`.

`Sched` is the specification the rest of the kernel refines: `Sync`, `IOQueue`
and `Proc` extend it and take its operators (`thread_block`, `thread_unblock`,
...) for what they do to threads. The runs `sync` and `proc` check `SchedSpec` as
a PROPERTY: these clients never call the scheduler in a way `SchedNext` does not
allow, so the theorems about `Sched` hold under them. For all five modules that
extend `Sched` this is proved.

**Sched.** One step is a stretch of code with interrupts off. `saved[t]` is the
interrupt flag thread `t` goes on with: `INTR_ON` if the timer or a system call
return resumes it, otherwise the one it called `thread_block` with. Clients are
left open: the running thread may at any time block, yield, wake a thread that
is stopped, start or reap one, exit, turn interrupts on or off. Time slices are
the real `uint8_t` values. `TASK_DIED` also stands for a PCB that is not
allocated.

**Sync.** `pc` cuts `lock_acquire` and `lock_release` wherever a preemption can
be seen: before `sema_down`, after it, between the assignments to `holder` and
`holder_repeat_nr`, before `sema_up`. `sema_down` and `sema_up` run with
interrupts off and are single steps except for the sleep. `held` is a history
variable: what a thread still has to release. `MaxDepth` bounds recursion.

**IOQueue / Fifo.** Both uses of `struct ioqueue` in one model: the keyboard
buffer, which only an interrupt fills (and which drops a key when full), and a
pipe, which processes write and read. Everything runs with interrupts off, so a
lock is a holder and a list of waiters, and the only cuts are the sleeps: in
`lock_acquire` and in `ioq_wait`. As in the code, the queue is not tested again
between the two. `pipe_write` asks for `bufsize - length` bytes, one more than
fit. `Fifo` is what a queue promises; the refinement mapping reads the ring from
`tail` to `head`. Decoding of scan codes is abstracted to `Key`.

**Proc.** fork, wait and exit with the pid pool as the code keeps it: counters
modulo 256, `allocate_pid` and `allocate_tid` as two operations that both count.
`sys_exit` is cut before its last `thread_block`, which shows that the order
"wake the parent, then hang" is safe because interrupts are off. `init` forks
once and waits for ever, as `kernel/main.c` does; the end of `main` is there
too. The boot threads are idle, main and init; ksoftirqd, which is started before them,
is left out, since it takes a tid for good and counts on main's pid, like idle. A PCB is
read for its pid and then freed, while `thread_exit` reads it just after
`mfree_page` (`thread.c:245`, with interrupts off: nobody has used the page yet).
Memory, files and exit codes are left out; `release_prog_resource` changes
nothing the model has. fork fails for want of a PCB page; the later error paths
of `copy_process` (which leak what was allocated) are not modelled.

**SoftIrq.** The NIC (external: modelled from how the driver uses it) has a ring
of frames and an interrupt status (ISR); the handler reads the status, may queue a
NET_RX and then clears the whole status, and a frame may arrive between the two.
The PIC is programmed for edges (`interrupt.c`, ICW1 0x11), so a request is latched
(`irr`) only when the first bit of the ISR is set. ksoftirqd runs with interrupts on,
so its test of the queue and its sleep are two steps, and so is the time `ne2000_recv`
has register page 1 selected to read CURR (`SelectPage1`, `ReadCurr`,
`ethernet_recv`). A handler that runs then reads CURR in place of the ISR (any value
of its bit 0), overwrites CURR (`clobbered`) and leaves the ISR as it is: the NIC
finds no room in its ring any more and the PIC never sees another edge. The history
variable `stale` says that a page without a frame has been received.

What a frame is turns out when it is read, and what the protocols do with it is
reduced to what becomes of the buffer: freed, lost (no listener: nothing can listen,
since the socket calls are not in the syscall table), or, for an echo request from a
host that is not in the ARP cache, linked into `msg_waitarp_list` and then freed.
Both lists go through the one `tag` of a message. `free` is what `msg_free_list` links
from its head, and `waitarp` the last message of the other list: the next message
linked there becomes its successor in `msg_free_list` too, and cuts off what came
behind. So buffers are lost. An ARP reply walks `msg_waitarp_list` and leaves it
by the tail of `msg_free_list` (`network.c:133`): it reads whatever lies behind as a
list element. The model ends there (`astray`).

**Memory.** The kernel half of `memory.c`. Each scan of a bitmap and the update
after it are two steps, since kernel threads can be preempted between them.
`sys_malloc_` and `sys_free_` take the lock; `get_kernel_pages` and `mfree_page`
do not. Threads in `Preemptible` (main, ksoftirqd) have interrupts on and use the first
two; a process has interrupts off and calls all four, at any time, also while others are
preempted in the middle of theirs. (main and ksoftirqd are given their pages before
interrupts are on, and `thread_exit` turns them off.) A failure in the middle of
`malloc_page` leaves addresses and frames taken, as in the code. What a call without
the lock can break is told by one event, the history variable `torn`: it sets a bit
that a preempted call has found clear and is going to set itself (addresses in
`vaddr_get`, a frame in `palloc`). The code has nothing against it, and what follows is
the ASSERT or PANIC of `page_table_add`, or a frame with two owners. `PiecesApart`,
`BlocksExact` and `PteNotRepeated` say that nothing else can break the heap: they hold
up to that event. The lock, the types and the scan are right beyond it, too. One
size class of blocks stands for the seven. A byte of a bitmap has `Byte` bits (8 in
the code). The TLB is not modelled: `page_table_pte_remove` gives `invlpg` the address of
its local variable (`memory.c:407`), so the entry of the page freed may stay in use
until it is evicted. The actions use `bitmap_scan`, which says
what the function answers: it gives up, or it finds the first run.
`bitmap_scan_loop` is the loop as programmed; `ScanRight` compares the two in
every reachable bitmap and says which runs are missed: those that begin in the
last `cnt / 8` bytes, where line 25 gives up before looking.

**FileSys.** One process makes system calls one after the other. A call changes
memory (`cur_part`, `file_table`, the process's `fd_table`) and hands the disk a
sequence of writes; nobody sees memory in between, so the call is one step that
leaves its writes in `todo`, and `Flush` carries them out in the order the code
issues them. `Crash` is a power failure at any point: what was written stays,
`mount_partition` reads memory back. Between two calls it may happen any number
of times, within a call `MaxCrashes` times. The helpers (`sync_dir_entry`,
`delete_dir_entry`, `inode_release`, `file_write`, ...) are functions of a record
`p` that carries memory, the disk as it will be, the log of writes and the first
ASSERT that failed (`stop`); each is named after its function. A block holds
entries, a table or data. The partition is formatted as the code does, with one
block bit beyond the end left free (`fs.c:116`). A call that is refused changes
nothing and is not a step; `sys_malloc` succeeds.

`sys_open` of an existing file does not close the directory it found it in
(`fs.c:342`). `left` counts how often that happened to each directory (bounded by
`MaxLeft`); a directory left open can be removed, since only files in `file_table` are
refused, and its copy then stays in `open_inodes`. When its number is given out
again, `inode_open` finds the stale copy: the history variable `stale` is set, and
with it `TreeSound` no longer holds (mkdir /a, create /a/b, close, open /a/b, close,
unlink /a/b, rmdir /a, create /a, close). The three properties hold up to that event.
A path that leads through a regular file is looked up as the code does: `search_file`
stops at the file, and `unlink("/a/x")` with a file `a` removes `a` (`fs.c:459`), which is
then the subject of the call.

What the instances leave out, because the code does not keep its promises there:
a write that fails after it took a table block (`file.c:279`: the table's number
stays in the inode without a table on disk), directories of more than twelve
blocks (`sync_dir_entry` never reads the table, `dir.c:113`, and
`delete_dir_entry` loops for ever, `dir.c:238`), a file of exactly 71680 bytes
(passes the test in `file.c:193`, fails the ASSERT in `file.c:236`), inode
numbers above 255 (`inode_sync` keeps them in a `uint8_t`). The definitions model
all of these; the constants decide.

**Ide.** One channel. The code of `ide_read` and `ide_write` is cut where a
thread can be preempted or sleep; processes are in it with interrupts off, main
with interrupts on. The disk (external) is busy, offers or asks for data, and
interrupts once for a command, as the driver expects. `busy_wait` makes
`TimeLimit` turns and calls `mtime_sleep` in between, which yields until a timer
tick. `Machines` says whether the disk asks for the data of a write at once (an
emulator does) and who uses it.

**Signal.** A process is in user mode, in a system call (interrupts off, alone),
or away: interrupted or asleep. Every way out of the kernel goes through
`intr_exit`, which asks `check_signal`; `do_signal` saves the registers in
`main_mission_stack` and enters the handler, `sys_sigreturn` brings them back.
The registers are where the process is and one value, `eax`, which system calls
change. History variables: the registers the main program should have, the
signals sent and not taken, and `deaf`: `in_event` was left set for good, because
a signal without a handler was taken (`check_signal` sets the flag before it
looks, and nothing clears it) or because a handler called execv, which keeps the
whole PCB. `HandlerForks` (FALSE in the run) lets handlers fork: the child's
`backup_esp` then points into its parent's stack. Left out: the argument of a
signal (`check_signal` reads `sig_arg[sig]`, `sigq_put` writes
`sig_arg[sig_head]`; the two agree by luck only), the frame `.do_signal` builds
when the privilege does not change (no thread without user mode has a handler),
a sigreturn outside a handler, the time between exit and wait.

**Shell.** Keys come in one at a time; what readline leaves in the buffer behind
`pos` stays there. A line is cut at "|" and blanks, a command is looked up in the
hash table with its real chains (`HashMod` is the number of hash values, 2^32 in
the code), built-in commands run in the shell, others in a child that reads, prints
and exits while the shell waits. A built-in command is one that takes a path
(mkdir, rmdir, rm, ls), cd, or one that looks at no path; what it prints is left
open, since all that matters is how much goes to the pipe. Descriptors 3 and 4
are the two ends of the pipe; `count` is `fd_pos` of its slot. `cd` clears
`MAX_PATH_LEN` bytes of `cwd_cache`, which has 64 (`builtin_cmd.c:93`); in
`build/kernel.map` `cmd_line` comes right behind it, so the part of the line that is not
cut off yet becomes the empty string, or the end of a path longer than `cwd_cache`
(`Overwritten`; `cache_len` is the 64, `each_cmd` the place in `cmd_line` reached so far).
History variables: `line`, the line as the user means it, `erased`, what a cd has left of
it, `nr`, the commands executed, and `clear`, the last path cleaned. Names and paths may
be of any length; in the code `name[16]` and `abs_path[512]` are filled without a bound
(`builtin_cmd.c:13`, 49, 58, `fs.c:210`). A child whose `execv` answers -1 falls back into
`my_shell` as a second shell (`shell.c:123`); the model's child reads, prints and exits. The
model stops (`stopped`) where the code runs out of its own rules: a line longer
than the buffer, a command without words (`cmd2func(NULL)`), more than
`MAX_ARG_NR` words (stored behind `argv` before the count is tested), and the
last close of a pipe. It is `blocked` when a command has filled the pipe.

## 3. Runs

| Run | Instance | Distinct states | Shows |
|---|---|---|---|
| `sched` | idle, main and two threads, slices of 1 or 2 ticks | 8 416 | `SchedTypeOK`, `ReadyExact`, `IdleAvailable`, `StarvationFree` |
| `sync` | idle and three threads, one lock, depth 2 | 414 464 | `SyncTypeOK`, `MutualExclusion`, `HolderCountsRight`, `WaitersAsleep`, `NoLostWakeup`, refinement of `SchedSpec` |
| `ioqueue` | idle, one keyboard reader, two pipe writers, one pipe reader, ring of 3 | 331 743 | `WaiterSlotSafe`, `LockWaitersServed`, `NoMissedKey`, refinement of `Fifo` (`RingIsFifo`), `KeyIsRead` |
| `proc` | idle, main, init and three PCBs, 6 pids | 365 146 | `PidsExact`, `ParentAlive`, `WaitSound`, `DirsExact`, refinement of `SchedSpec`, `WaitReturns` |
| `softirq` | idle, ksoftirqd, a process; queue of 2 slots, 3 buffers, NIC ring of 2 | 127 633 | `ReceiveFindsFrame`, `BufferNotShared`, `SleeperWoken` |
| `softirq_lost` | the same | violation | `SleepsOnlyIdle` fails (finding 1) |
| `memory` | 4 pages of addresses, 2 frames, bytes of 2 bits, arenas of 2 blocks, requests of 1 or 2 pages; a process beside main, which is preempted | 1 836 187 | `ScanRight`, `PiecesApart`, `BlocksExact`, `LockGivenBack`, `PteNotRepeated` |
| `filesys` | two names, paths of two components, 3 inodes, 3 entries a block; a partition of 4 blocks and one of 9; a directory left open twice at most; power failures between calls | 242 281 | `TreeSound`, `OpenCountsExact`, `OthersUntouched` |
| `filesys_crash` | files in the root, one power failure within a call | violation | `EntryFoundOnce` fails (finding 2) |
| `ide` | idle, main, two processes; all three on a quick disk, two of them on a slow one | 27 292 | `CommandMatched`, `ChannelReleased` |
| `signal` | two PCBs, 2 signals, ring of 3, one handler function, 4 system calls about signals or processes | 76 239 | `ContextKept`, `HandledInOrder`, `SignalTaken` |
| `shell` | one letter, slash, dot, blank and bar; lines of up to 6 keys, 2 words a command, pipe of 3 bytes, five directories, a `cwd_cache` of 2 characters; a hash table of two chains | 2 617 469 | `ExecutesWhatWasTyped`, `PathClear`, `PipeCounted` |

Why the bounds are enough. *sched*: four threads give a running one, one at the
head, one in the middle and one at the tail of the list. *sync*: an owner, a
woken waiter and a third thread that barges in; depth 2 exercises both branches
of acquire and release. *ioqueue*: a ring of three has a full, an empty and a
wrapped state with room in between, counts of two cross the end of the ring, and
two writers contend for the slot and the lock. *proc*: with three PCBs under
init there are grandchildren, orphans, siblings and a full PCB table; pids are
used again. *softirq*: a queue of two slots holds one entry, so it is full at
once; with three buffers a message linked into two lists has others before and behind
it, and all can be lost. *memory*: addresses and frames both run out,
arenas fill, are shared by two holders, empty and are returned, and the process
takes what main has found; the state in which it does is checked, what follows is
not explored (`CONSTRAINT Untorn`). Two threads are what TLC can do; the theorems
are for any. *filesys*: the
small partition fills up, so every failing allocation of create, mkdir and
first-block write happens; on the large one a file needs its table of blocks, a
directory its second block, and all are given back. What follows the reuse of a
stale number is not explored (`CONSTRAINT NotStale`). Both run out of inodes, slots
and descriptors. *ide*: with three users one holds the channel, one is woken and
one waits; two commands make a call go round its loop. *signal*: a ring of three
holds two signals, so it is full and wraps; four calls are enough to register a
handler, send two signals and release it or fork before they are taken.
*shell*: six keys give pipelines of three commands, cd with a path of four
characters from a directory below the root, words beyond `MAX_ARG_NR`, a cd to a
path longer than `cwd_cache` with commands behind it, and any corrections on the way; the number of corrections is not bounded.

`OthersUntouched` is checked at every single disk write: what a mount at that
moment would show of every path other than the one the call is about is what it
showed before the call. It takes the place of crashes within calls in `filesys`;
`filesys_crash` shows what goes wrong with the subject itself.

Symmetry is used in the file system runs only (names are interchangeable, and
they check no liveness).

### Fairness

- `SchedFairSpec`: the timer interrupt stays latched in the 8259 while
  interrupts are off, so it is taken if they are on again and again (strong
  fairness); every system call and every `intr_disable` section ends, so
  interrupts do come on again.
- `IOQFairSpec`, `ProcFairSpec`: strong fairness of the timer and the idle loop;
  a process inside a system call goes on with it (weak fairness). No fairness of
  key presses or of starting calls.
- `SoftFairSpec`: additionally the latched NIC interrupt is taken and its
  handler ends; ksoftirqd goes on when it is scheduled. Frames need not arrive.
- `IdeFairSpec`: a thread that is scheduled again and again goes on with the
  driver (a slice is many instructions long), latched interrupts are taken, the
  disk finishes what it was told. Nobody need call the driver. That a waiting
  thread gets the channel is not claimed: lock_release wakes it, but the thread
  that released may take the channel again first.
- `SigFairSpec`: the timer interrupts user code again and again, a process that
  is ready runs again and leaves the kernel, a handler returns (strong fairness,
  since others run in between). Sleepers need not be woken; nobody need call.

`Memory`, `FileSys` and `Shell` state no fairness; safety only is checked there.
`CHECK_DEADLOCK FALSE` in `shell`: it really may stop (see below).

### Findings

1. **ksoftirqd sleeps over a queued softirq** (`thread/ksoftirqd.c:47`). The test
   of the queue and the sleep are not protected from the NIC interrupt. The
   entry stays until the next frame arrives. The comment above the loop says the
   thread is descheduled "if no softirq needs to solve".
2. **An inode number is handed out twice after a crash** (`fs/file.c:134`).
   `file_create` writes the directory entry first and the inode bitmap last. If
   power fails in between, the next file of the directory gets the same number,
   and unlinking one of them fails the ASSERT that a number is found once.
Seen while modelling, without a run of its own:

- *get_kernel_pages takes no lock* (`kernel/memory.c:144`). init, already in the
  ready list, forks while `main`, with interrupts on, mounts the disk with
  `sys_malloc`. If the timer hits `main` inside `vaddr_get`, both get the same
  pages and `page_table_add` fails its ASSERT that the entry is not present.
  This is `torn` in `memory`; without the condition `~ torn` its three properties fail.
- *An interrupt while register page 1 is selected ends reception*
  (`network/ne2000.c:217`). The handler takes CURR for the ISR, overwrites it and
  leaves the ISR set, so no later frame raises an edge; a NET_RX without a frame is
  queued once at most (`ReceiveFindsFrame`).
- *An echo request from an unknown host* is linked into two lists (`transport.c:77`):
  buffers get lost, and the next ARP reply walks out of the list (`network.c:133`).
- *get_a_page* returns NULL with `user_pool.lock` held when no frame is left (`memory.c:182`).
- *sys_mkdir that finds no room for its entry* gives back the inode and not the block
  it has taken (`fs.c:598`).
- *A write that fails on a full disk cannot be repeated* (`fs/file.c:259`). The
  blocks it had taken stay in `i_sectors` while `i_size` does not change; once
  another file is unlinked, the next attempt fails `ASSERT(i_sectors[block_idx] ==
  0)`: `stop` becomes "file.c:261" in `filesys` with the partition
  `[blocks |-> 4, counts |-> {1, 2}, max |-> 2]` and `PerBlock = 4`.
- *The last close of a pipe panics* (`fs/fs.c:360`, `wait_exit.c:54`). The queue
  comes from `sys_malloc_kernel` and is given to `mfree_page`, which asserts an
  address on a page border (`memory.c:433`); a block of an arena never is. So every
  pipeline ends the system when the shell closes the second descriptor.
- *A command that prints too much into a pipe hangs it* (`shell/pipe.c:58`). The
  write waits for a reader, and the shell starts the reader afterwards.
- A line of blanks, or one with nothing on a side of "|", makes the shell follow a
  NULL pointer (`shell.c:100`); a line of 512 characters is read one byte beyond
  its buffer and has no end (`shell.c:27`; the message says 128); `cd` in a
  pipeline erases the commands behind it (`builtin_cmd.c:93`); `hash_insert` does not
  compare the key with the last node of a chain (`hash.c:39`), and `hash_delete`,
  called nowhere, drops the nodes behind the one it deletes.
- With all pids in use `allocate_pid` answers the pid of init and counts nothing
  (`thread.c:89`), so two processes share a pid and the first to be reaped frees it.
- A process that is sent a signal it has no handler for takes no signal any more
  (`signal.c:57`).
- fork asserts that the name of the process has fewer than 11 characters and
  appends "_fork" (`fork.c:36`): three generations without an exec panic.
- The 32nd host in the ARP cache: `arp_add` takes `records[ARP_CACHE_SIZE]`, which is
  NULL, allocates a record, does not store it, and `arp_adjust_idx` follows the NULL
  (`network.c:56`). `arp_recv` does not go on from a waiting message that is for
  another host (`network.c:137`): it would loop for ever.
- Two processes that unlink one file at once both pass the test that it is not
  open; the second fails `ASSERT(inode_to_del->i_no == inode_no)` (`inode.c:122`).
- With every process using a slow disk `ChannelReleased` fails. `busy_wait` calls
  `mtime_sleep` inside a system call, with interrupts off; if no other thread is
  ready, `thread_yield` returns at once and no tick ever ends the sleep
  (`ide.c:118`, `timer.c:51`).

## 4. Proofs

Constants are arbitrary: any number of threads, processes, locks, signals,
pages, frames, any ring size. The assumptions about them are named in the module
that declares them and TLC evaluates them in the runs: `ThreadAssumption` (idle
and main are different threads, priorities are 1..255), `BootAssumption` (the
boot ready list has no duplicate, holds idle and not main), `LockAssumption` and
`QueueAssumption` (NULL is no thread, a ring has two places or more),
`SoftIrqAssumption` (ksoftirqd is started at boot; there are finitely many message
buffers, and one at least), `IdeAssumption`, `MemoryAssumption` (bitmaps are whole
bytes), `SignalAssumption` (SIG_CNT does not exceed the ring), `ProcAssumption` (init is
no kernel thread, there are three pids or more), `ShellAssumption` (sizes are not 0,
the root is a directory) and `CharAssumption` (letters are none of the characters
with a meaning of their own, every built-in command has its kind). Some theorems have a hypothesis of
their own, named where it is used: `~ HandlerForks`, `OneReader`, `PidsEnough`. Each is true of the instance of its run, each is needed, and the
reason is given below.

Every inductive invariant, and every hypothesis, has also been checked by TLC on the
instance of its run.
The proof of a step has one lemma per action. The five clients of the scheduler
prove their `Next` to be `[SchedNext]_schedVars` first, which gives `SchedInv'` and the
refinement at once; what a scheduler step does to the status of the other threads
(only `cur` and the thread `schedule` picks change) is proved once, in `SchedProofs`
(`KeptStatus`, `BlockStatus`, `TimerStatus`, ...).

**SchedProofs.** `SchedInv` is `SchedTypeOK /\ ReadyExact /\ IdleAvailable`: none
of the three is inductive alone. Popping the head of the ready list yields a
thread that is neither running nor linked elsewhere only by `ReadyExact`;
`ReadyExact` after `schedule` needs that the idle thread pushed onto an empty list
was blocked, which is `IdleAvailable`. Lemmas say what append, push and pop do
to a list without duplicates; `ScheduleLemma` proves the invariant after
`schedule` once, for any statuses and list it can be called with; every action
reduces to it. Theorems: `SchedInvariant`, `SchedTypeCorrect`, `ReadyListExact`,
`IdleThreadAvailable`.

**SyncProofs.** `SyncInv` adds to `SchedInv` the types, `LockInv`
(`MutualExclusion`, `LockShape`: the exact values of holder and
holder_repeat_nr at every point the owner can be at, and that the idle thread
takes no lock) and `WakeInv` (`WaitersAsleep`, `NoLostWakeup`). `LockShape` is
needed because the ASSERT `holder_repeat_nr == 0` of a new owner depends on
where the previous one was when it gave the semaphore back. `WaitersAsleep`
ties the waiter lists to the scheduler: it is what makes `sema_up` a legal
`Unblock`, so that `SyncImplementsSched` (`SyncSpec => SchedSpec`) holds.
Theorems: `SyncInvariant`, `SyncTypeCorrect`, `LockMutualExclusion`,
`RecursionCount`, `WaitersSleep`, `WakeupsKept`, `SyncImplementsSched`.

**IOQueueProofs.** `IOQInv` is `SchedInv`, the types, `CallsInv` (the count a
call has left is in range for where it is) and `LockInv`: whoever is inside the
queue holds its lock (`HolderInv`), a slot names a thread that sleeps in `ioq_wait`
(`WaiterSlotSafe`), a thread is linked among the waiters once (`WaitersOnce`), and
`LockWaitersServed`. `WaiterSlotSafe` needs the exact holder: a second getter
cannot reach `ioq_wait` while the first sleeps there because it still has the
lock. `NoMissedKey` has the hypothesis `OneReader`, since the code tests the queue
before it takes the lock and not again: with two readers the second goes to sleep
on a test that is out of date. `RingImplementsFifo` is the refinement of `Fifo`: the
contents read from `tail` to `head` modulo `bufsize` grow by exactly the byte put
and lose exactly the first one. Theorems: `IOQInvariant`, `WaiterSlotTheorem`,
`LockWaitersTheorem`, `NoMissedKeyTheorem`, `RingImplementsFifo`,
`IOQueueImplementsSched`.

**DriverProofs, SoftIrq.** `ReceiveFindsFrame` is not inductive: an interrupt that is
latched but not taken will queue one more NET_RX. `FramesCounted` counts it
(`Announced`), together with the queued entries and the one ksoftirqd is about to
take, against the frames in the NIC and the one entry that may have been read from
the wrong page (`Misread`). That there is only one needs `RequestInv`: a request is
latched only while the ISR has a bit set, and none is left once CURR is overwritten,
since the ISR is not cleared then. `BufferNotShared` needs that the buffer in hand is not
in the free list, also when `LinkedTwice` cuts that list. Theorems: `SoftInvariant`,
`ReceiveFindsFrameTheorem`, `BufferNotSharedTheorem`, `SoftImplementsSched`.

**DriverProofs, Ide.** `IdeInv` says at every place the holder of the channel can be how
far the disk is (`PhaseInv`): in `sema_down` the disk is working on the holder's
command, or its interrupt is latched, or the interrupt has been taken and
`disk_done` is 1; everywhere else nothing is left of a command. `OwnerInv` ties
being in the channel to the lock and `WaitersInv` its waiters to the scheduler. That
`disk_done` never exceeds 1, which `sema_up` asserts, follows only from all three:
an interrupt may come before the thread sleeps, while it sleeps or after it was
preempted. Theorems: `IdeInvariant`, `IdeTypeCorrect`, `CommandMatchedTheorem`,
`IdeImplementsSched`.

**ProcProofs.** `ProcInv` has three parts besides `SchedInv`. `DataInv`: the types,
`PidsExact` with the exact counter of main's pid (`PoolInv`: 3 while main lives, 2
afterwards, never 1, so no process ever gets it), the pids of the boot threads
(`BootInv`), `AllExact` (thread_all_list holds exactly the threads that exist) and
`DirsExact`. `FlowInv`: a process in the end of `sys_exit` runs with interrupts off
or is `TASK_HANGING` (`CallsInv`), `FamilyInv` (`ParentAlive` for a parent that has not
yet given its children away) and `WaitInv` (`WaitSound` with the child that has woken
its parent and not yet stopped). `ParentAlive` alone is not inductive: the parent
could be between `init_adopt_a_child` and its sleep. `WaitSound` needs
`FamilyInv` and `PidsExact`, since `sys_exit` finds its parent through `pid2thread`, the
first thread of the list with that pid; lemma `Boss` shows that it is the parent.
The hypothesis `PidsEnough` (a pid for every PCB, besides 2 and 3) is needed
because `allocate_pid` does not report an exhausted pool: it answers the pid of init.
`PoolNotExhausted` is a pigeonhole argument: as long as a PCB is free, the living
threads cannot use up the pool. Theorems: `ProcInvariant`, `PidsExactTheorem`,
`ParentAliveTheorem`, `WaitSoundTheorem`, `DirsExactTheorem`, `ProcImplementsSched`.

**SignalProofs.** `SigInv` is the types, `RingExact` (the ring holds exactly the
signals sent and not taken, which is what makes `check_signal` take the oldest),
`ContextInv` (in a handler `main_mission_stack` holds the registers of the main
program and `in_event` is set; outside, the registers are the program's own and
`in_event` is set only for a process that is deaf) and, when handlers do not fork,
`OwnStack`. `ContextKept` has the hypothesis `~ HandlerForks` because `copy_pcb`
copies `backup_esp`: the child of a handler restores from its parent's stack.
Everything else, `HandledInOrder` included, is proved without it. Theorems:
`SigInvariant`, `ContextKeptTheorem`, `HandledInOrderTheorem`.

**MemoryProofs.** For any threads, some of them preempted anywhere, and without a
hypothesis on which of them are at work together. `MemInv` is `BaseInv` (types, what
each call carries, who holds the lock), `ExclusionInv` (a thread that cannot be
preempted is in the heap only while it runs, and no other calls without the lock: beside
the calls that were preempted at most one without the lock is under way) and, as long
as `~ torn`, `HeapInv`: a page table entry that is present has its address and its
frame taken and no other entry has the frame (`TablesInv`); pieces in use are mapped and share a page only as different
blocks of one arena (`PiecesInv`); the free list has no block twice and none in use,
and an arena's `cnt` is the number of its free blocks (`BlocksInv`); and what a call
half way may rely on (`Progress`): the addresses `vaddr_get` found are still clear
when it sets them, those it set are in no piece and mapped exactly up to the page
`malloc_page` has reached, the frame found is still free; and two calls that have set
their addresses have set different ones (`ClaimsInv`). `Progress` is what a
preemption could break, and what a failure half way leaves true: each action shows
that it leaves a call it interrupts `Undisturbed`, and the updates of the two bitmaps
without the lock do because the addresses and frames found by others are exactly what
`torn` watches. The free list is
indexed by a sequence and `BlocksExact` counts places in it; `CountLemma` shows by a
bijection that this is the number of block numbers. `bitmap_scanTheorem` is about
the loop itself, for every bitmap of whole bytes and every count: what
`bitmap_scan_loop` computes is what `bitmap_scan` says. The loop is a recursive
function of the bit it has reached; that it says at each bit how many clear ones it
has just passed is proved by the least bit at which it would not (every nonempty set
of naturals has a least member), which takes the place of an induction.
`ScanRightTheorem` follows for every bitmap that can be reached. Theorems:
`LockGivenBackTheorem`, `MemInvariant`, `MemTypeTheorem`, `PiecesApartTheorem`,
`BlocksExactTheorem`, `PteNotRepeatedTheorem`, `bitmap_scanTheorem`,
`ScanRightTheorem`.

**ShellProofs.** Half of it is about functions on strings, of any length.
`Words(s, sep)`, the reference definition, counts and orders the places where
stretches begin; `Marks` gives the k-th stretch by its two ends, and both
`cmd_parse` and `wash_path` are shown to stand behind the k-th stretch after k
rounds. A loop is written as a recursive function, `Loop`; `LoopExists` shows that
there is one, by the least number of rounds for which there would be none, and
`LoopSame` that two loops that agree round by round agree. From this:
`cmd_parseTheorem` (the words, whatever blanks there are), `wash_pathTheorem`
(the path is clean and has the names `Resolved` gives: one name more, ".." or "."
does to the string what it does to the sequence of names, `ExtendedClean`),
`cmd2funcTheorem` (every command is in the chain of its hash and is found there,
although the last node of a chain is not compared) and `PieceLemma` (the string up
to the next bar is the next command of the line).

The other half is three inductive invariants. `PipeInv` says at each place of
`my_shell` which descriptors are on the pipe and gives `PipeCountedTheorem`; it also
shows that the second close always finds the count at 1, so that the shell never
comes back from a pipeline. `TypedInv` adds `InputInv` (while a line is read,
`cmd_line` up to `pos` is the line the user means: a backspace at `pos` 0 is seen as
`buf[0]` because it has just been stored there, and what ctrl + u or ctrl + l leaves
is never before `pos`), `LineInv` (what is left of the line begins behind the bar of
the command that was executed last, `RestIs`, unless a cd has erased it, and which
places may follow) and `ExecutesWhatWasTyped` itself. `PathInv` is that the working directory is a clean
path, without which `PathClear` does not hold of the next `cd`. Theorems:
`cmd_parseTheorem`, `wash_pathTheorem`, `cmd2funcTheorem`, `PipeCountedTheorem`,
`ExecutesWhatWasTypedTheorem`, `PathClearTheorem`.

**Only model-checked.** Liveness (`StarvationFree`, `KeyIsRead`, `WaitReturns`,
`SleeperWoken`, `ChannelReleased`, `SignalTaken`), which the prover does not
handle. `FileSys`: a call there is one step that builds a whole new state of the
disk and the log of its writes, through helpers that fold over sequences of blocks
and directory entries. `TreeSound` (every inode in use is named once, from the root)
and `OpenCountsExact` would need, for each helper, what it does to every path of the
tree and to every suffix of the log, and the connectedness of the tree is itself an
induction over data; so does `OthersUntouched`, which compares what every path shows
before and after each write. They are checked on the instances of its runs.

## 5. Plan

1. Done: `Sched`, `Sync` with proofs; `IOQueue`/`Fifo`, `Proc`, `SoftIrq`,
   `Memory`, `FileSys`, `Ide`, `Signal`, `Shell`.
2. Proofs. Done: `Sched`, `Sync`, `IOQueue` with the refinement of `Fifo`, `SoftIrq`,
   `Ide`, `Signal`, `Memory` with the scan of a bitmap, `Proc`, `Shell` with its
   parsing. What is left of the invariants that runs check is
   listed under "Only model-checked".
3. `FileSys` with several processes: open, close, fork and unlink cut at every disk
   wait, the slots of `file_table` shared by fork, `write_deny` (message "file
   can't be write now, try again later."), which heap an inode lives in.
4. User half of `Memory` (`get_a_page`, user pool).
5. `fd_pos` with `sys_read` and `sys_lseek`; `opendir`, `chdir` and `rmdir` of a
   directory in use.

## 6. Not modelled, and why

Sockets and the transmit path (not reachable through a system call), ELF loading
(data layout), console and formatting (output only), `hash_delete` (called
nowhere), the boot loader, `ctimer.c` and `dhcp.c` (not compiled). Of the file
system reading, seeking, opendir, chdir, getcwd and stat; of the disk driver
`ide_init` with `identify_disk` and `partition_scan` (one thread, at boot); of the
keyboard the decoding of scan codes; of the shell what its commands print and do
to files (`FileSys` models the system calls they make).
