------------------------------- MODULE Memory -------------------------------
(***************************************************************************)
(* The kernel heap of kernel/memory.c: virtual and physical page bitmaps,   *)
(* the page table, arenas cut into blocks, and the lock of kernel_pool.     *)
(*                                                                         *)
(* sys_malloc_kernel and sys_free_kernel take the lock; get_kernel_pages    *)
(* and mfree_page, called by fork, exec, exit and wait, do not.  A system   *)
(* call runs with interrupts off and is not preempted; the threads of       *)
(* Preemptible (main while it mounts the disk, ksoftirqd) run with          *)
(* interrupts on, so that a process may allocate pages while one of them is *)
(* anywhere in malloc_page or mfree_page.  Two size classes stand for the   *)
(* seven of block_desc_init and for the requests above 1024 bytes.  The     *)
(* page tables of the kernel's address range are built by the loader, so    *)
(* page_table_add needs no page.                                           *)
(***************************************************************************)
EXTENDS Integers, Sequences, FiniteSets

CONSTANTS
    Thread,              \* callers
    Preemptible,         \* main and ksoftirqd: they run with interrupts on
    NULL,
    VPages, PPages,      \* pages of the heap's address range and of kernel_pool
    Byte,                \* bits of a byte of a bitmap, 8 in the code
    blocks_per_arena,
    MaxPages             \* bound on the pages asked for at once

ASSUME MemoryAssumption ==
    /\ Preemptible \subseteq Thread
    /\ Thread # {}
    /\ NULL \notin Thread
    /\ VPages \in Nat \ {0} /\ PPages \in Nat \ {0}
    /\ blocks_per_arena \in Nat \ {0}
    /\ MaxPages \in Nat \ {0}
    /\ Byte \in Nat \ {0} /\ VPages % Byte = 0 /\ PPages % Byte = 0

VPage == 0..(VPages - 1)
PPage == 0..(PPages - 1)
Block == VPage \X (1..blocks_per_arena)

VARIABLES
    vbits,    \* kernel_vaddr.vaddr_bitmap
    pbits,    \* kernel_pool.pool_bitmap
    pte,      \* the page table: a frame, or -1 if not present
    arena,    \* the struct arena at the start of a page, see Arena
    free,     \* free_list of the small size class
    lock,     \* kernel_pool.lock: its holder
    cur,      \* the thread that runs
    local,    \* each one's call in progress, see Local
    mem,      \* what callers have got and not yet freed
    torn      \* history: a bit was set that a preempted call had found clear

heapVars == <<vbits, pbits, pte, arena, free, mem>>
memVars  == <<heapVars, lock, torn, cur, local>>

\* cnt is the number of pages of a large block, or of free small ones.
Arena == [large : BOOLEAN, cnt : Int]
NoArena == [large |-> FALSE, cnt |-> 0]

Call == {"sys_malloc small", "sys_malloc large", "get_kernel_pages", "sys_free", "mfree_page"}
Locked == {"sys_malloc small", "sys_malloc large", "sys_free"}
PC == {"out", "lock", "vscan", "vset", "pscan", "padd", "got", "free", "unlock"}

\* n pages (or block number n) at base, of which done are entered; frame is
\* the one palloc has found.
Local == [pc : PC, call : Call, n : Nat, base : VPage \cup {-1},
          done : Nat, frame : PPage \cup {-1}]
Outside == [pc |-> "out", call |-> "sys_free", n |-> 0, base |-> 0, done |-> 0, frame |-> -1]
my == local[cur]

\* What a caller holds: pages from get_kernel_pages, a large block, a block.
Piece == [by : Thread, kind : {"pages", "large", "small"}, page : VPage, n : Nat]

----------------------------------------------------------------------------
(* Mutations of the definitions below, used to test the properties.        *)

\* sys_free_ returns an arena whose blocks are still in the free list.
ArenaUnlinkedNot(list, v) == list

\* sys_malloc_ forgets the lock when it finds no page.
UnlockedOnFailureNot(t) == "out"

\* mfree_page keeps the present bit of the page it gives back.
PteRemovedNot(v, n) == pte

\* lock_acquire does not wait for the holder.
lock_acquire_anyway ==
    /\ local[cur].pc = "lock"
    /\ lock' = cur
    /\ local' = [local EXCEPT ![cur].pc =
           IF local[cur].call = "sys_free" THEN "free"
           ELSE IF local[cur].call = "sys_malloc small" /\ free # <<>> THEN "got"
           ELSE "vscan"]
    /\ UNCHANGED <<heapVars, torn, cur>>

----------------------------------------------------------------------------
\* bitmap_scan: the first byte that is not full; size is a number of bits.
NotFull(bits, size) ==
    CHOOSE b \in 0..(size \div Byte) :
        /\ b < size \div Byte => ~ (Byte * b)..(Byte * b + Byte - 1) \subseteq bits
        /\ (0..(Byte * b - 1)) \subseteq bits

\* "Not enough space", said before looking at the bits.
GivesUp(bits, cnt, size) == NotFull(bits, size) + cnt \div Byte >= size \div Byte

\* bitmap_scan: it gives up, or answers the first run of cnt clear bits, or -1.
bitmap_scan(bits, cnt, size) ==
    LET fits == {i \in 0..(size - 1) : i + cnt <= size /\ \A j \in i..(i + cnt - 1) : j \notin bits}
    IN  IF fits = {} \/ GivesUp(bits, cnt, size) THEN -1
        ELSE CHOOSE i \in fits : \A j \in fits : i <= j

\* Mutation: the scan does not start its count again at a bit that is set.
bitmap_scan_on(bits, cnt, size) ==
    LET start == Byte * NotFull(bits, size)
        count[i \in (start - 1)..(size - 1)] ==
            IF i < start THEN 0 ELSE IF i \in bits THEN count[i - 1] ELSE count[i - 1] + 1
        found == {i \in start..(size - 1) : count[i] = cnt}
    IN  IF GivesUp(bits, cnt, size) \/ found = {} THEN -1
        ELSE (CHOOSE i \in found : \A j \in found : i <= j) - cnt + 1

\* bitmap_scan as it is programmed: count, after each bit from NotFull on, and
\* the place where it reaches cnt.
bitmap_scan_loop(bits, cnt, size) ==
    LET start == Byte * NotFull(bits, size)
        count[i \in (start - 1)..(size - 1)] ==
            IF i < start \/ i \in bits THEN 0 ELSE count[i - 1] + 1
        found == {i \in start..(size - 1) : count[i] = cnt}
    IN  IF GivesUp(bits, cnt, size) \/ found = {} THEN -1
        ELSE (CHOOSE i \in found : \A j \in found : i <= j) - cnt + 1

\* page_table_pte_remove for n pages from v on.
PteRemoved(v, n) == [q \in VPage |-> IF q \in v..(v + n - 1) THEN -1 ELSE pte[q]]

\* The free list without the blocks of the arena v, the others in their order.
ArenaUnlinked(list, v) ==
    LET kept == {i \in 1..Len(list) : list[i][1] # v}
        Rank(i) == Cardinality({j \in kept : j <= i})
    IN  [r \in 1..Cardinality(kept) |-> list[CHOOSE i \in kept : Rank(i) = r]]

\* The blocks of the arena v, as sys_malloc_ appends them.
ArenaBlocks(v) == [i \in 1..blocks_per_arena |-> <<v, i>>]

\* Where sys_malloc_ goes when malloc_page has failed: it releases its lock.
UnlockedOnFailure(t) == IF local[t].call \in Locked THEN "unlock" ELSE "out"

\* The addresses a call asks for.
Wanted(l) == l.base..(l.base + l.n - 1)

\* A preempted call has found clear, and not yet set, addresses that cur now
\* takes without the lock, or the frame.
AddressesFound ==
    /\ my.call \notin Locked
    /\ \E t \in Thread \ {cur} : local[t].pc = "vset" /\ Wanted(local[t]) \cap Wanted(my) # {}
FrameFound ==
    /\ my.call \notin Locked
    /\ \E t \in Thread \ {cur} : local[t].pc = "padd" /\ local[t].frame = my.frame

\* cur goes on at a label; when its call is over its locals are gone.
Local_(l) == local' = [local EXCEPT ![cur] = IF l.pc = "out" THEN Outside ELSE l]
Goto(label) == Local_([my EXCEPT !.pc = label])

\* cur starts a call.
Begin(c, n, v, label) ==
    /\ my.pc = "out"
    /\ Local_([Outside EXCEPT !.pc = label, !.call = c, !.n = n, !.base = v])
    /\ UNCHANGED <<heapVars, lock, torn, cur>>

sys_malloc_kernel ==
    \/ Begin("sys_malloc small", 1, 0, "lock")
    \/ \E n \in 1..MaxPages : Begin("sys_malloc large", n, 0, "lock")

\* Processes only: fork, exec and process_execute.
get_kernel_pages ==
    /\ cur \notin Preemptible
    /\ \E n \in 1..MaxPages : Begin("get_kernel_pages", n, 0, "vscan")

sys_free_kernel ==
    \E m \in mem : m.by = cur /\ m.kind # "pages" /\ Begin("sys_free", m.n, m.page, "lock")

mfree_page ==
    \E m \in mem : m.by = cur /\ m.kind = "pages" /\ Begin("mfree_page", m.n, m.page, "free")

\* lock_acquire and lock_release of kernel_pool.lock.  sys_malloc_ takes a
\* free block, if there is one, before it asks for a page.
lock_acquire ==
    /\ my.pc = "lock"
    /\ lock = NULL
    /\ lock' = cur
    /\ Goto(IF my.call = "sys_free" THEN "free"
            ELSE IF my.call = "sys_malloc small" /\ free # <<>> THEN "got"
            ELSE "vscan")
    /\ UNCHANGED <<heapVars, torn, cur>>

lock_release ==
    /\ my.pc = "unlock"
    /\ lock' = NULL
    /\ Goto("out")
    /\ UNCHANGED <<heapVars, torn, cur>>

\* vaddr_get: scan, then set.
vaddr_get_scan ==
    /\ my.pc = "vscan"
    /\ LET v == bitmap_scan(vbits, my.n, VPages)
       IN  Local_([my EXCEPT !.base = v, !.pc = IF v = -1 THEN UnlockedOnFailure(cur) ELSE "vset"])
    /\ UNCHANGED <<heapVars, lock, torn, cur>>

vaddr_get_set ==
    /\ my.pc = "vset"
    /\ vbits' = vbits \cup (my.base..(my.base + my.n - 1))
    /\ Goto("pscan")
    /\ torn' = (torn \/ AddressesFound)
    /\ UNCHANGED <<pbits, pte, arena, free, mem, lock, cur>>

\* palloc: scan, then set; without a frame malloc_page returns NULL and keeps
\* the addresses and the frames it already has.
palloc_scan ==
    /\ my.pc = "pscan"
    /\ LET p == bitmap_scan(pbits, 1, PPages)
       IN  Local_([my EXCEPT !.frame = p, !.pc = IF p = -1 THEN UnlockedOnFailure(cur) ELSE "padd"])
    /\ UNCHANGED <<heapVars, lock, torn, cur>>

\* The bit of the frame is set and page_table_add enters it.
page_table_add ==
    /\ my.pc = "padd"
    /\ pbits' = pbits \cup {my.frame}
    /\ pte' = [pte EXCEPT ![my.base + my.done] = my.frame]
    /\ Local_([my EXCEPT !.done = @ + 1, !.frame = -1,
                         !.pc = IF my.done + 1 = my.n THEN "got" ELSE "pscan"])
    /\ torn' = (torn \/ FrameFound)
    /\ UNCHANGED <<vbits, arena, free, mem, lock, cur>>

\* The pages are there: hand them out, or fill in the arena.
Got(kind, page, n) == mem' = mem \cup {[by |-> cur, kind |-> kind, page |-> page, n |-> n]}

finish ==
    /\ my.pc = "got"
    /\ \/ /\ my.call = "get_kernel_pages"
          /\ Got("pages", my.base, my.n)
          /\ Goto("out")
          /\ UNCHANGED <<arena, free>>
       \/ /\ my.call = "sys_malloc large"
          /\ arena' = [arena EXCEPT ![my.base] = [large |-> TRUE, cnt |-> my.n]]
          /\ Got("large", my.base, my.n)
          /\ Goto("unlock")
          /\ UNCHANGED free
       \/ /\ my.call = "sys_malloc small"
          /\ LET list == IF free = <<>> THEN ArenaBlocks(my.base) ELSE free
                 b    == Head(list)
                 a    == IF free = <<>> THEN [large |-> FALSE, cnt |-> blocks_per_arena] ELSE arena[b[1]]
             IN  /\ free' = Tail(list)
                 /\ arena' = [arena EXCEPT ![b[1]] = [a EXCEPT !.cnt = @ - 1]]
                 /\ Got("small", b[1], b[2])
          /\ Goto("unlock")
    /\ UNCHANGED <<vbits, pbits, pte, lock, torn, cur>>

\* mfree_page(v, n): frames, present bits and addresses.
PagesFreed(v, n) ==
    /\ pbits' = pbits \ {pte[q] : q \in v..(v + n - 1)}
    /\ pte' = PteRemoved(v, n)
    /\ vbits' = vbits \ (v..(v + n - 1))

\* A piece at page v is given back: pages or a large block of n pages, or
\* block number n of an arena, which goes too when it was the last one in use.
release ==
    LET v == my.base
        n == my.n
        m == CHOOSE x \in mem : /\ x.by = cur /\ x.page = v /\ x.n = n
                                /\ x.kind = "pages" <=> my.call = "mfree_page"
    IN  /\ my.pc = "free"
        /\ mem' = mem \ {m}
        /\ \/ /\ m.kind # "small"
              /\ PagesFreed(v, n)
              /\ arena' = [arena EXCEPT ![v] = NoArena]
              /\ UNCHANGED free
           \/ /\ m.kind = "small"
              /\ arena[v].cnt + 1 = blocks_per_arena
              /\ free' = ArenaUnlinked(Append(free, <<v, n>>), v)
              /\ arena' = [arena EXCEPT ![v] = NoArena]
              /\ PagesFreed(v, 1)
           \/ /\ m.kind = "small"
              /\ arena[v].cnt + 1 # blocks_per_arena
              /\ free' = Append(free, <<v, n>>)
              /\ arena' = [arena EXCEPT ![v].cnt = @ + 1]
              /\ UNCHANGED <<vbits, pbits, pte>>
        /\ Goto(IF my.call = "sys_free" THEN "unlock" ELSE "out")
        /\ UNCHANGED <<lock, torn, cur>>

\* Another thread runs: after the timer interrupt, when a call is over, or
\* when cur sleeps in lock_acquire.
Switch ==
    /\ \/ cur \in Preemptible
       \/ my.pc = "out"
       \/ my.pc = "lock" /\ lock # NULL
    /\ \E t \in Thread \ {cur} : cur' = t
    /\ UNCHANGED <<heapVars, lock, torn, local>>

MemInit ==
    /\ vbits = {} /\ pbits = {}
    /\ pte = [q \in VPage |-> -1]
    /\ arena = [q \in VPage |-> NoArena]
    /\ free = <<>>
    /\ mem = {}
    /\ lock = NULL
    /\ torn = FALSE
    /\ cur \in Thread
    /\ local = [t \in Thread |-> Outside]

MemNext ==
    \/ sys_malloc_kernel \/ get_kernel_pages \/ sys_free_kernel \/ mfree_page
    \/ lock_acquire \/ lock_release
    \/ vaddr_get_scan \/ vaddr_get_set \/ palloc_scan \/ page_table_add
    \/ finish \/ release
    \/ Switch

MemSpec == MemInit /\ [][MemNext]_memVars

----------------------------------------------------------------------------
\* Every variable has its type; both bitmaps stay inside their pools
\* (bitmap.c:18: bitmap_scan never answers a run that passes the end).
MemTypeOK ==
    /\ vbits \subseteq VPage /\ pbits \subseteq PPage
    /\ pte \in [VPage -> PPage \cup {-1}]
    /\ arena \in [VPage -> Arena]
    /\ free \in Seq(Block)
    /\ mem \subseteq Piece
    /\ lock \in Thread \cup {NULL}
    /\ torn \in BOOLEAN /\ cur \in Thread
    /\ local \in [Thread -> Local]

\* Whatever calls have left in the bitmaps, bitmap_scan (bitmap.c:18) answers
\* the first run of cnt clear bits; it says -1 with such a run only where it
\* gives up, and then the run begins in the last cnt / 8 bytes.
ScanRight ==
    \A cnt \in 1..VPages :
        LET answer == bitmap_scan_loop(vbits, cnt, VPages)
            Clear(i) == i + cnt <= VPages /\ \A j \in i..(i + cnt - 1) : j \notin vbits
        IN  /\ answer = bitmap_scan(vbits, cnt, VPages)
            /\ answer # -1 => Clear(answer) /\ \A i \in 0..(answer - 1) : ~ Clear(i)
            /\ answer = -1 => \A i \in VPage : Clear(i) => i >= VPages - Byte * (cnt \div Byte)

\* The addresses a piece covers.
Pages(m) == IF m.kind = "small" THEN {m.page} ELSE m.page..(m.page + m.n - 1)

\* Until a call that does not lock takes the very addresses or the frame that
\* a preempted malloc_page has found, memory in use is mapped, to frames of
\* its own, and nobody else's, in every order of allocations, failures and
\* frees and however the calls overlap (malloc_page and mfree_page).
PiecesApart == ~ torn =>
    /\ \A m \in mem : \A q \in Pages(m) : q \in vbits /\ pte[q] # -1
    /\ \A q, r \in VPage : pte[q] # -1 /\ pte[q] = pte[r] => q = r
    /\ \A q \in VPage : pte[q] # -1 => pte[q] \in pbits
    /\ \A m, o \in mem : m # o /\ Pages(m) \cap Pages(o) # {} =>
           m.kind = "small" /\ o.kind = "small" /\ m.n # o.n

\* As long, every block of an arena is either in the free list, once, or in
\* use; the arena counts the first ones, and a page that is no arena has none:
\* the ASSERTs on elem_find of sys_malloc_ and sys_free_ cannot fail.
BlocksExact == ~ torn =>
    /\ \A i, j \in 1..Len(free) : free[i] = free[j] => i = j
    /\ \A i \in 1..Len(free) : free[i][1] \in vbits /\ pte[free[i][1]] # -1
    /\ \A i \in 1..Len(free), m \in mem :
           m.page = free[i][1] => m.kind = "small" /\ m.n # free[i][2]
    /\ \A q \in VPage : ~ arena[q].large =>
           arena[q].cnt = Cardinality({i \in 1..Len(free) : free[i][1] = q})

\* Whoever is outside the allocator does not hold its lock: every return of
\* sys_malloc_ and sys_free_, the failing ones included, releases it.
LockGivenBack == \A t \in Thread : local[t].pc = "out" => lock # t

\* As long, page_table_add never finds its entry present (the ASSERT and the
\* PANIC "pte repeated!" of memory.c:102-110), in whichever call a thread was
\* preempted and whatever the others did meanwhile.
PteNotRepeated == ~ torn =>
    \A t \in Thread : local[t].pc = "padd" => pte[local[t].base + local[t].done] = -1
=============================================================================
