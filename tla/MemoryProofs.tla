---------------------------- MODULE MemoryProofs ----------------------------
(***************************************************************************)
(* Proofs for Memory, for any number of threads, pages, frames and blocks   *)
(* per arena.                                                              *)
(***************************************************************************)
EXTENDS Memory, FiniteSetTheorems, WellFoundedInduction, TLAPS

HeapPC == PC \ {"out", "lock"}
InHeap(t) == local[t].pc \in HeapPC
Allocs == {"sys_malloc small", "sys_malloc large", "get_kernel_pages"}
Frees == {"sys_free", "mfree_page"}

(* A piece of t at page v, of the kind that the call gives back.             *)
Owned(t, v, n, call) ==
    \E m \in mem : m.by = t /\ m.page = v /\ m.n = n /\ (m.kind = "pages" <=> call = "mfree_page")

(* The call t is in, at each point, and the piece it gives back.             *)
CallOK(t) ==
    LET l == local[t]
    IN  /\ l.pc \in {"lock", "unlock"} => l.call \in Locked
        /\ l.pc \in {"vscan", "vset", "pscan", "padd", "got"} => l.call \in Allocs
        /\ l.pc = "free" => l.call \in Frees
        /\ l.pc # "out" => l.n >= 1 /\ (l.call = "sys_malloc small" => l.n = 1)
        /\ l.pc \in {"lock", "vscan", "vset"} => l.done = 0
        /\ l.pc = "lock" /\ l.call \in Allocs => l.base = 0
        /\ l.pc \in {"vset", "pscan", "padd", "got"} => l.base \in VPage
        /\ l.pc \in {"vset", "pscan", "padd"} => l.base + l.n <= VPages
        /\ l.pc \in {"pscan", "padd"} => l.done < l.n
        /\ l.pc = "padd" => l.frame \in PPage
        /\ l.pc \in {"lock", "free"} /\ l.call \in Frees =>
              Owned(t, l.base, l.n, l.call)

(* kernel_pool.lock is held by whoever is in the allocator through           *)
(* sys_malloc_ or sys_free_.                                                *)
Holds(t) == InHeap(t) /\ local[t].call \in Locked
LockHeld == \A t \in Thread : lock = t <=> Holds(t)

(* What holds whatever has been taken from whom.                            *)
BaseType ==
    /\ vbits \subseteq VPage /\ pbits \subseteq PPage
    /\ pte \in [VPage -> PPage \cup {-1}]
    /\ arena \in [VPage -> [large : BOOLEAN, cnt : Int]]
    /\ free \in Seq(Block)
    /\ mem \subseteq Piece
    /\ \A m \in mem : m.n >= 1 /\ (m.kind = "small" => m.n \in 1..blocks_per_arena)
    /\ lock \in Thread \cup {NULL}
    /\ torn \in BOOLEAN /\ cur \in Thread
    /\ local \in [Thread -> Local]

BaseInv ==
    /\ BaseType
    /\ \A t \in Thread : CallOK(t)
    /\ LockHeld

(* Calls that do not lock are never preempted.                              *)
ExclusionInv ==
    /\ \A t \in Thread : InHeap(t) /\ local[t].call \notin Locked => t \notin Preemptible
    /\ \A m \in mem : m.kind = "pages" => m.by \notin Preemptible
    /\ \A t \in Thread : InHeap(t) /\ t \notin Preemptible => t = cur

(* The heap between steps.                                                  *)
Elems(s) == {s[i] : i \in 1..Len(s)}
Once(s) == \A i, j \in 1..Len(s) : s[i] = s[j] => i = j
FreeBlocks == Elems(free)
Numbers(q) == {n \in 1..blocks_per_arena : <<q, n>> \in FreeBlocks}

TablesInv ==
    /\ \A q \in VPage : pte[q] # -1 => q \in vbits /\ pte[q] \in pbits
    /\ \A q, r \in VPage : pte[q] # -1 /\ pte[q] = pte[r] => q = r

PiecesInv ==
    /\ \A m \in mem : \A q \in Pages(m) : q \in VPage /\ pte[q] # -1
    /\ \A m, o \in mem : m # o /\ Pages(m) \cap Pages(o) # {} =>
           m.kind = "small" /\ o.kind = "small" /\ m.n # o.n
    /\ \A m \in mem : m.kind = "small" => ~ arena[m.page].large

BlocksInv ==
    /\ Once(free)
    /\ \A b \in FreeBlocks : pte[b[1]] # -1 /\ ~ arena[b[1]].large
    /\ \A b \in FreeBlocks, m \in mem :
           b[1] \in Pages(m) => m.kind = "small" /\ m.n # b[2]
    /\ \A q \in VPage : ~ arena[q].large => arena[q].cnt = Cardinality(Numbers(q))
    /\ \A q \in VPage : arena[q].cnt \in Nat

(* A page that is in no piece and in no arena.                              *)
Unused(q) == (\A m \in mem : q \notin Pages(m)) /\ (\A b \in FreeBlocks : b[1] # q)

(* What a call in progress may rely on.                                     *)
Direct(l) == l.call = "sys_malloc small" /\ free # <<>>

Progress(t) ==
    LET l == local[t]
    IN  /\ l.pc = "vset" => Wanted(l) \cap vbits = {}
        /\ (l.pc \in {"pscan", "padd"} \/ (l.pc = "got" /\ ~ Direct(l))) =>
              /\ l.base + l.n <= VPages
              /\ Wanted(l) \subseteq vbits
              /\ l.pc = "got" => l.done = l.n
              /\ \A q \in Wanted(l) : Unused(q) /\ (pte[q] # -1 <=> q < l.base + l.done)
        /\ l.pc = "padd" => l.frame \notin pbits

(* The calls that have taken their addresses have taken different ones.      *)
Claims(t) == local[t].pc \in {"pscan", "padd"} \/ (local[t].pc = "got" /\ ~ Direct(local[t]))
ClaimsInv ==
    \A t, u \in Thread : t # u /\ Claims(t) /\ Claims(u) => Wanted(local[t]) \cap Wanted(local[u]) = {}

HeapInv == TablesInv /\ PiecesInv /\ BlocksInv /\ (\A t \in Thread : Progress(t)) /\ ClaimsInv

(* What a step of c must leave to a call t that c interrupted.               *)
Undisturbed(c, t) ==
    /\ Progress(t)'
    /\ Claims(t)' /\ Claims(c)' => Wanted(local[t])' \cap Wanted(local[c])' = {}

----------------------------------------------------------------------------
(* Operators.                                                               *)

\* Each update of the locals, field by field.
LEMMA GotoFields ==
    ASSUME NEW l \in Local, NEW x \in PC, NEW r, r = [l EXCEPT !.pc = x]
    PROVE  /\ r \in Local
           /\ r.pc = x /\ r.call = l.call /\ r.n = l.n /\ r.base = l.base
           /\ r.done = l.done /\ r.frame = l.frame
<1> QED BY DEF Local

LEMMA OutsideFields == Outside \in Local /\ Outside.pc = "out"
<1>1. 0 \in VPage
  BY MemoryAssumption DEF VPage
<1> QED BY <1>1 DEF Outside, Local, PC, Call

\* Only the locals of the running thread change.
LEMMA Local_Lemma ==
    ASSUME local \in [Thread -> Local], cur \in Thread, NEW l \in Local, Local_(l)
    PROVE  /\ local' \in [Thread -> Local]
           /\ l.pc # "out" => local'[cur] = l
           /\ l.pc = "out" => local'[cur] = Outside
           /\ \A t \in Thread \ {cur} : local'[t] = local[t]
<1> QED BY OutsideFields DEF Local_

\* The pages asked for are pages of the heap.
LEMMA WantedInside ==
    ASSUME NEW l, l.base \in VPage, l.n \in Nat, l.base + l.n <= VPages
    PROVE  Wanted(l) \subseteq VPage
<1> QED BY MemoryAssumption DEF Wanted, VPage

\* A set of naturals has a least member.
LEMMA LeastNat ==
    ASSUME NEW T \in SUBSET Nat, T # {}
    PROVE  \E m \in T : \A n \in T : m <= n
<1>1. PICK m \in T : \A n \in T : ~ (<<n, m>> \in OpToRel(<, Nat))
  BY NatLessThanWellFounded, WFMin
<1>2. \A n \in T : ~ (n < m)
  BY <1>1 DEF OpToRel
<1> QED BY <1>2

\* An answer of bitmap_scan is a run of clear bits inside the bitmap.
LEMMA ScanLemma ==
    ASSUME NEW bits, NEW cnt \in Nat, NEW size \in Nat \ {0}, bitmap_scan(bits, cnt, size) # -1
    PROVE  /\ bitmap_scan(bits, cnt, size) \in 0..(size - 1)
           /\ bitmap_scan(bits, cnt, size) + cnt <= size
           /\ \A j \in bitmap_scan(bits, cnt, size)..(bitmap_scan(bits, cnt, size) + cnt - 1) : j \notin bits
<1> DEFINE fits == {i \in 0..(size - 1) : i + cnt <= size /\ \A j \in i..(i + cnt - 1) : j \notin bits}
           least == CHOOSE i \in fits : \A j \in fits : i <= j
<1>1. bitmap_scan(bits, cnt, size) = least /\ fits # {}
  BY DEF bitmap_scan
<1>2. \E i \in fits : \A j \in fits : i <= j
  <2>1. fits \in SUBSET Nat
    OBVIOUS
  <2> HIDE DEF fits
  <2> QED BY <1>1, <2>1, LeastNat
<1>3. least \in fits
  BY <1>2
<1> QED BY <1>1, <1>3
----------------------------------------------------------------------------
(* The free list.                                                           *)

LEMMA AppendBlock ==
    ASSUME NEW s \in Seq(Block), NEW b \in Block, Once(s), b \notin Elems(s)
    PROVE  /\ Append(s, b) \in Seq(Block)
           /\ Once(Append(s, b))
           /\ Elems(Append(s, b)) = Elems(s) \cup {b}
<1>1. /\ Append(s, b) \in Seq(Block) /\ Len(s) \in Nat
      /\ Len(Append(s, b)) = Len(s) + 1
      /\ \A i \in 1..Len(s) : Append(s, b)[i] = s[i]
      /\ Append(s, b)[Len(s) + 1] = b
  OBVIOUS
<1>2. Once(Append(s, b))
  BY <1>1 DEF Once, Elems
<1>3. Elems(Append(s, b)) = Elems(s) \cup {b}
  <2>1. ASSUME NEW x \in Elems(Append(s, b)) PROVE x \in Elems(s) \cup {b}
    BY <1>1, <2>1 DEF Elems
  <2>2. ASSUME NEW x \in Elems(s) PROVE x \in Elems(Append(s, b))
    <3>1. PICK i \in 1..Len(s) : x = s[i]
      BY DEF Elems
    <3>2. i \in 1..Len(Append(s, b)) /\ x = Append(s, b)[i]
      BY <1>1, <3>1
    <3> QED BY <3>2 DEF Elems
  <2>3. b \in Elems(Append(s, b))
    <3>1. Len(s) + 1 \in 1..Len(Append(s, b))
      BY <1>1
    <3> QED BY <1>1, <3>1 DEF Elems
  <2> QED BY <2>1, <2>2, <2>3
<1> QED BY <1>1, <1>2, <1>3

LEMMA PopBlock ==
    ASSUME NEW s \in Seq(Block), s # <<>>, Once(s)
    PROVE  /\ Tail(s) \in Seq(Block)
           /\ Once(Tail(s))
           /\ Head(s) \in Elems(s)
           /\ Elems(Tail(s)) = Elems(s) \ {Head(s)}
<1>1. /\ Tail(s) \in Seq(Block) /\ Len(s) \in Nat /\ Len(s) >= 1
      /\ Len(Tail(s)) = Len(s) - 1
      /\ \A i \in 1..Len(Tail(s)) : Tail(s)[i] = s[i + 1]
      /\ Head(s) = s[1]
  OBVIOUS
<1>2. Once(Tail(s))
  BY <1>1 DEF Once
<1>3. Head(s) \in Elems(s)
  BY <1>1 DEF Elems
<1>4. ASSUME NEW x \in Elems(Tail(s)) PROVE x \in Elems(s) \ {Head(s)}
  <2>1. PICK i \in 1..Len(Tail(s)) : x = Tail(s)[i]
    BY DEF Elems
  <2>2. i + 1 \in 1..Len(s) /\ x = s[i + 1] /\ 1 \in 1..Len(s) /\ i + 1 # 1
    BY <1>1, <2>1
  <2> QED BY <1>1, <2>2 DEF Elems, Once
<1>5. ASSUME NEW x \in Elems(s) \ {Head(s)} PROVE x \in Elems(Tail(s))
  <2>1. PICK i \in 1..Len(s) : x = s[i]
    BY DEF Elems
  <2>2. i - 1 \in 1..Len(Tail(s)) /\ x = Tail(s)[i - 1]
    BY <1>1, <2>1
  <2> QED BY <2>2 DEF Elems
<1> QED BY <1>1, <1>2, <1>3, <1>4, <1>5

LEMMA ArenaBlocksLemma ==
    ASSUME NEW v \in VPage
    PROVE  /\ ArenaBlocks(v) \in Seq(Block) /\ ArenaBlocks(v) # <<>>
           /\ Once(ArenaBlocks(v))
           /\ Elems(ArenaBlocks(v)) = {v} \X (1..blocks_per_arena)
           /\ Head(ArenaBlocks(v)) = <<v, 1>>
<1> DEFINE B == blocks_per_arena
           s == ArenaBlocks(v)
<1>1. B \in Nat /\ B >= 1
  BY MemoryAssumption
<1>2. s \in Seq(Block) /\ Len(s) = B /\ \A i \in 1..B : s[i] = <<v, i>>
  BY <1>1 DEF ArenaBlocks, Block
<1> HIDE DEF s
<1>3. Once(s)
  BY <1>1, <1>2 DEF Once
<1>4. Elems(s) = {v} \X (1..B)
  <2>1. Elems(s) = {s[i] : i \in 1..B}
    BY <1>2 DEF Elems
  <2>2. {s[i] : i \in 1..B} = {<<v, i>> : i \in 1..B}
    BY <1>2
  <2> QED BY <2>1, <2>2
<1>5. s # <<>> /\ Head(s) = <<v, 1>>
  BY <1>1, <1>2
<1> QED BY <1>2, <1>3, <1>4, <1>5 DEF s

\* ArenaUnlinked takes the blocks of v out of the list and keeps the rest.
LEMMA ArenaUnlinkedLemma ==
    ASSUME NEW s \in Seq(Block), NEW v
    PROVE  /\ ArenaUnlinked(s, v) \in Seq(Block)
           /\ Once(s) => Once(ArenaUnlinked(s, v))
           /\ Elems(ArenaUnlinked(s, v)) = {b \in Elems(s) : b[1] # v}
<1> DEFINE kept == {i \in 1..Len(s) : s[i][1] # v}
           Rank(i) == Cardinality({j \in kept : j <= i})
           n == Cardinality(kept)
           rank == [i \in kept |-> Rank(i)]
           At(r) == CHOOSE i \in kept : Rank(i) = r
           u == ArenaUnlinked(s, v)
<1>1. Len(s) \in Nat /\ kept \subseteq 1..Len(s)
  OBVIOUS
<1>2. IsFiniteSet(kept) /\ n \in Nat
  <2>1. IsFiniteSet(1..Len(s))
    BY <1>1, FS_Interval
  <2> HIDE DEF kept
  <2> QED BY <1>1, <2>1, FS_Subset, FS_CardinalityType
<1>3. \A i \in kept : /\ IsFiniteSet({j \in kept : j <= i})
                      /\ Rank(i) \in 1..n
  <2> SUFFICES ASSUME NEW i \in kept
               PROVE  /\ IsFiniteSet({j \in kept : j <= i})
                      /\ Rank(i) \in 1..n
    OBVIOUS
  <2>1. {j \in kept : j <= i} \subseteq kept
    OBVIOUS
  <2>2. i \in {j \in kept : j <= i}
    BY <1>1
  <2> HIDE DEF kept
  <2>3. IsFiniteSet({j \in kept : j <= i}) /\ Rank(i) <= n
    BY <1>2, <2>1, FS_Subset
  <2>4. Rank(i) \in Nat /\ Rank(i) # 0
    BY <2>2, <2>3, FS_EmptySet, FS_CardinalityType
  <2> HIDE DEF Rank, n
  <2>5. Rank(i) \in 1..n
    BY <1>2, <2>3, <2>4
  <2> QED BY <2>3, <2>5
<1>4. ASSUME NEW i \in kept, NEW j \in kept, Rank(i) = Rank(j) PROVE i = j
  <2>1. ASSUME NEW a \in kept, NEW b \in kept, a < b, Rank(a) = Rank(b) PROVE FALSE
    <3>1. {x \in kept : x <= a} \subseteq {x \in kept : x <= b}
      BY <1>1, <2>1
    <3>2. b \in {x \in kept : x <= b} /\ b \notin {x \in kept : x <= a}
      BY <1>1, <2>1
    <3>3. IsFiniteSet({x \in kept : x <= b})
      BY <1>3
    <3> QED BY <2>1, <3>1, <3>2, <3>3, FS_Subset
  <2>2. i \in Nat /\ j \in Nat
    BY <1>1
  <2>3. i < j \/ j < i \/ i = j
    BY <2>2
  <2> QED BY <1>4, <2>1, <2>3
<1>5. \A r \in 1..n : \E i \in kept : Rank(i) = r
  <2>1. rank \in Injection(kept, 1..n)
    <3>1. rank \in [kept -> 1..n]
      <4> HIDE DEF kept, Rank, n
      <4> QED BY <1>3
    <3>2. \A i, j \in kept : rank[i] = rank[j] => i = j
      BY <1>4
    <3> QED BY <3>1, <3>2 DEF Injection, IsInjective
  <2>2. IsFiniteSet(1..n) /\ Cardinality(1..n) = n
    BY <1>2, FS_Interval
  <2>3. rank \in Surjection(kept, 1..n)
    BY <2>1, <2>2, FS_Injection
  <2> QED BY <2>3 DEF Surjection
<1>6. \A r \in 1..n : At(r) \in kept /\ Rank(At(r)) = r
  BY <1>5
<1>7. u = [r \in 1..n |-> s[At(r)]]
  BY DEF ArenaUnlinked
<1> HIDE DEF kept, Rank, n, At, u
<1>8. \A r \in 1..n : s[At(r)] \in Block
  <2>1. \A i \in 1..Len(s) : s[i] \in Block
    OBVIOUS
  <2> QED BY <1>1, <1>6, <2>1
<1>9. u \in Seq(Block) /\ Len(u) = n /\ \A r \in 1..n : u[r] = s[At(r)]
  BY <1>2, <1>7, <1>8
<1>10. Once(s) => Once(u)
  <2> SUFFICES ASSUME Once(s), NEW i \in 1..n, NEW j \in 1..n, s[At(i)] = s[At(j)] PROVE i = j
    BY <1>9 DEF Once
  <2>1. At(i) \in 1..Len(s) /\ At(j) \in 1..Len(s)
    BY <1>1, <1>6
  <2>2. At(i) = At(j)
    BY <2>1 DEF Once
  <2> QED BY <1>6, <2>2
<1>11. ASSUME NEW b \in Elems(u) PROVE b \in Elems(s) /\ b[1] # v
  <2>1. PICK r \in 1..n : b = s[At(r)]
    BY <1>9 DEF Elems
  <2>2. At(r) \in kept
    BY <1>6
  <2> QED BY <2>1, <2>2 DEF kept, Elems
<1>12. ASSUME NEW b \in Elems(s), b[1] # v PROVE b \in Elems(u)
  <2>1. PICK i \in 1..Len(s) : b = s[i]
    BY DEF Elems
  <2>2. i \in kept
    BY <1>12, <2>1 DEF kept
  <2>3. Rank(i) \in 1..n
    BY <1>3, <2>2
  <2>4. At(Rank(i)) = i
    BY <1>4, <1>6, <2>2, <2>3
  <2>5. b = u[Rank(i)]
    BY <1>9, <2>1, <2>3, <2>4
  <2> QED BY <1>9, <2>3, <2>5 DEF Elems
<1> QED BY <1>9, <1>10, <1>11, <1>12 DEF u
----------------------------------------------------------------------------
(* The lock and the calls.                                                  *)

LEMMA BaseInitLemma == MemInit => BaseInv
<1> SUFFICES ASSUME MemInit PROVE BaseInv
  OBVIOUS
<1>1. \A t \in Thread : local[t] = Outside
  BY DEF MemInit
<1>2. BaseType
  <2>1. NoArena \in [large : BOOLEAN, cnt : Int]
    BY DEF NoArena
  <2>2. arena \in [VPage -> [large : BOOLEAN, cnt : Int]] /\ local \in [Thread -> Local]
    BY <2>1, OutsideFields DEF MemInit
  <2>3. torn \in BOOLEAN
    BY DEF MemInit
  <2>4. /\ vbits \subseteq VPage /\ pbits \subseteq PPage /\ pte \in [VPage -> PPage \cup {-1}]
        /\ free \in Seq(Block) /\ mem = {} /\ lock \in Thread \cup {NULL} /\ cur \in Thread
    BY DEF MemInit
  <2> QED BY <2>2, <2>3, <2>4 DEF BaseType
<1>3. \A t \in Thread : CallOK(t)
  BY <1>1, OutsideFields DEF CallOK
<1>4. LockHeld
  BY <1>1, OutsideFields, MemoryAssumption DEF LockHeld, Holds, InHeap, HeapPC, MemInit
<1> QED BY <1>1, <1>2, <1>3, <1>4, OutsideFields DEF BaseInv

\* The running thread exists.
LEMMA CurLemma ==
    ASSUME BaseType
    PROVE  cur \in Thread /\ my \in Local /\ local \in [Thread -> Local]
<1> QED BY MemoryAssumption DEF BaseType, my

\* A step of the thread c: the others keep their locals, their pieces and the
\* lock if they have it.
LEMMA BaseStep ==
    ASSUME BaseInv, BaseType', NEW c \in Thread,
           \A t \in Thread \ {c} : local'[t] = local[t],
           \A m \in mem : m.by # c => m \in mem',
           CallOK(c)', lock' = c <=> Holds(c)',
           \A t \in Thread \ {c} : lock' = t <=> lock = t
    PROVE  BaseInv'
<1>1. \A t \in Thread : CallOK(t)'
  <2> SUFFICES ASSUME NEW t \in Thread, t # c PROVE CallOK(t)'
    OBVIOUS
  <2>1. CallOK(t) /\ local'[t] = local[t]
    BY DEF BaseInv
  <2>2. \A m \in mem : m.by = t => m \in mem'
    OBVIOUS
  <2>3. \A v, n, call : Owned(t, v, n, call) => Owned(t, v, n, call)'
    BY <2>2 DEF Owned
  <2> QED BY <2>1, <2>3 DEF CallOK
<1>2. LockHeld'
  BY DEF BaseInv, LockHeld, Holds, InHeap
<1> QED BY <1>1, <1>2 DEF BaseInv

\* A step that touches neither the heap nor the lock.
LEMMA LocalStep ==
    ASSUME BaseInv, NEW c, c = cur, NEW l \in Local, Local_(l),
           UNCHANGED <<heapVars, lock, torn, cur>>,
           CallOK(c)', Holds(c)' <=> Holds(c)
    PROVE  BaseInv'
<1>1. BaseType
  BY DEF BaseInv
<1>2. local' \in [Thread -> Local] /\ \A t \in Thread \ {c} : local'[t] = local[t]
  BY <1>1, CurLemma, Local_Lemma
<1>3. BaseType'
  BY <1>1, <1>2 DEF BaseType, heapVars
<1>4. lock' = c <=> Holds(c)'
  BY <1>1, CurLemma DEF BaseInv, LockHeld
<1> QED BY <1>1, <1>2, <1>3, <1>4, CurLemma, BaseStep DEF heapVars

\* What the four calls begin with.
Asked(call, n, v, label) ==
    /\ n \in Nat /\ n >= 1 /\ v \in VPage
    /\ \/ label = "lock" /\ call = "sys_malloc small" /\ n = 1 /\ v = 0
       \/ label = "lock" /\ call = "sys_malloc large" /\ v = 0
       \/ label = "vscan" /\ call = "get_kernel_pages"
       \/ label = "lock" /\ call = "sys_free"
       \/ label = "free" /\ call = "mfree_page"
    /\ call \in Frees => Owned(cur, v, n, call)

LEMMA BeginLemma ==
    ASSUME BaseInv, NEW call, NEW n, NEW v, NEW label,
           Begin(call, n, v, label), Asked(call, n, v, label)
    PROVE  /\ BaseInv'
           /\ local'[cur].pc = label /\ local'[cur].call = call /\ local'[cur].n = n
           /\ local'[cur].base = v /\ local'[cur].done = 0
           /\ \A t \in Thread \ {cur} : local'[t] = local[t]
           /\ UNCHANGED <<heapVars, lock, torn, cur>> /\ my.pc = "out"
<1> DEFINE l == [Outside EXCEPT !.pc = label, !.call = call, !.n = n, !.base = v]
<1>0. label \in PC \ {"out"} /\ call \in Call /\ n \in Nat /\ v \in VPage
  BY DEF Asked, PC, Call
<1>1. /\ l \in Local /\ l.pc = label /\ l.call = call /\ l.n = n /\ l.base = v /\ l.done = 0
  BY <1>0 DEF Local, Outside
<1>2. my.pc = "out" /\ Local_(l) /\ UNCHANGED <<heapVars, lock, torn, cur>>
  BY DEF Begin
<1> HIDE DEF l
<1>3. cur \in Thread /\ local \in [Thread -> Local]
  BY CurLemma DEF BaseInv
<1>4. local'[cur] = l /\ \A t \in Thread \ {cur} : local'[t] = local[t]
  <2>1. l \in Local /\ l.pc # "out"
    BY <1>0, <1>1
  <2>2. Local_(l)
    BY <1>2
  <2> QED BY <1>3, <2>1, <2>2, Local_Lemma
<1>5. PICK c : c = cur
  OBVIOUS
<1>6. CallOK(c)'
  <2>1. mem' = mem /\ local'[c] = l
    BY <1>2, <1>4, <1>5 DEF heapVars
  <2>2. \A w, k, x : Owned(c, w, k, x) => Owned(c, w, k, x)'
    BY <2>1 DEF Owned
  <2> QED BY <1>1, <1>5, <2>1, <2>2 DEF CallOK, Asked, Allocs, Frees, Locked
<1>7. Holds(c)' <=> Holds(c)
  BY <1>1, <1>2, <1>4, <1>5 DEF Holds, InHeap, HeapPC, my, Locked, Asked
<1>8. BaseInv'
  BY <1>1, <1>2, <1>5, <1>6, <1>7, LocalStep
<1> QED BY <1>1, <1>2, <1>4, <1>8

\* The four calls; each begins outside the allocator.
LEMMA CallsLemma ==
    ASSUME BaseInv,
           sys_malloc_kernel \/ get_kernel_pages \/ sys_free_kernel \/ mfree_page
    PROVE  /\ BaseInv'
           /\ my.pc = "out"
           /\ local'[cur].pc \in {"lock", "vscan", "free"}
           /\ local'[cur].pc \in {"vscan", "free"} =>
                 cur \notin Preemptible \/ \E m \in mem : m.by = cur /\ m.kind = "pages"
           /\ \A t \in Thread \ {cur} : local'[t] = local[t]
           /\ UNCHANGED <<heapVars, lock, torn, cur>>
<1>0. 0 \in VPage /\ MaxPages \in Nat
  BY MemoryAssumption DEF VPage
<1> DEFINE Goal ==
           /\ BaseInv'
           /\ my.pc = "out"
           /\ local'[cur].pc \in {"lock", "vscan", "free"}
           /\ local'[cur].pc \in {"vscan", "free"} =>
                 cur \notin Preemptible \/ \E m \in mem : m.by = cur /\ m.kind = "pages"
           /\ \A t \in Thread \ {cur} : local'[t] = local[t]
           /\ UNCHANGED <<heapVars, lock, torn, cur>>
<1>1. CASE Begin("sys_malloc small", 1, 0, "lock")
  <2>1. Asked("sys_malloc small", 1, 0, "lock")
    BY <1>0 DEF Asked, Frees
  <2>2. /\ BaseInv' /\ my.pc = "out" /\ local'[cur].pc = "lock"
        /\ \A t \in Thread \ {cur} : local'[t] = local[t]
        /\ UNCHANGED <<heapVars, lock, torn, cur>>
    BY <1>1, <2>1, BeginLemma
  <2> QED BY <2>2
<1>2. ASSUME NEW n \in 1..MaxPages, Begin("sys_malloc large", n, 0, "lock") PROVE Goal
  <2>1. Asked("sys_malloc large", n, 0, "lock")
    BY <1>0 DEF Asked, Frees
  <2>2. /\ BaseInv' /\ my.pc = "out" /\ local'[cur].pc = "lock"
        /\ \A t \in Thread \ {cur} : local'[t] = local[t]
        /\ UNCHANGED <<heapVars, lock, torn, cur>>
    BY <1>2, <2>1, BeginLemma
  <2> QED BY <2>2
<1>3. ASSUME NEW n \in 1..MaxPages, Begin("get_kernel_pages", n, 0, "vscan"), cur \notin Preemptible
      PROVE  Goal
  <2>1. Asked("get_kernel_pages", n, 0, "vscan")
    BY <1>0 DEF Asked, Frees
  <2> QED BY <1>3, <2>1, BeginLemma
<1>4. ASSUME NEW m \in mem, m.by = cur, m.kind # "pages", Begin("sys_free", m.n, m.page, "lock")
      PROVE  Goal
  <2>1. m.n \in Nat /\ m.n >= 1 /\ m.page \in VPage
    BY DEF BaseInv, BaseType, Piece
  <2>2. Asked("sys_free", m.n, m.page, "lock")
    BY <1>4, <2>1 DEF Asked, Owned
  <2> QED BY <1>4, <2>2, BeginLemma
<1>5. ASSUME NEW m \in mem, m.by = cur, m.kind = "pages", Begin("mfree_page", m.n, m.page, "free")
      PROVE  Goal
  <2>1. m.n \in Nat /\ m.n >= 1 /\ m.page \in VPage
    BY DEF BaseInv, BaseType, Piece
  <2>2. Asked("mfree_page", m.n, m.page, "free")
    BY <1>5, <2>1 DEF Asked, Owned
  <2> QED BY <1>5, <2>2, BeginLemma
<1> QED BY <1>1, <1>2, <1>3, <1>4, <1>5
        DEF sys_malloc_kernel, get_kernel_pages, sys_free_kernel, mfree_page

\* A step of the running thread to another label, everything else in its
\* locals kept; the locals vanish when the call is over.
LEMMA GotoLemma ==
    ASSUME BaseType, NEW label \in PC, Goto(label)
    PROVE  /\ local' \in [Thread -> Local]
           /\ local'[cur].pc = label
           /\ label # "out" =>
                 /\ local'[cur].call = my.call /\ local'[cur].n = my.n
                 /\ local'[cur].base = my.base /\ local'[cur].done = my.done
                 /\ local'[cur].frame = my.frame
           /\ \A t \in Thread \ {cur} : local'[t] = local[t]
<1> DEFINE l == [my EXCEPT !.pc = label]
<1>1. cur \in Thread /\ my \in Local /\ local \in [Thread -> Local]
  BY CurLemma
<1>2. /\ l \in Local /\ l.pc = label /\ l.call = my.call /\ l.n = my.n /\ l.base = my.base
      /\ l.done = my.done /\ l.frame = my.frame
  BY <1>1, GotoFields
<1>3. Local_(l)
  BY DEF Goto
<1> HIDE DEF l
<1>4. /\ local' \in [Thread -> Local]
      /\ l.pc # "out" => local'[cur] = l
      /\ l.pc = "out" => local'[cur] = Outside
      /\ \A t \in Thread \ {cur} : local'[t] = local[t]
  BY <1>1, <1>2, <1>3, Local_Lemma
<1> QED BY <1>2, <1>4, OutsideFields

LEMMA lock_acquireLemma ==
    ASSUME BaseInv, lock_acquire
    PROVE  /\ BaseInv'
           /\ my.pc = "lock" /\ lock = NULL /\ lock' = cur
           /\ local'[cur].pc \in {"free", "got", "vscan"}
           /\ local'[cur].pc = "got" => local'[cur].call = "sys_malloc small" /\ free # <<>>
           /\ local'[cur].call = my.call
           /\ \A t \in Thread \ {cur} : local'[t] = local[t]
           /\ UNCHANGED <<heapVars, torn, cur>>
<1> DEFINE label == IF my.call = "sys_free" THEN "free"
                    ELSE IF my.call = "sys_malloc small" /\ free # <<>> THEN "got"
                    ELSE "vscan"
<1>1. /\ my.pc = "lock" /\ lock = NULL /\ lock' = cur /\ Goto(label)
      /\ UNCHANGED <<heapVars, torn, cur>>
  BY DEF lock_acquire
<1>2. label \in PC /\ label # "out"
  BY DEF PC
<1>3. PICK c : c = cur
  OBVIOUS
<1>4. BaseType /\ c \in Thread /\ CallOK(c) /\ my = local[c]
  BY <1>3, CurLemma DEF BaseInv, my
<1>5. /\ local' \in [Thread -> Local] /\ local'[c].pc = label
      /\ local'[c].call = my.call /\ local'[c].n = my.n /\ local'[c].base = my.base
      /\ local'[c].done = my.done
      /\ \A t \in Thread \ {c} : local'[t] = local[t]
  BY <1>1, <1>2, <1>3, <1>4, GotoLemma
<1>6. BaseType'
  BY <1>1, <1>3, <1>4, <1>5 DEF BaseType, heapVars
<1>7. my.call \in Locked /\ label \in {"free", "got", "vscan"}
  BY <1>1, <1>4 DEF CallOK
<1>8. CallOK(c)'
  <2>1. 0 \in VPage
    BY MemoryAssumption DEF VPage
  <2>2. \A v, n, call : Owned(c, v, n, call) => Owned(c, v, n, call)'
    BY <1>1 DEF heapVars, Owned
  <2> QED BY <1>1, <1>4, <1>5, <1>7, <2>1, <2>2 DEF CallOK, Locked, Allocs, Frees
<1>9. lock' = c /\ Holds(c)'
  BY <1>1, <1>3, <1>5, <1>7 DEF Holds, InHeap, HeapPC, PC
<1>10. \A t \in Thread \ {c} : lock' = t <=> lock = t
  BY <1>1, <1>3, MemoryAssumption
<1>11. BaseInv'
  BY <1>1, <1>3, <1>4, <1>5, <1>6, <1>8, <1>9, <1>10, BaseStep DEF heapVars
<1> QED BY <1>1, <1>3, <1>5, <1>7, <1>11

LEMMA lock_releaseLemma ==
    ASSUME BaseInv, lock_release
    PROVE  /\ BaseInv'
           /\ my.pc = "unlock" /\ local'[cur].pc = "out"
           /\ \A t \in Thread \ {cur} : local'[t] = local[t]
           /\ UNCHANGED <<heapVars, torn, cur>>
<1>1. my.pc = "unlock" /\ lock' = NULL /\ Goto("out") /\ UNCHANGED <<heapVars, torn, cur>>
  BY DEF lock_release
<1>2. PICK c : c = cur
  OBVIOUS
<1>3. BaseType /\ c \in Thread /\ CallOK(c) /\ my = local[c]
  BY <1>2, CurLemma DEF BaseInv, my
<1>4. /\ local' \in [Thread -> Local] /\ local'[c].pc = "out"
      /\ \A t \in Thread \ {c} : local'[t] = local[t]
  BY <1>1, <1>2, <1>3, GotoLemma DEF PC
<1>5. lock = c
  BY <1>1, <1>3 DEF BaseInv, LockHeld, Holds, InHeap, HeapPC, PC, CallOK
<1>6. BaseType'
  BY <1>1, <1>3, <1>4 DEF BaseType, heapVars
<1>7. CallOK(c)' /\ ~ Holds(c)'
  BY <1>4 DEF CallOK, Holds, InHeap, HeapPC
<1>8. BaseInv'
  BY <1>1, <1>2, <1>3, <1>4, <1>5, <1>6, <1>7, BaseStep, MemoryAssumption DEF heapVars
<1> QED BY <1>1, <1>2, <1>4, <1>8

\* A failing call gives the lock back before it returns.
LEMMA FailureLemma ==
    ASSUME NEW t \in Thread, local[t].call \in Call
    PROVE  /\ UnlockedOnFailure(t) \in {"unlock", "out"}
           /\ UnlockedOnFailure(t) = "unlock" <=> local[t].call \in Locked
<1> QED BY DEF UnlockedOnFailure

LEMMA vaddr_get_scanLemma ==
    ASSUME BaseInv, vaddr_get_scan
    PROVE  /\ BaseInv'
           /\ my.pc = "vscan"
           /\ local'[cur].pc \in {"vset", "unlock", "out"}
           /\ local'[cur].pc # "out" => local'[cur].call = my.call
           /\ local'[cur].pc = "vset" => \A q \in Wanted(local'[cur]) : q \notin vbits
           /\ \A t \in Thread \ {cur} : local'[t] = local[t]
           /\ UNCHANGED <<heapVars, lock, torn, cur>>
<1> DEFINE v == bitmap_scan(vbits, my.n, VPages)
           label == IF v = -1 THEN UnlockedOnFailure(cur) ELSE "vset"
           l == [my EXCEPT !.base = v, !.pc = label]
<1>1. my.pc = "vscan" /\ Local_(l) /\ UNCHANGED <<heapVars, lock, torn, cur>>
  BY DEF vaddr_get_scan
<1>2. PICK c : c = cur
  OBVIOUS
<1>3. /\ BaseType /\ c \in Thread /\ CallOK(c) /\ my = local[c] /\ my \in Local
      /\ local \in [Thread -> Local]
  BY <1>2, CurLemma DEF BaseInv, my
<1>4. /\ my.call \in Allocs /\ my.call \in Call /\ my.n \in Nat /\ my.n >= 1 /\ my.done = 0
      /\ my.call = "sys_malloc small" => my.n = 1
  BY <1>1, <1>3 DEF CallOK, Local
<1>5. label \in {"vset", "unlock", "out"} /\ (label = "unlock" => my.call \in Locked)
      /\ (label = "out" => my.call \notin Locked) /\ (label = "vset" <=> v # -1)
  BY <1>2, <1>3, <1>4, FailureLemma
<1>6. v # -1 => v \in VPage /\ v + my.n <= VPages /\ \A j \in v..(v + my.n - 1) : j \notin vbits
  BY <1>4, ScanLemma, MemoryAssumption DEF VPage
<1> HIDE DEF label, v
<1>7. /\ l \in Local /\ l.pc = label /\ l.call = my.call /\ l.n = my.n /\ l.base = v /\ l.done = 0
  <2>1. label \in PC /\ v \in VPage \cup {-1}
    BY <1>5, <1>6 DEF PC
  <2>2. my \in Local
    BY <1>3
  <2> QED BY <1>4, <2>1, <2>2 DEF Local
<1> HIDE DEF l
<1>8. /\ local' \in [Thread -> Local]
      /\ l.pc # "out" => local'[c] = l
      /\ l.pc = "out" => local'[c] = Outside
      /\ \A t \in Thread \ {c} : local'[t] = local[t]
  BY <1>1, <1>2, <1>3, <1>7, Local_Lemma
<1>9. CASE label = "out"
  <2>1. local'[c].pc = "out"
    BY <1>7, <1>8, <1>9, OutsideFields
  <2>2. CallOK(c)' /\ ~ Holds(c)' /\ ~ Holds(c)
    BY <1>3, <1>5, <1>9, <2>1 DEF CallOK, Holds, InHeap, HeapPC
  <2>3. BaseInv'
    BY <1>1, <1>2, <1>7, <2>2, LocalStep
  <2> QED BY <1>1, <1>2, <1>8, <2>1, <2>3
<1>10. CASE label # "out"
  <2>1. local'[c] = l
    BY <1>7, <1>8, <1>10
  <2>2. CallOK(c)'
    BY <1>4, <1>5, <1>6, <1>7, <1>10, <2>1 DEF CallOK, Allocs
  <2>3. Holds(c)' <=> Holds(c)
    BY <1>1, <1>3, <1>5, <1>7, <1>10, <2>1 DEF Holds, InHeap, HeapPC, PC
  <2>4. BaseInv'
    BY <1>1, <1>2, <1>7, <2>2, <2>3, LocalStep
  <2>5. label = "vset" => \A q \in Wanted(l) : q \notin vbits
    BY <1>5, <1>6, <1>7 DEF Wanted
  <2> QED BY <1>1, <1>2, <1>5, <1>7, <1>8, <2>1, <2>4, <2>5
<1> QED BY <1>9, <1>10

LEMMA palloc_scanLemma ==
    ASSUME BaseInv, palloc_scan
    PROVE  /\ BaseInv'
           /\ my.pc = "pscan"
           /\ local'[cur].pc \in {"padd", "unlock", "out"}
           /\ local'[cur].pc # "out" =>
                 /\ local'[cur].call = my.call /\ local'[cur].n = my.n
                 /\ local'[cur].base = my.base /\ local'[cur].done = my.done
           /\ local'[cur].pc = "padd" => local'[cur].frame \notin pbits
           /\ \A t \in Thread \ {cur} : local'[t] = local[t]
           /\ UNCHANGED <<heapVars, lock, torn, cur>>
<1> DEFINE p == bitmap_scan(pbits, 1, PPages)
           label == IF p = -1 THEN UnlockedOnFailure(cur) ELSE "padd"
           l == [my EXCEPT !.frame = p, !.pc = label]
<1>1. my.pc = "pscan" /\ Local_(l) /\ UNCHANGED <<heapVars, lock, torn, cur>>
  BY DEF palloc_scan
<1>2. PICK c : c = cur
  OBVIOUS
<1>3. /\ BaseType /\ c \in Thread /\ CallOK(c) /\ my = local[c] /\ my \in Local
      /\ local \in [Thread -> Local]
  BY <1>2, CurLemma DEF BaseInv, my
<1>4. /\ my.call \in Allocs /\ my.call \in Call /\ my.n \in Nat /\ my.n >= 1
      /\ my.call = "sys_malloc small" => my.n = 1
      /\ my.base \in VPage /\ my.base + my.n <= VPages /\ my.done < my.n
  BY <1>1, <1>3 DEF CallOK, Local
<1>5. label \in {"padd", "unlock", "out"} /\ (label = "unlock" => my.call \in Locked)
      /\ (label = "out" => my.call \notin Locked) /\ (label = "padd" <=> p # -1)
  BY <1>2, <1>3, <1>4, FailureLemma
<1>6. p # -1 => p \in PPage /\ p \notin pbits
  <2>1. p # -1 => p \in PPage /\ \A j \in p..(p + 1 - 1) : j \notin pbits
    BY ScanLemma, MemoryAssumption DEF PPage
  <2> HIDE DEF p
  <2> QED BY <2>1, MemoryAssumption DEF PPage
<1> HIDE DEF label, p
<1>7. /\ l \in Local /\ l.pc = label /\ l.call = my.call /\ l.n = my.n /\ l.base = my.base
      /\ l.done = my.done /\ l.frame = p
  <2>1. label \in PC /\ p \in PPage \cup {-1}
    BY <1>5, <1>6 DEF PC
  <2>2. my \in Local
    BY <1>3
  <2> QED BY <2>1, <2>2 DEF Local
<1> HIDE DEF l
<1>8. /\ local' \in [Thread -> Local]
      /\ l.pc # "out" => local'[c] = l
      /\ l.pc = "out" => local'[c] = Outside
      /\ \A t \in Thread \ {c} : local'[t] = local[t]
  BY <1>1, <1>2, <1>3, <1>7, Local_Lemma
<1>9. CASE label = "out"
  <2>1. local'[c].pc = "out"
    BY <1>7, <1>8, <1>9, OutsideFields
  <2>2. CallOK(c)' /\ ~ Holds(c)' /\ ~ Holds(c)
    BY <1>3, <1>5, <1>9, <2>1 DEF CallOK, Holds, InHeap, HeapPC
  <2>3. BaseInv'
    BY <1>1, <1>2, <1>7, <2>2, LocalStep
  <2> QED BY <1>1, <1>2, <1>8, <2>1, <2>3
<1>10. CASE label # "out"
  <2>1. local'[c] = l
    BY <1>7, <1>8, <1>10
  <2>2. CallOK(c)'
    BY <1>4, <1>5, <1>6, <1>7, <1>10, <2>1 DEF CallOK, Allocs
  <2>3. Holds(c)' <=> Holds(c)
    BY <1>1, <1>3, <1>5, <1>7, <1>10, <2>1 DEF Holds, InHeap, HeapPC, PC
  <2>4. BaseInv'
    BY <1>1, <1>2, <1>7, <2>2, <2>3, LocalStep
  <2> QED BY <1>1, <1>2, <1>5, <1>6, <1>7, <1>8, <2>1, <2>4
<1> QED BY <1>9, <1>10

\* A step that changes the heap and not the lock.
LEMMA HeapStep ==
    ASSUME BaseInv, BaseType', NEW c, c = cur, lock' = lock,
           \A t \in Thread \ {c} : local'[t] = local[t],
           \A m \in mem : m.by # c => m \in mem',
           CallOK(c)', Holds(c)' <=> Holds(c)
    PROVE  BaseInv'
<1>1. c \in Thread
  BY CurLemma DEF BaseInv
<1>2. lock' = c <=> Holds(c)'
  BY <1>1 DEF BaseInv, LockHeld
<1> QED BY <1>1, <1>2, BaseStep

LEMMA vaddr_get_setLemma ==
    ASSUME BaseInv, vaddr_get_set
    PROVE  /\ BaseInv'
           /\ my.pc = "vset" /\ local'[cur].pc = "pscan"
           /\ local'[cur].call = my.call /\ local'[cur].n = my.n
           /\ local'[cur].base = my.base /\ local'[cur].done = 0
           /\ my.base \in VPage /\ my.n \in Nat /\ my.base + my.n <= VPages
           /\ vbits' = vbits \cup Wanted(my)
           /\ \A t \in Thread \ {cur} : local'[t] = local[t]
           /\ torn' = (torn \/ AddressesFound)
           /\ UNCHANGED <<pbits, pte, arena, free, mem, lock, cur>>
<1>1. /\ my.pc = "vset" /\ vbits' = vbits \cup Wanted(my) /\ Goto("pscan")
      /\ torn' = (torn \/ AddressesFound)
      /\ UNCHANGED <<pbits, pte, arena, free, mem, lock, cur>>
  BY DEF vaddr_get_set, Wanted
<1>2. PICK c : c = cur
  OBVIOUS
<1>3. BaseType /\ c \in Thread /\ CallOK(c) /\ my = local[c] /\ my \in Local
  BY <1>2, CurLemma DEF BaseInv, my
<1>4. /\ my.call \in Allocs /\ my.n \in Nat /\ my.n >= 1 /\ my.done = 0
      /\ my.call = "sys_malloc small" => my.n = 1
      /\ my.base \in VPage /\ my.base + my.n <= VPages
  BY <1>1, <1>3 DEF CallOK, Local
<1>5. /\ local' \in [Thread -> Local] /\ local'[c].pc = "pscan"
      /\ local'[c].call = my.call /\ local'[c].n = my.n /\ local'[c].base = my.base
      /\ local'[c].done = my.done
      /\ \A t \in Thread \ {c} : local'[t] = local[t]
  BY <1>1, <1>2, <1>3, GotoLemma DEF PC
<1>6. Wanted(my) \subseteq VPage
  BY <1>4, WantedInside
<1>7. BaseType'
  BY <1>1, <1>3, <1>5, <1>6 DEF BaseType
<1>8. CallOK(c)'
  <2>1. my.n \in Nat /\ my.n >= 1 => 0 < my.n
    OBVIOUS
  <2> QED BY <1>4, <1>5, <2>1 DEF CallOK, Allocs
<1>9. Holds(c)' <=> Holds(c)
  BY <1>1, <1>3, <1>5 DEF Holds, InHeap, HeapPC, PC
<1>10. BaseInv'
  BY <1>1, <1>2, <1>5, <1>7, <1>8, <1>9, HeapStep
<1> QED BY <1>1, <1>2, <1>4, <1>5, <1>10

LEMMA page_table_addLemma ==
    ASSUME BaseInv, page_table_add
    PROVE  /\ BaseInv'
           /\ my.pc = "padd" /\ local'[cur].pc = IF my.done + 1 = my.n THEN "got" ELSE "pscan"
           /\ local'[cur].call = my.call /\ local'[cur].n = my.n
           /\ local'[cur].base = my.base /\ local'[cur].done = my.done + 1
           /\ my.base \in VPage /\ my.n \in Nat /\ my.done \in Nat /\ my.done < my.n
           /\ my.base + my.n <= VPages /\ my.frame \in PPage
           /\ pbits' = pbits \cup {my.frame}
           /\ pte' = [pte EXCEPT ![my.base + my.done] = my.frame]
           /\ \A t \in Thread \ {cur} : local'[t] = local[t]
           /\ torn' = (torn \/ FrameFound)
           /\ UNCHANGED <<vbits, arena, free, mem, lock, cur>>
<1> DEFINE label == IF my.done + 1 = my.n THEN "got" ELSE "pscan"
           l == [my EXCEPT !.done = @ + 1, !.frame = -1, !.pc = label]
<1>1. /\ my.pc = "padd" /\ pbits' = pbits \cup {my.frame}
      /\ pte' = [pte EXCEPT ![my.base + my.done] = my.frame]
      /\ Local_(l)
      /\ torn' = (torn \/ FrameFound)
      /\ UNCHANGED <<vbits, arena, free, mem, lock, cur>>
  BY DEF page_table_add
<1>2. PICK c : c = cur
  OBVIOUS
<1>3. /\ BaseType /\ c \in Thread /\ CallOK(c) /\ my = local[c] /\ my \in Local
      /\ local \in [Thread -> Local]
  BY <1>2, CurLemma DEF BaseInv, my
<1>4. /\ my.call \in Allocs /\ my.n \in Nat /\ my.n >= 1 /\ my.done \in Nat /\ my.done < my.n
      /\ my.call = "sys_malloc small" => my.n = 1
      /\ my.base \in VPage /\ my.base + my.n <= VPages /\ my.frame \in PPage
  BY <1>1, <1>3 DEF CallOK, Local
<1>5. label \in {"got", "pscan"} /\ (label = "pscan" => my.done + 1 < my.n)
  <2>1. my.n \in Nat /\ my.done \in Nat /\ my.done < my.n
    BY <1>4
  <2>2. my.done + 1 = my.n \/ my.done + 1 < my.n
    BY <2>1
  <2> QED BY <2>2
<1>6. /\ l \in Local /\ l.pc = label /\ l.call = my.call /\ l.n = my.n /\ l.base = my.base
      /\ l.done = my.done + 1
  <2>1. label \in PC
    BY <1>5 DEF PC
  <2> HIDE DEF label
  <2> DEFINE d == my.done + 1
  <2>2. d \in Nat /\ my \in Local
    BY <1>3 DEF Local
  <2>3. l = [my EXCEPT !.done = d, !.frame = -1, !.pc = label]
    OBVIOUS
  <2> HIDE DEF d, l
  <2>4. l \in Local /\ l.pc = label /\ l.call = my.call /\ l.n = my.n /\ l.base = my.base /\ l.done = d
    BY <2>1, <2>2, <2>3 DEF Local
  <2> QED BY <2>4 DEF d
<1> HIDE DEF l
<1>7. /\ local' \in [Thread -> Local] /\ local'[c] = l
      /\ \A t \in Thread \ {c} : local'[t] = local[t]
  <2>1. l.pc # "out"
    BY <1>5, <1>6
  <2>2. Local_(l)
    BY <1>1
  <2> HIDE DEF label
  <2> QED BY <1>2, <1>3, <1>6, <2>1, <2>2, Local_Lemma
<1>8. BaseType'
  <2>1. pbits' \subseteq PPage /\ pte' \in [VPage -> PPage \cup {-1}]
    BY <1>1, <1>3, <1>4 DEF BaseType
  <2> QED BY <1>1, <1>3, <1>7, <2>1 DEF BaseType
<1>9. CallOK(c)'
  BY <1>4, <1>5, <1>6, <1>7 DEF CallOK, Allocs
<1>10. Holds(c)' <=> Holds(c)
  BY <1>1, <1>3, <1>5, <1>6, <1>7 DEF Holds, InHeap, HeapPC, PC
<1>11. BaseInv'
  BY <1>1, <1>2, <1>7, <1>8, <1>9, <1>10, HeapStep
<1> QED BY <1>1, <1>2, <1>4, <1>6, <1>7, <1>11

LEMMA SwitchLemma ==
    ASSUME BaseInv, Switch
    PROVE  /\ BaseInv'
           /\ cur \in Preemptible \/ my.pc \in {"out", "lock"}
           /\ UNCHANGED <<heapVars, lock, torn, local>>
<1>1. PICK t \in Thread \ {cur} : cur' = t
  BY DEF Switch
<1>2. /\ cur \in Preemptible \/ my.pc \in {"out", "lock"}
      /\ UNCHANGED <<heapVars, lock, torn, local>>
  BY DEF Switch
<1>3. BaseType'
  BY <1>1, <1>2 DEF BaseInv, BaseType, heapVars
<1>4. \A u \in Thread : CallOK(u)'
  <2> SUFFICES ASSUME NEW u \in Thread PROVE CallOK(u)'
    OBVIOUS
  <2>1. CallOK(u)
    BY DEF BaseInv
  <2> QED BY <1>2, <2>1 DEF CallOK, Owned, heapVars
<1>5. LockHeld'
  BY <1>2 DEF BaseInv, LockHeld, Holds, InHeap
<1> QED BY <1>2, <1>3, <1>4, <1>5 DEF BaseInv

\* A piece that finish hands out.
NewPiece(kind, page, n) == [by |-> cur, kind |-> kind, page |-> page, n |-> n]

LEMMA NewPieceLemma ==
    ASSUME cur \in Thread, NEW kind \in {"pages", "large", "small"}, NEW page \in VPage, NEW n \in Nat,
           NEW p, p = NewPiece(kind, page, n)
    PROVE  p \in Piece /\ p.by = cur /\ p.kind = kind /\ p.page = page /\ p.n = n
<1> QED BY DEF NewPiece, Piece

\* An arena with one free block less.
OneLess(a) == [a EXCEPT !.cnt = @ - 1]

LEMMA OneLessLemma ==
    ASSUME NEW a \in [large : BOOLEAN, cnt : Int]
    PROVE  /\ OneLess(a) \in [large : BOOLEAN, cnt : Int]
           /\ OneLess(a).large = a.large /\ OneLess(a).cnt = a.cnt - 1
<1> DEFINE k == a.cnt - 1
<1>1. k \in Int /\ OneLess(a) = [a EXCEPT !.cnt = k]
  BY DEF OneLess
<1> HIDE DEF k
<1>2. /\ OneLess(a) \in [large : BOOLEAN, cnt : Int]
      /\ OneLess(a).large = a.large /\ OneLess(a).cnt = k
  BY <1>1
<1> QED BY <1>2 DEF k

\* What finish does to the heap in each of its cases.
FinishPages ==
    /\ my.call = "get_kernel_pages"
    /\ mem' = mem \cup {NewPiece("pages", my.base, my.n)}
    /\ UNCHANGED <<arena, free>>

FinishLarge ==
    /\ my.call = "sys_malloc large"
    /\ arena' = [arena EXCEPT ![my.base] = [large |-> TRUE, cnt |-> my.n]]
    /\ mem' = mem \cup {NewPiece("large", my.base, my.n)}
    /\ UNCHANGED free

FinishArena ==
    /\ my.call = "sys_malloc small" /\ free = <<>>
    /\ free' = Tail(ArenaBlocks(my.base))
    /\ arena' = [arena EXCEPT ![my.base] = OneLess([large |-> FALSE, cnt |-> blocks_per_arena])]
    /\ mem' = mem \cup {NewPiece("small", my.base, 1)}

FinishBlock ==
    /\ my.call = "sys_malloc small" /\ free # <<>>
    /\ free' = Tail(free)
    /\ arena' = [arena EXCEPT ![Head(free)[1]] = OneLess(arena[Head(free)[1]])]
    /\ mem' = mem \cup {NewPiece("small", Head(free)[1], Head(free)[2])}

LEMMA finishCases ==
    ASSUME BaseInv, finish
    PROVE  /\ my.pc = "got"
           /\ FinishPages \/ FinishLarge \/ FinishArena \/ FinishBlock
           /\ Goto(IF my.call = "get_kernel_pages" THEN "out" ELSE "unlock")
           /\ UNCHANGED <<vbits, pbits, pte, lock, torn, cur>>
<1>1. my.pc = "got" /\ UNCHANGED <<vbits, pbits, pte, lock, torn, cur>>
  BY DEF finish
<1>2. CASE /\ my.call = "get_kernel_pages"
           /\ Got("pages", my.base, my.n) /\ Goto("out") /\ UNCHANGED <<arena, free>>
  BY <1>1, <1>2 DEF Got, NewPiece, FinishPages
<1>3. CASE /\ my.call = "sys_malloc large"
           /\ arena' = [arena EXCEPT ![my.base] = [large |-> TRUE, cnt |-> my.n]]
           /\ Got("large", my.base, my.n) /\ Goto("unlock") /\ UNCHANGED free
  BY <1>1, <1>3 DEF Got, NewPiece, FinishLarge
<1> DEFINE list == IF free = <<>> THEN ArenaBlocks(my.base) ELSE free
           b    == Head(list)
           a    == IF free = <<>> THEN [large |-> FALSE, cnt |-> blocks_per_arena] ELSE arena[b[1]]
<1>4. CASE /\ my.call = "sys_malloc small"
           /\ free' = Tail(list)
           /\ arena' = [arena EXCEPT ![b[1]] = [a EXCEPT !.cnt = @ - 1]]
           /\ Got("small", b[1], b[2])
           /\ Goto("unlock")
  <2>1. CASE free = <<>>
    <3>1. my.base \in VPage
      BY <1>1, CurLemma DEF BaseInv, CallOK, my
    <3>2. b = <<my.base, 1>>
      BY <2>1, <3>1, ArenaBlocksLemma
    <3>3. b[1] = my.base /\ b[2] = 1 /\ a = [large |-> FALSE, cnt |-> blocks_per_arena]
      BY <2>1, <3>2
    <3>4. free' = Tail(ArenaBlocks(my.base))
      BY <1>4, <2>1
    <3> HIDE DEF list, b, a
    <3>5. mem' = mem \cup {NewPiece("small", my.base, 1)}
      BY <1>4, <3>3 DEF Got, NewPiece
    <3>6. arena' = [arena EXCEPT ![my.base] = OneLess([large |-> FALSE, cnt |-> blocks_per_arena])]
      BY <1>4, <3>3 DEF OneLess
    <3> QED BY <1>1, <1>4, <2>1, <3>4, <3>5, <3>6 DEF FinishArena
  <2>2. CASE free # <<>>
    <3>1. b = Head(free) /\ free' = Tail(free) /\ a = arena[b[1]]
      BY <1>4, <2>2
    <3> HIDE DEF list, b, a
    <3>2. mem' = mem \cup {NewPiece("small", Head(free)[1], Head(free)[2])}
      BY <1>4, <3>1 DEF Got, NewPiece
    <3>3. arena' = [arena EXCEPT ![b[1]] = OneLess(a)]
      BY <1>4 DEF OneLess
    <3>4. arena' = [arena EXCEPT ![Head(free)[1]] = OneLess(arena[Head(free)[1]])]
      BY <3>1, <3>3
    <3> QED BY <1>1, <1>4, <2>2, <3>1, <3>2, <3>4 DEF FinishBlock
  <2> QED BY <2>1, <2>2
<1> QED BY <1>2, <1>3, <1>4 DEF finish

LEMMA finishLemma ==
    ASSUME BaseInv, finish
    PROVE  /\ BaseInv'
           /\ my.pc = "got" /\ my.base \in VPage /\ my.n \in Nat /\ my.n >= 1
           /\ my.call = "sys_malloc small" => my.n = 1
           /\ FinishPages \/ FinishLarge \/ FinishArena \/ FinishBlock
           /\ local'[cur].pc \in {"out", "unlock"}
           /\ local'[cur].pc # "out" => local'[cur].call = my.call
           /\ \A t \in Thread \ {cur} : local'[t] = local[t]
           /\ UNCHANGED <<vbits, pbits, pte, lock, torn, cur>>
<1> DEFINE label == IF my.call = "get_kernel_pages" THEN "out" ELSE "unlock"
<1>1. /\ my.pc = "got"
      /\ FinishPages \/ FinishLarge \/ FinishArena \/ FinishBlock
      /\ Goto(label) /\ UNCHANGED <<vbits, pbits, pte, lock, torn, cur>>
  BY finishCases
<1>2. PICK c : c = cur
  OBVIOUS
<1>3. BaseType /\ c \in Thread /\ CallOK(c) /\ my = local[c] /\ my \in Local
  BY <1>2, CurLemma DEF BaseInv, my
<1>4. /\ my.call \in Allocs /\ my.n \in Nat /\ my.n >= 1 /\ my.base \in VPage
      /\ my.call = "sys_malloc small" => my.n = 1
  BY <1>1, <1>3 DEF CallOK, Local
<1>5. label \in PC
  BY DEF PC
<1>6. /\ local' \in [Thread -> Local] /\ local'[c].pc = label
      /\ label # "out" => local'[c].call = my.call /\ local'[c].n = my.n
      /\ \A t \in Thread \ {c} : local'[t] = local[t]
  BY <1>1, <1>2, <1>3, <1>5, GotoLemma
<1>7. /\ free' \in Seq(Block) /\ arena' \in [VPage -> [large : BOOLEAN, cnt : Int]]
      /\ mem' \subseteq Piece /\ mem \subseteq mem'
      /\ \A m \in mem' : m.n >= 1 /\ (m.kind = "small" => m.n \in 1..blocks_per_arena)
  <2>0. /\ cur \in Thread /\ blocks_per_arena \in Nat /\ blocks_per_arena >= 1 /\ mem \subseteq Piece
        /\ \A m \in mem : m.n >= 1 /\ (m.kind = "small" => m.n \in 1..blocks_per_arena)
        /\ arena \in [VPage -> [large : BOOLEAN, cnt : Int]] /\ free \in Seq(Block)
    BY <1>2, <1>3, MemoryAssumption DEF BaseType
  <2>00. my.n \in Nat /\ my.n >= 1 /\ my.base \in VPage
    BY <1>4
  <2>01. PICK n : n = my.n
    OBVIOUS
  <2>02. PICK v : v = my.base
    OBVIOUS
  <2>03. n \in Nat /\ n >= 1 /\ v \in VPage
    BY <2>00, <2>01, <2>02
  <2>1. CASE FinishPages
    <3>1. PICK p : p = NewPiece("pages", v, n)
      OBVIOUS
    <3>2. p \in Piece /\ p.n = n /\ p.kind = "pages"
      BY <2>0, <2>03, <3>1, NewPieceLemma
    <3>3. mem' = mem \cup {p} /\ arena' = arena /\ free' = free
      BY <2>1, <2>01, <2>02, <3>1 DEF FinishPages
    <3> QED BY <2>0, <2>03, <3>2, <3>3
  <2>2. CASE FinishLarge
    <3>1. PICK p : p = NewPiece("large", v, n)
      OBVIOUS
    <3>2. p \in Piece /\ p.n = n /\ p.kind = "large"
      BY <2>0, <2>03, <3>1, NewPieceLemma
    <3>3. /\ mem' = mem \cup {p} /\ free' = free
          /\ arena' = [arena EXCEPT ![v] = [large |-> TRUE, cnt |-> n]]
      BY <2>2, <2>01, <2>02, <3>1 DEF FinishLarge
    <3> QED BY <2>0, <2>03, <3>2, <3>3
  <2>3. CASE FinishArena
    <3>1. PICK p : p = NewPiece("small", v, 1)
      OBVIOUS
    <3>2. p \in Piece /\ p.n = 1 /\ p.kind = "small"
      BY <2>0, <2>03, <3>1, NewPieceLemma
    <3>3. /\ mem' = mem \cup {p} /\ free' = Tail(ArenaBlocks(v))
          /\ arena' = [arena EXCEPT ![v] = OneLess([large |-> FALSE, cnt |-> blocks_per_arena])]
      BY <2>3, <2>02, <3>1 DEF FinishArena
    <3>4. Tail(ArenaBlocks(v)) \in Seq(Block)
      <4>1. ArenaBlocks(v) \in Seq(Block) /\ ArenaBlocks(v) # <<>>
        BY <2>03, ArenaBlocksLemma
      <4> QED BY <4>1
    <3>5. [large |-> FALSE, cnt |-> blocks_per_arena] \in [large : BOOLEAN, cnt : Int]
      BY <2>0
    <3>6. OneLess([large |-> FALSE, cnt |-> blocks_per_arena]) \in [large : BOOLEAN, cnt : Int]
      BY <3>5, OneLessLemma
    <3> QED BY <2>0, <2>03, <3>2, <3>3, <3>4, <3>6
  <2>4. CASE FinishBlock
    <3>1. free # <<>> /\ Tail(free) \in Seq(Block) /\ Head(free) \in Block
      <4>1. free # <<>> /\ free \in Seq(Block)
        BY <2>0, <2>4 DEF FinishBlock
      <4> QED BY <4>1
    <3>2. PICK b : b = Head(free)
      OBVIOUS
    <3>3. b[1] \in VPage /\ b[2] \in 1..blocks_per_arena /\ b[2] \in Nat
      BY <2>0, <3>1, <3>2 DEF Block
    <3>4. PICK p : p = NewPiece("small", b[1], b[2])
      OBVIOUS
    <3>5. p \in Piece /\ p.n = b[2] /\ p.kind = "small"
      BY <2>0, <3>3, <3>4, NewPieceLemma
    <3>6. /\ mem' = mem \cup {p} /\ free' = Tail(free)
          /\ arena' = [arena EXCEPT ![b[1]] = OneLess(arena[b[1]])]
      BY <2>4, <3>2, <3>4 DEF FinishBlock
    <3>7. arena' \in [VPage -> [large : BOOLEAN, cnt : Int]]
      <4>1. arena[b[1]] \in [large : BOOLEAN, cnt : Int]
        BY <2>0, <3>3
      <4>2. OneLess(arena[b[1]]) \in [large : BOOLEAN, cnt : Int]
        BY <4>1, OneLessLemma
      <4> QED BY <2>0, <3>3, <3>6, <4>2
    <3> QED BY <2>0, <3>1, <3>3, <3>5, <3>6, <3>7
  <2> QED BY <1>1, <2>1, <2>2, <2>3, <2>4
<1>8. BaseType'
  BY <1>1, <1>3, <1>6, <1>7 DEF BaseType
<1>9. CallOK(c)'
  BY <1>4, <1>6 DEF CallOK, Allocs, Locked
<1>10. Holds(c)' <=> Holds(c)
  BY <1>1, <1>3, <1>4, <1>6 DEF Holds, InHeap, HeapPC, PC, Allocs, Locked
<1>11. BaseInv'
  BY <1>1, <1>2, <1>6, <1>7, <1>8, <1>9, <1>10, HeapStep
<1> QED BY <1>1, <1>2, <1>4, <1>6, <1>11

\* One more free block in the arena v.
LEMMA OneMoreLemma ==
    ASSUME NEW f \in [VPage -> [large : BOOLEAN, cnt : Int]], NEW v \in VPage,
           NEW g, g = [f EXCEPT ![v].cnt = @ + 1]
    PROVE  /\ g \in [VPage -> [large : BOOLEAN, cnt : Int]]
           /\ g[v].large = f[v].large /\ g[v].cnt = f[v].cnt + 1
           /\ \A q \in VPage \ {v} : g[q] = f[q]
<1>1. f[v] \in [large : BOOLEAN, cnt : Int] /\ f[v].cnt + 1 \in Int
  OBVIOUS
<1> DEFINE k == f[v].cnt + 1
           a == [f[v] EXCEPT !.cnt = k]
<1>2. g = [f EXCEPT ![v] = a]
  OBVIOUS
<1> HIDE DEF k
<1>3. a \in [large : BOOLEAN, cnt : Int] /\ a.large = f[v].large /\ a.cnt = k
  BY <1>1 DEF k
<1> HIDE DEF a
<1>4. /\ g \in [VPage -> [large : BOOLEAN, cnt : Int]] /\ g[v] = a
      /\ \A q \in VPage \ {v} : g[q] = f[q]
  BY <1>2, <1>3
<1> QED BY <1>3, <1>4 DEF k

\* What release does with the piece m in each of its cases.
ReleasePages(m) ==
    /\ m.kind # "small"
    /\ PagesFreed(m.page, m.n)
    /\ arena' = [arena EXCEPT ![m.page] = NoArena]
    /\ free' = free

ReleaseLast(m) ==
    /\ m.kind = "small"
    /\ arena[m.page].cnt + 1 = blocks_per_arena
    /\ free' = ArenaUnlinked(Append(free, <<m.page, m.n>>), m.page)
    /\ arena' = [arena EXCEPT ![m.page] = NoArena]
    /\ PagesFreed(m.page, 1)

ReleaseBlock(m) ==
    /\ m.kind = "small"
    /\ free' = Append(free, <<m.page, m.n>>)
    /\ arena' = [arena EXCEPT ![m.page].cnt = @ + 1]
    /\ UNCHANGED <<vbits, pbits, pte>>

LEMMA releaseCases ==
    ASSUME BaseInv, release
    PROVE  /\ my.pc = "free"
           /\ \E m \in mem : /\ m.by = cur
                             /\ m.kind = "pages" <=> my.call = "mfree_page"
                             /\ mem' = mem \ {m}
                             /\ ReleasePages(m) \/ ReleaseLast(m) \/ ReleaseBlock(m)
           /\ Goto(IF my.call = "sys_free" THEN "unlock" ELSE "out")
           /\ UNCHANGED <<lock, torn, cur>>
<1> DEFINE v == my.base
           n == my.n
           m == CHOOSE x \in mem : /\ x.by = cur /\ x.page = v /\ x.n = n
                                   /\ x.kind = "pages" <=> my.call = "mfree_page"
<1>1. /\ my.pc = "free" /\ mem' = mem \ {m}
      /\ Goto(IF my.call = "sys_free" THEN "unlock" ELSE "out")
      /\ UNCHANGED <<lock, torn, cur>>
  BY DEF release
<1>2. \/ /\ m.kind # "small" /\ PagesFreed(v, n)
         /\ arena' = [arena EXCEPT ![v] = NoArena] /\ UNCHANGED free
      \/ /\ m.kind = "small" /\ arena[v].cnt + 1 = blocks_per_arena
         /\ free' = ArenaUnlinked(Append(free, <<v, n>>), v)
         /\ arena' = [arena EXCEPT ![v] = NoArena] /\ PagesFreed(v, 1)
      \/ /\ m.kind = "small"
         /\ free' = Append(free, <<v, n>>)
         /\ arena' = [arena EXCEPT ![v].cnt = @ + 1] /\ UNCHANGED <<vbits, pbits, pte>>
  BY DEF release
<1>3. Owned(cur, v, n, my.call)
  BY <1>1, CurLemma DEF BaseInv, CallOK, my
<1>4. m \in mem /\ m.by = cur /\ m.page = v /\ m.n = n /\ (m.kind = "pages" <=> my.call = "mfree_page")
  <2> DEFINE Given(x) == /\ x.by = cur /\ x.page = v /\ x.n = n
                         /\ x.kind = "pages" <=> my.call = "mfree_page"
  <2>1. \E x \in mem : Given(x)
    BY <1>3 DEF Owned
  <2>2. m = CHOOSE x \in mem : Given(x)
    OBVIOUS
  <2> HIDE DEF Given, m
  <2>3. m \in mem /\ Given(m)
    BY <2>1, <2>2
  <2> QED BY <2>3 DEF Given
<1> HIDE DEF m, v, n
<1>5. ReleasePages(m) \/ ReleaseLast(m) \/ ReleaseBlock(m)
  <2>1. m.page = v /\ m.n = n
    BY <1>4
  <2> QED BY <1>2, <2>1 DEF ReleasePages, ReleaseLast, ReleaseBlock
<1> QED BY <1>1, <1>4, <1>5

LEMMA releaseLemma ==
    ASSUME BaseInv, release
    PROVE  /\ BaseInv'
           /\ my.pc = "free"
           /\ \E m \in mem : /\ m.by = cur
                             /\ m.kind = "pages" <=> my.call = "mfree_page"
                             /\ mem' = mem \ {m}
                             /\ ReleasePages(m) \/ ReleaseLast(m) \/ ReleaseBlock(m)
           /\ local'[cur].pc \in {"out", "unlock"}
           /\ local'[cur].pc # "out" => local'[cur].call = my.call
           /\ \A t \in Thread \ {cur} : local'[t] = local[t]
           /\ UNCHANGED <<lock, torn, cur>>
<1> DEFINE label == IF my.call = "sys_free" THEN "unlock" ELSE "out"
<1>1. /\ my.pc = "free" /\ Goto(label) /\ UNCHANGED <<lock, torn, cur>>
  BY releaseCases
<1>2. PICK m \in mem : /\ m.by = cur
                       /\ m.kind = "pages" <=> my.call = "mfree_page"
                       /\ mem' = mem \ {m}
                       /\ ReleasePages(m) \/ ReleaseLast(m) \/ ReleaseBlock(m)
  BY releaseCases
<1>3. PICK c : c = cur
  OBVIOUS
<1>4. BaseType /\ c \in Thread /\ CallOK(c) /\ my = local[c] /\ my \in Local
  BY <1>3, CurLemma DEF BaseInv, my
<1>5. my.call \in Frees /\ label \in PC
  BY <1>1, <1>4 DEF CallOK, PC
<1>6. /\ local' \in [Thread -> Local] /\ local'[c].pc = label
      /\ label # "out" => local'[c].call = my.call /\ local'[c].n = my.n
      /\ \A t \in Thread \ {c} : local'[t] = local[t]
  BY <1>1, <1>3, <1>4, <1>5, GotoLemma
<1>7. /\ vbits' \subseteq VPage /\ pbits' \subseteq PPage
      /\ pte' \in [VPage -> PPage \cup {-1}]
      /\ arena' \in [VPage -> [large : BOOLEAN, cnt : Int]]
      /\ free' \in Seq(Block)
  <2>0. /\ vbits \subseteq VPage /\ pbits \subseteq PPage
        /\ pte \in [VPage -> PPage \cup {-1}]
        /\ arena \in [VPage -> [large : BOOLEAN, cnt : Int]]
        /\ free \in Seq(Block)
    BY <1>4 DEF BaseType
  <2>1. m \in Piece /\ m.page \in VPage
    BY <1>4 DEF BaseType, Piece
  <2>2. m.kind = "small" => <<m.page, m.n>> \in Block
    BY <1>4, <2>1 DEF BaseType, Block
  <2>3. NoArena \in [large : BOOLEAN, cnt : Int]
    BY DEF NoArena
  <2>4. \A n : PagesFreed(m.page, n) => /\ vbits' \subseteq VPage /\ pbits' \subseteq PPage
                                        /\ pte' \in [VPage -> PPage \cup {-1}]
    BY <2>0 DEF PagesFreed, PteRemoved
  <2>5. CASE ReleasePages(m)
    BY <2>0, <2>1, <2>3, <2>4, <2>5 DEF ReleasePages
  <2>6. CASE ReleaseLast(m)
    <3>1. Append(free, <<m.page, m.n>>) \in Seq(Block)
      <4>1. <<m.page, m.n>> \in Block
        BY <2>2, <2>6 DEF ReleaseLast
      <4> QED BY <2>0, <4>1
    <3>2. free' \in Seq(Block)
      BY <2>6, <3>1, ArenaUnlinkedLemma DEF ReleaseLast
    <3> QED BY <2>0, <2>1, <2>3, <2>4, <2>6, <3>2 DEF ReleaseLast
  <2>7. CASE ReleaseBlock(m)
    <3>1. free' \in Seq(Block)
      <4>1. <<m.page, m.n>> \in Block /\ free' = Append(free, <<m.page, m.n>>)
        BY <2>2, <2>7 DEF ReleaseBlock
      <4> QED BY <2>0, <4>1
    <3>2. arena' \in [VPage -> [large : BOOLEAN, cnt : Int]]
      BY <2>0, <2>1, <2>7 DEF ReleaseBlock
    <3> QED BY <2>0, <2>7, <3>1, <3>2 DEF ReleaseBlock
  <2> QED BY <1>2, <2>5, <2>6, <2>7
<1>8. BaseType'
  BY <1>1, <1>2, <1>4, <1>6, <1>7 DEF BaseType
<1>9. CallOK(c)'
  <2>1. my.n >= 1 /\ my.call # "sys_malloc small" /\ (label = "unlock" => my.call \in Locked)
    BY <1>1, <1>4, <1>5 DEF CallOK, Frees, Locked
  <2> QED BY <1>6, <2>1 DEF CallOK
<1>10. Holds(c)' <=> Holds(c)
  BY <1>1, <1>4, <1>5, <1>6 DEF Holds, InHeap, HeapPC, PC, Frees, Locked
<1>11. BaseInv'
  BY <1>1, <1>2, <1>3, <1>6, <1>8, <1>9, <1>10, HeapStep
<1> QED BY <1>1, <1>2, <1>3, <1>6, <1>11
----------------------------------------------------------------------------
(* The lock is given back.                                                  *)

LEMMA BaseNextLemma == BaseInv /\ [MemNext]_memVars => BaseInv'
<1> SUFFICES ASSUME BaseInv, [MemNext]_memVars PROVE BaseInv'
  OBVIOUS
<1>1. CASE UNCHANGED memVars
  <2>1. UNCHANGED <<vbits, pbits, pte, arena, free, mem, lock, torn, cur, local>>
    BY <1>1 DEF memVars, heapVars
  <2>2. BaseType'
    BY <2>1 DEF BaseInv, BaseType
  <2>3. \A t \in Thread : CallOK(t)'
    BY <2>1 DEF BaseInv, CallOK, Owned
  <2>4. LockHeld'
    BY <2>1 DEF BaseInv, LockHeld, Holds, InHeap
  <2> QED BY <2>1, <2>2, <2>3, <2>4 DEF BaseInv
<1>2. CASE MemNext
  BY <1>2, CallsLemma, lock_acquireLemma, lock_releaseLemma, vaddr_get_scanLemma,
     vaddr_get_setLemma, palloc_scanLemma, page_table_addLemma, finishLemma, releaseLemma,
     SwitchLemma DEF MemNext
<1> QED BY <1>1, <1>2

\* Nobody leaves sys_malloc_kernel or sys_free_kernel (memory.c) with
\* kernel_pool.lock in hand, on any path, whichever threads run at once.
THEOREM LockGivenBackTheorem == MemSpec => []LockGivenBack
<1>1. BaseInv => LockGivenBack
  BY DEF BaseInv, LockHeld, Holds, InHeap, HeapPC, LockGivenBack
<1> QED BY <1>1, BaseInitLemma, BaseNextLemma, PTL DEF MemSpec
----------------------------------------------------------------------------
(* Who may be in the heap at a time.                                        *)

\* Beside the running thread c, in the heap with the lock, nobody is in it;
\* without the lock, only calls that hold it.
LEMMA Alone ==
    ASSUME BaseInv, ExclusionInv, NEW c \in Thread, c = cur, InHeap(c), NEW t \in Thread, t # c, InHeap(t)
    PROVE  local[c].call \notin Locked /\ local[t].call \in Locked
<1>1. t \in Preemptible
  BY DEF ExclusionInv
<1>2. local[t].call \in Locked
  BY <1>1 DEF ExclusionInv
<1>3. lock = t
  BY <1>2 DEF BaseInv, LockHeld, Holds
<1>4. lock # c
  BY <1>3
<1> QED BY <1>2, <1>4 DEF BaseInv, LockHeld, Holds

\* A step of the running thread c that goes on with its call, or takes one up
\* that it may.
LEMMA ExclusionStep ==
    ASSUME BaseInv, ExclusionInv, NEW c, c = cur, cur' = cur,
           \A t \in Thread \ {c} : local'[t] = local[t],
           InHeap(c)' /\ local'[c].call \notin Locked => c \notin Preemptible,
           \A m \in mem' : m.kind = "pages" => m \in mem \/ (m.by = c /\ c \notin Preemptible)
    PROVE  ExclusionInv'
<1>1. c \in Thread
  BY CurLemma DEF BaseInv
<1>2. \A t \in Thread \ {c} : InHeap(t)' <=> InHeap(t)
  BY DEF InHeap
<1>3. \A t \in Thread : InHeap(t)' /\ local'[t].call \notin Locked => t \notin Preemptible
  BY <1>2 DEF ExclusionInv
<1>4. \A m \in mem' : m.kind = "pages" => m.by \notin Preemptible
  BY DEF ExclusionInv
<1>5. \A t \in Thread : InHeap(t)' /\ t \notin Preemptible => t = cur'
  BY <1>2 DEF ExclusionInv
<1> QED BY <1>3, <1>4, <1>5 DEF ExclusionInv

\* The same for a step in the heap.
LEMMA ExclusionHeapStep ==
    ASSUME BaseInv, ExclusionInv, InHeap(cur), cur' = cur,
           \A t \in Thread \ {cur} : local'[t] = local[t],
           local'[cur].pc # "out" => local'[cur].call = my.call,
           \A m \in mem' : m.kind = "pages" => m \in mem \/ (m.by = cur /\ my.call \notin Locked)
    PROVE  ExclusionInv'
<1>1. PICK c : c = cur
  OBVIOUS
<1>2. c \in Thread /\ InHeap(c) /\ my = local[c]
  BY <1>1, CurLemma DEF BaseInv, my
<1>3. my.call \notin Locked => c \notin Preemptible
  BY <1>2 DEF ExclusionInv
<1>4. InHeap(c)' /\ local'[c].call \notin Locked => c \notin Preemptible
  <2>1. InHeap(c)' => local'[c].pc # "out"
    BY DEF InHeap, HeapPC
  <2> QED BY <1>1, <1>3, <2>1
<1>5. \A m \in mem' : m.kind = "pages" => m \in mem \/ (m.by = c /\ c \notin Preemptible)
  BY <1>1, <1>3
<1> QED BY <1>1, <1>4, <1>5, ExclusionStep

LEMMA ExclusionInitLemma == MemInit => ExclusionInv
<1> QED BY OutsideFields DEF MemInit, ExclusionInv, InHeap, HeapPC

LEMMA ExclusionNextLemma ==
    ASSUME BaseInv, ExclusionInv, [MemNext]_memVars
    PROVE  ExclusionInv'
<1>0. cur \in Thread /\ CallOK(cur) /\ my = local[cur]
  BY CurLemma DEF BaseInv, my
<1>1. CASE UNCHANGED memVars
  BY <1>1 DEF memVars, heapVars, ExclusionInv, InHeap
<1>2. CASE sys_malloc_kernel \/ get_kernel_pages \/ sys_free_kernel \/ mfree_page
  <2>1. /\ local'[cur].pc \in {"lock", "vscan", "free"}
        /\ local'[cur].pc \in {"vscan", "free"} =>
              cur \notin Preemptible \/ \E m \in mem : m.by = cur /\ m.kind = "pages"
        /\ \A t \in Thread \ {cur} : local'[t] = local[t]
        /\ mem' = mem /\ cur' = cur
    BY <1>2, CallsLemma DEF heapVars
  <2>2. PICK c : c = cur
    OBVIOUS
  <2>3. local'[c].pc \in {"vscan", "free"} => c \notin Preemptible
    BY <2>1, <2>2 DEF ExclusionInv
  <2>4. InHeap(c)' => c \notin Preemptible
    BY <2>1, <2>2, <2>3 DEF InHeap, HeapPC
  <2> QED BY <2>1, <2>2, <2>4, ExclusionStep
<1>3. CASE lock_acquire
  <2>1. /\ my.pc = "lock" /\ local'[cur].call = my.call
        /\ \A t \in Thread \ {cur} : local'[t] = local[t]
        /\ mem' = mem /\ cur' = cur
    BY <1>3, lock_acquireLemma DEF heapVars
  <2>2. my.call \in Locked
    BY <1>0, <2>1 DEF CallOK
  <2>3. PICK c : c = cur
    OBVIOUS
  <2>4. local'[c].call \in Locked
    BY <2>1, <2>2, <2>3
  <2> QED BY <2>1, <2>3, <2>4, ExclusionStep
<1>4. CASE Switch
  <2>1. /\ cur \in Preemptible \/ my.pc \in {"out", "lock"}
        /\ UNCHANGED <<mem, local>>
    BY <1>4, SwitchLemma DEF heapVars
  <2>2. \A t \in Thread : InHeap(t)' <=> InHeap(t)
    BY <2>1 DEF InHeap
  <2>3. cur \in Preemptible \/ ~ InHeap(cur)
    BY <1>0, <2>1 DEF InHeap, HeapPC
  <2>4. \A t \in Thread : InHeap(t) => t \in Preemptible
    BY <2>3 DEF ExclusionInv
  <2> QED BY <2>1, <2>2, <2>4 DEF ExclusionInv
<1>5. CASE lock_release
  <2>1. my.pc = "unlock" /\ local'[cur].pc = "out" /\ mem' = mem /\ cur' = cur
        /\ \A t \in Thread \ {cur} : local'[t] = local[t]
    BY <1>5, lock_releaseLemma DEF heapVars
  <2>2. InHeap(cur)
    BY <1>0, <2>1 DEF InHeap, HeapPC, PC
  <2> QED BY <2>1, <2>2, ExclusionHeapStep
<1>6. CASE vaddr_get_scan
  <2>1. /\ my.pc = "vscan" /\ mem' = mem /\ cur' = cur
        /\ local'[cur].pc # "out" => local'[cur].call = my.call
        /\ \A t \in Thread \ {cur} : local'[t] = local[t]
    BY <1>6, vaddr_get_scanLemma DEF heapVars
  <2>2. InHeap(cur)
    BY <1>0, <2>1 DEF InHeap, HeapPC, PC
  <2> QED BY <2>1, <2>2, ExclusionHeapStep
<1>7. CASE vaddr_get_set
  <2>1. /\ my.pc = "vset" /\ mem' = mem /\ cur' = cur
        /\ local'[cur].call = my.call
        /\ \A t \in Thread \ {cur} : local'[t] = local[t]
    BY <1>7, vaddr_get_setLemma
  <2>2. InHeap(cur)
    BY <1>0, <2>1 DEF InHeap, HeapPC, PC
  <2> QED BY <2>1, <2>2, ExclusionHeapStep
<1>8. CASE palloc_scan
  <2>1. /\ my.pc = "pscan" /\ mem' = mem /\ cur' = cur
        /\ local'[cur].pc # "out" => local'[cur].call = my.call
        /\ \A t \in Thread \ {cur} : local'[t] = local[t]
    BY <1>8, palloc_scanLemma DEF heapVars
  <2>2. InHeap(cur)
    BY <1>0, <2>1 DEF InHeap, HeapPC, PC
  <2> QED BY <2>1, <2>2, ExclusionHeapStep
<1>9. CASE page_table_add
  <2>1. /\ my.pc = "padd" /\ mem' = mem /\ cur' = cur
        /\ local'[cur].call = my.call
        /\ \A t \in Thread \ {cur} : local'[t] = local[t]
    BY <1>9, page_table_addLemma
  <2>2. InHeap(cur)
    BY <1>0, <2>1 DEF InHeap, HeapPC, PC
  <2> QED BY <2>1, <2>2, ExclusionHeapStep
<1>10. CASE finish
  <2>1. /\ my.pc = "got" /\ cur' = cur
        /\ my.base \in VPage /\ my.n \in Nat
        /\ local'[cur].pc # "out" => local'[cur].call = my.call
        /\ FinishPages \/ FinishLarge \/ FinishArena \/ FinishBlock
        /\ \A t \in Thread \ {cur} : local'[t] = local[t]
    BY <1>10, finishLemma
  <2>2. InHeap(cur)
    BY <1>0, <2>1 DEF InHeap, HeapPC, PC
  <2>3. \A m \in mem' : m.kind = "pages" => m \in mem \/ (m.by = cur /\ my.call \notin Locked)
    <3>0. \A kind, page, n : NewPiece(kind, page, n).kind = kind /\ NewPiece(kind, page, n).by = cur
      BY DEF NewPiece
    <3>1. CASE FinishPages
      BY <3>0, <3>1 DEF FinishPages, Locked
    <3>2. CASE FinishLarge
      <4>1. mem' = mem \cup {NewPiece("large", my.base, my.n)}
        BY <3>2 DEF FinishLarge
      <4> QED BY <3>0, <4>1
    <3>3. CASE FinishArena
      <4>1. mem' = mem \cup {NewPiece("small", my.base, 1)}
        BY <3>3 DEF FinishArena
      <4> QED BY <3>0, <4>1
    <3>4. CASE FinishBlock
      <4>1. mem' = mem \cup {NewPiece("small", Head(free)[1], Head(free)[2])}
        BY <3>4 DEF FinishBlock
      <4> QED BY <3>0, <4>1
    <3> QED BY <2>1, <3>1, <3>2, <3>3, <3>4
  <2> QED BY <2>1, <2>2, <2>3, ExclusionHeapStep
<1>11. CASE release
  <2>1. /\ my.pc = "free" /\ cur' = cur /\ mem' \subseteq mem
        /\ local'[cur].pc # "out" => local'[cur].call = my.call
        /\ \A t \in Thread \ {cur} : local'[t] = local[t]
    BY <1>11, releaseLemma
  <2>2. InHeap(cur)
    BY <1>0, <2>1 DEF InHeap, HeapPC, PC
  <2> QED BY <2>1, <2>2, ExclusionHeapStep
<1> QED BY <1>1, <1>2, <1>3, <1>4, <1>5, <1>6, <1>7, <1>8, <1>9, <1>10, <1>11 DEF MemNext
----------------------------------------------------------------------------
(* The heap.                                                                *)

\* A step that leaves the heap alone.
LEMMA HeapSame ==
    ASSUME HeapInv, NEW c \in Thread, UNCHANGED heapVars,
           \A t \in Thread \ {c} : local'[t] = local[t], Progress(c)',
           Claims(c)' => Claims(c) /\ Wanted(local[c])' = Wanted(local[c])
    PROVE  HeapInv'
<1>1. UNCHANGED <<vbits, pbits, pte, arena, free, mem>>
  BY DEF heapVars
<1>2. FreeBlocks' = FreeBlocks /\ (\A q : Numbers(q)' = Numbers(q)) /\ (\A q : Unused(q)' <=> Unused(q))
  BY <1>1 DEF FreeBlocks, Numbers, Unused, Elems
<1>3. TablesInv' /\ PiecesInv'
  BY <1>1 DEF HeapInv, TablesInv, PiecesInv
<1>4. BlocksInv'
  BY <1>1, <1>2 DEF HeapInv, BlocksInv
<1>5. ASSUME NEW t \in Thread \ {c} PROVE Progress(t)'
  <2>1. Progress(t) /\ local'[t] = local[t]
    BY DEF HeapInv
  <2> QED BY <1>1, <1>2, <2>1 DEF Progress, Direct
<1>6. ClaimsInv'
  <2>1. ASSUME NEW t \in Thread, Claims(t)' PROVE Claims(t) /\ Wanted(local[t])' = Wanted(local[t])
    <3>1. CASE t = c
      BY <2>1, <3>1
    <3>2. CASE t # c
      BY <1>1, <2>1, <3>2 DEF Claims, Direct
    <3> QED BY <3>1, <3>2
  <2> QED BY <2>1 DEF HeapInv, ClaimsInv
<1> QED BY <1>3, <1>4, <1>5, <1>6 DEF HeapInv

\* A step of the running thread that changes it: whoever it has interrupted in
\* the heap is there with the lock, and is not disturbed.
LEMMA HeapChange ==
    ASSUME BaseInv, ExclusionInv, NEW c \in Thread, c = cur, InHeap(c),
           \A t \in Thread \ {c} : local'[t] = local[t],
           TablesInv', PiecesInv', BlocksInv', Progress(c)',
           \A t \in Thread \ {c} : InHeap(t) /\ local[c].call \notin Locked => Undisturbed(c, t)
    PROVE  HeapInv'
<1>1. ASSUME NEW t \in Thread \ {c} PROVE Progress(t)'
  <2>1. CASE InHeap(t)
    <3>1. local[c].call \notin Locked
      BY <2>1, Alone
    <3> QED BY <2>1, <3>1 DEF Undisturbed
  <2>2. CASE ~ InHeap(t)
    <3>1. local[t] \in Local
      BY DEF BaseInv, BaseType
    <3>2. local'[t].pc \in {"out", "lock"}
      BY <2>2, <3>1 DEF InHeap, HeapPC, Local, PC
    <3> QED BY <3>2 DEF Progress
  <2> QED BY <2>1, <2>2
<1>2. ASSUME NEW t \in Thread \ {c}, Claims(t)'
      PROVE  InHeap(t) /\ local[c].call \notin Locked /\ local[t].call \in Locked /\ lock = t
  <2>1. InHeap(t)
    <3>1. local[t].pc \in {"pscan", "padd", "got"}
      BY <1>2 DEF Claims
    <3> QED BY <3>1 DEF InHeap, HeapPC, PC
  <2>2. local[c].call \notin Locked /\ local[t].call \in Locked
    BY <2>1, Alone
  <2> QED BY <2>1, <2>2 DEF BaseInv, LockHeld, Holds
<1>3. ASSUME NEW t \in Thread \ {c}, Claims(t)', Claims(c)'
      PROVE  Wanted(local[t])' \cap Wanted(local[c])' = {}
  <2>1. InHeap(t) /\ local[c].call \notin Locked
    BY <1>2, <1>3
  <2> QED BY <1>3, <2>1 DEF Undisturbed
<1>4. ClaimsInv'
  <2> SUFFICES ASSUME NEW t \in Thread, NEW u \in Thread, t # u, Claims(t)', Claims(u)'
               PROVE  Wanted(local[t])' \cap Wanted(local[u])' = {}
    BY DEF ClaimsInv
  <2>1. CASE t = c
    BY <1>3, <2>1
  <2>2. CASE u = c
    BY <1>3, <2>2
  <2>3. CASE t # c /\ u # c
    <3>1. lock = t /\ lock = u
      BY <1>2, <2>3
    <3> QED BY <3>1
  <2> QED BY <2>1, <2>2, <2>3
<1> QED BY <1>1, <1>4 DEF HeapInv

\* At these points a call relies on nothing.
LEMMA ProgressIdle ==
    ASSUME NEW t, local[t].pc \in {"out", "lock", "vscan", "free", "unlock"}
    PROVE  Progress(t)
<1> QED BY DEF Progress

LEMMA HeapInitLemma == MemInit => HeapInv
<1> SUFFICES ASSUME MemInit PROVE HeapInv
  OBVIOUS
<1>1. FreeBlocks = {} /\ \A q : Numbers(q) = {}
  BY DEF MemInit, FreeBlocks, Elems, Numbers
<1>2. TablesInv /\ PiecesInv
  BY DEF MemInit, TablesInv, PiecesInv
<1>3. BlocksInv
  <2>1. Once(free)
    BY DEF MemInit, Once
  <2>2. \A q \in VPage : arena[q].cnt = 0
    BY DEF MemInit, NoArena
  <2> QED BY <1>1, <2>1, <2>2, FS_EmptySet DEF BlocksInv
<1>4. (\A t \in Thread : Progress(t)) /\ ClaimsInv
  BY OutsideFields DEF MemInit, Progress, ClaimsInv, Claims
<1> QED BY <1>2, <1>3, <1>4 DEF HeapInv

LEMMA CallsHeap ==
    ASSUME BaseInv, HeapInv, sys_malloc_kernel \/ get_kernel_pages \/ sys_free_kernel \/ mfree_page
    PROVE  HeapInv'
<1>1. /\ local'[cur].pc \in {"lock", "vscan", "free"} /\ UNCHANGED heapVars
      /\ \A t \in Thread \ {cur} : local'[t] = local[t]
  BY CallsLemma
<1>2. PICK c : c = cur
  OBVIOUS
<1>3. c \in Thread
  BY <1>2, CurLemma DEF BaseInv
<1>4. Progress(c)'
  BY <1>1, <1>2, ProgressIdle DEF Progress
<1>5. ~ Claims(c)'
  BY <1>1, <1>2 DEF Claims
<1> QED BY <1>1, <1>2, <1>3, <1>4, <1>5, HeapSame

LEMMA lock_acquireHeap ==
    ASSUME BaseInv, HeapInv, lock_acquire
    PROVE  HeapInv'
<1>1. /\ local'[cur].pc \in {"free", "got", "vscan"} /\ UNCHANGED heapVars
      /\ local'[cur].pc = "got" => local'[cur].call = "sys_malloc small" /\ free # <<>>
      /\ \A t \in Thread \ {cur} : local'[t] = local[t]
  BY lock_acquireLemma
<1>2. PICK c : c = cur
  OBVIOUS
<1>3. c \in Thread
  BY <1>2, CurLemma DEF BaseInv
<1>4. Progress(c)'
  BY <1>1, <1>2 DEF Progress, Direct, heapVars
<1>5. ~ Claims(c)'
  BY <1>1, <1>2 DEF Claims, Direct, heapVars
<1> QED BY <1>1, <1>2, <1>3, <1>4, <1>5, HeapSame

LEMMA lock_releaseHeap ==
    ASSUME BaseInv, HeapInv, lock_release
    PROVE  HeapInv'
<1>1. local'[cur].pc = "out" /\ UNCHANGED heapVars /\ \A t \in Thread \ {cur} : local'[t] = local[t]
  BY lock_releaseLemma
<1>2. PICK c : c = cur
  OBVIOUS
<1>3. c \in Thread
  BY <1>2, CurLemma DEF BaseInv
<1>4. Progress(c)'
  BY <1>1, <1>2 DEF Progress
<1>5. ~ Claims(c)'
  BY <1>1, <1>2 DEF Claims
<1> QED BY <1>1, <1>2, <1>3, <1>4, <1>5, HeapSame

LEMMA vaddr_get_scanHeap ==
    ASSUME BaseInv, HeapInv, vaddr_get_scan
    PROVE  HeapInv'
<1>1. /\ local'[cur].pc \in {"vset", "unlock", "out"} /\ UNCHANGED heapVars
      /\ local'[cur].pc = "vset" => \A q \in Wanted(local'[cur]) : q \notin vbits
      /\ \A t \in Thread \ {cur} : local'[t] = local[t]
  BY vaddr_get_scanLemma
<1>2. PICK c : c = cur
  OBVIOUS
<1>3. c \in Thread
  BY <1>2, CurLemma DEF BaseInv
<1>4. Progress(c)'
  <2>1. local'[c].pc = "vset" => Wanted(local'[c]) \cap vbits' = {}
    BY <1>1, <1>2 DEF heapVars
  <2> QED BY <1>1, <1>2, <2>1 DEF Progress
<1>5. ~ Claims(c)'
  BY <1>1, <1>2 DEF Claims
<1> QED BY <1>1, <1>2, <1>3, <1>4, <1>5, HeapSame

\* The addresses that vaddr_get sets were nobody's: what is mapped is set.
LEMMA vaddr_get_setHeap ==
    ASSUME BaseInv, ExclusionInv, HeapInv, vaddr_get_set, ~ torn'
    PROVE  HeapInv'
<1>1. /\ my.pc = "vset" /\ local'[cur].pc = "pscan" /\ local'[cur].n = my.n
      /\ local'[cur].base = my.base /\ local'[cur].done = 0
      /\ vbits' = vbits \cup Wanted(my)
      /\ \A t \in Thread \ {cur} : local'[t] = local[t]
      /\ UNCHANGED <<pbits, pte, arena, free, mem>>
  BY vaddr_get_setLemma
<1>2. my.base \in VPage /\ my.n \in Nat /\ my.base + my.n <= VPages
  BY vaddr_get_setLemma
<1>3. PICK c : c = cur
  OBVIOUS
<1>4. c \in Thread /\ my = local[c] /\ InHeap(c)
  BY <1>1, <1>3, CurLemma DEF BaseInv, InHeap, HeapPC, PC, my
<1>5. FreeBlocks' = FreeBlocks /\ (\A q : Numbers(q)' = Numbers(q)) /\ (\A q : Unused(q)' <=> Unused(q))
  BY <1>1 DEF FreeBlocks, Numbers, Unused, Elems
<1>6. TablesInv' /\ PiecesInv'
  BY <1>1 DEF HeapInv, TablesInv, PiecesInv
<1>7. BlocksInv'
  BY <1>1, <1>5 DEF HeapInv, BlocksInv
<1>8. Progress(c)'
  <2>1. Wanted(local'[c]) = Wanted(my)
    BY <1>1, <1>3 DEF Wanted
  <2>2. Wanted(my) \cap vbits = {}
    BY <1>1, <1>4 DEF HeapInv, Progress
  <2>3. Wanted(my) \subseteq VPage
    BY <1>2, WantedInside
  <2>4. \A q \in Wanted(my) : pte[q] = -1
    BY <2>2, <2>3 DEF HeapInv, TablesInv
  <2>5. \A q \in Wanted(my) : Unused(q)
    BY <2>3, <2>4 DEF HeapInv, PiecesInv, BlocksInv, Unused
  <2>6. \A q \in Wanted(my) : ~ (q < my.base + 0)
    <3>1. my.base \in Int /\ my.n \in Int
      BY <1>2, MemoryAssumption DEF VPage
    <3> QED BY <3>1 DEF Wanted
  <2> QED BY <1>1, <1>2, <1>3, <1>5, <2>1, <2>4, <2>5, <2>6 DEF Progress
<1>9. ASSUME NEW t \in Thread \ {c}, my.call \notin Locked PROVE Undisturbed(c, t)
  <2>1. local'[t] = local[t] /\ Progress(t)
    BY <1>1, <1>3 DEF HeapInv
  <2>2. local[t].pc = "vset" => Wanted(local[t]) \cap Wanted(my) = {}
    <3>1. ~ AddressesFound
      BY vaddr_get_setLemma
    <3> QED BY <1>3, <1>9, <3>1 DEF AddressesFound
  <2>3. Wanted(local[c])' = Wanted(my) /\ Wanted(my) \cap vbits = {}
    BY <1>1, <1>3, <1>4 DEF Wanted, HeapInv, Progress
  <2>4. Progress(t)'
    BY <1>1, <1>5, <2>1, <2>2 DEF Progress, Direct
  <2>5. Claims(t)' => Wanted(local[t])' \subseteq vbits
    BY <1>1, <2>1 DEF Claims, Direct, Progress
  <2> QED BY <2>3, <2>4, <2>5 DEF Undisturbed
<1> QED BY <1>1, <1>3, <1>4, <1>6, <1>7, <1>8, <1>9, HeapChange

LEMMA palloc_scanHeap ==
    ASSUME BaseInv, HeapInv, palloc_scan
    PROVE  HeapInv'
<1>1. /\ my.pc = "pscan" /\ local'[cur].pc \in {"padd", "unlock", "out"} /\ UNCHANGED heapVars
      /\ local'[cur].pc # "out" =>
            /\ local'[cur].call = my.call /\ local'[cur].n = my.n
            /\ local'[cur].base = my.base /\ local'[cur].done = my.done
      /\ local'[cur].pc = "padd" => local'[cur].frame \notin pbits
      /\ \A t \in Thread \ {cur} : local'[t] = local[t]
  BY palloc_scanLemma
<1>2. PICK c : c = cur
  OBVIOUS
<1>3. c \in Thread /\ my = local[c] /\ Progress(c)
  BY <1>2, CurLemma DEF BaseInv, HeapInv, my
<1>4. Progress(c)'
  <2>1. CASE local'[c].pc # "padd"
    BY <1>1, <1>2, <2>1 DEF Progress
  <2>2. CASE local'[c].pc = "padd"
    <3>1. Wanted(local'[c]) = Wanted(my) /\ UNCHANGED <<vbits, pbits, pte, free, mem>>
      BY <1>1, <1>2, <2>2 DEF Wanted, heapVars
    <3>2. \A q : Unused(q)' <=> Unused(q)
      BY <3>1 DEF Unused, FreeBlocks, Elems
    <3>3. /\ my.base + my.n <= VPages /\ Wanted(my) \subseteq vbits
          /\ \A q \in Wanted(my) : Unused(q) /\ (pte[q] # -1 <=> q < my.base + my.done)
      BY <1>1, <1>3 DEF Progress
    <3> QED BY <1>1, <1>2, <2>2, <3>1, <3>2, <3>3 DEF Progress
  <2> QED BY <2>1, <2>2
<1>5. Claims(c)' => Claims(c) /\ Wanted(local[c])' = Wanted(local[c])
  <2> SUFFICES ASSUME Claims(c)' PROVE Claims(c) /\ Wanted(local[c])' = Wanted(local[c])
    OBVIOUS
  <2>1. local'[c].pc = "padd"
    BY <1>1, <1>2 DEF Claims
  <2>2. local'[c].n = local[c].n /\ local'[c].base = local[c].base
    BY <1>1, <1>2, <1>3, <2>1
  <2> QED BY <1>1, <1>3, <2>2 DEF Claims, Wanted
<1> QED BY <1>1, <1>2, <1>3, <1>4, <1>5, HeapSame

\* The frame that page_table_add enters was in use nowhere.
LEMMA page_table_addHeap ==
    ASSUME BaseInv, ExclusionInv, HeapInv, page_table_add, ~ torn'
    PROVE  HeapInv'
<1>1. /\ my.pc = "padd" /\ local'[cur].pc = IF my.done + 1 = my.n THEN "got" ELSE "pscan"
      /\ local'[cur].n = my.n /\ local'[cur].base = my.base /\ local'[cur].done = my.done + 1
      /\ pbits' = pbits \cup {my.frame}
      /\ pte' = [pte EXCEPT ![my.base + my.done] = my.frame]
      /\ \A t \in Thread \ {cur} : local'[t] = local[t]
      /\ UNCHANGED <<vbits, arena, free, mem>>
  BY page_table_addLemma
<1>2. /\ my.base \in VPage /\ my.n \in Nat /\ my.done \in Nat /\ my.done < my.n
      /\ my.base + my.n <= VPages /\ my.frame \in PPage
  BY page_table_addLemma
<1>3. PICK c : c = cur
  OBVIOUS
<1>4. /\ c \in Thread /\ my = local[c] /\ InHeap(c) /\ Progress(c)
      /\ pte \in [VPage -> PPage \cup {-1}]
  BY <1>1, <1>3, CurLemma DEF BaseInv, BaseType, InHeap, HeapPC, PC, HeapInv, my
<1>5. PICK w : w = my.base + my.done
  OBVIOUS
<1>6. PICK f : f = my.frame
  OBVIOUS
<1>7. /\ w \in VPage /\ w \in Wanted(my) /\ f \in PPage /\ f # -1
      /\ \A q \in Wanted(my) : q \in Int /\ (q < w + 1 <=> q < w \/ q = w)
  <2>1. my.base \in Nat /\ my.n \in Nat /\ my.done \in Nat /\ VPages \in Nat /\ PPages \in Nat
    BY <1>2, MemoryAssumption DEF VPage
  <2>2. w \in 0..(VPages - 1) /\ w \in my.base..(my.base + my.n - 1) /\ w \in Int
    BY <1>2, <1>5, <2>1
  <2>3. f \in 0..(PPages - 1)
    BY <1>2, <1>6 DEF PPage
  <2>4. \A q \in my.base..(my.base + my.n - 1) : q \in Int
    BY <2>1
  <2> QED BY <2>1, <2>2, <2>3, <2>4 DEF Wanted, VPage, PPage
<1>8. /\ Wanted(my) \subseteq vbits /\ f \notin pbits
      /\ \A q \in Wanted(my) : Unused(q) /\ (pte[q] # -1 <=> q < w)
  BY <1>1, <1>4, <1>5, <1>6 DEF Progress
<1>9. pte'[w] = f /\ \A q \in VPage \ {w} : pte'[q] = pte[q]
  BY <1>1, <1>4, <1>5, <1>6, <1>7
<1>10. FreeBlocks' = FreeBlocks /\ (\A q : Numbers(q)' = Numbers(q)) /\ (\A q : Unused(q)' <=> Unused(q))
  BY <1>1 DEF FreeBlocks, Numbers, Unused, Elems
<1>11. \A q \in VPage : pte[q] # f
  BY <1>7, <1>8 DEF HeapInv, TablesInv
<1>12. TablesInv'
  <2>1. \A q \in VPage : pte'[q] # -1 => q \in vbits' /\ pte'[q] \in pbits'
    BY <1>1, <1>6, <1>7, <1>8, <1>9 DEF HeapInv, TablesInv
  <2>2. \A q, r \in VPage : pte'[q] # -1 /\ pte'[q] = pte'[r] => q = r
    BY <1>7, <1>9, <1>11 DEF HeapInv, TablesInv
  <2> QED BY <2>1, <2>2 DEF TablesInv
<1>13. \A q \in VPage : pte[q] # -1 => pte'[q] # -1
  BY <1>7, <1>9
<1>14. PiecesInv'
  BY <1>1, <1>13 DEF HeapInv, PiecesInv
<1>15. BlocksInv'
  <2>1. free \in Seq(Block)
    BY DEF BaseInv, BaseType
  <2>2. \A b \in FreeBlocks : b[1] \in VPage
    BY <2>1 DEF FreeBlocks, Elems, Block
  <2> QED BY <1>1, <1>10, <1>13, <2>2 DEF HeapInv, BlocksInv
<1>16. Progress(c)'
  <2>1. Wanted(local'[c]) = Wanted(my)
    BY <1>1, <1>3 DEF Wanted
  <2>2. local'[c].base + local'[c].done = w + 1
    <3>1. my.base \in Nat /\ my.done \in Nat
      BY <1>2, MemoryAssumption DEF VPage
    <3> QED BY <1>1, <1>3, <1>5, <3>1
  <2>3. \A q \in Wanted(my) : q \in VPage
    BY <1>2, WantedInside
  <2>4. \A q \in Wanted(my) : Unused(q)' /\ (pte'[q] # -1 <=> q < w + 1)
    BY <1>7, <1>8, <1>9, <1>10, <2>3
  <2>5. /\ local'[c].pc \in {"got", "pscan"}
        /\ local'[c].pc = "got" => local'[c].done = local'[c].n
        /\ local'[c].base + local'[c].n <= VPages
    BY <1>1, <1>2, <1>3
  <2> QED BY <1>1, <1>8, <2>1, <2>2, <2>4, <2>5 DEF Progress
<1>17. ASSUME NEW t \in Thread \ {c}, my.call \notin Locked PROVE Undisturbed(c, t)
  <2>1. local'[t] = local[t] /\ Progress(t) /\ CallOK(t) /\ local[t] \in Local
    BY <1>1, <1>3 DEF HeapInv, BaseInv, BaseType
  <2>2. local[t].pc = "padd" => local[t].frame # f
    <3>1. ~ FrameFound
      BY page_table_addLemma
    <3> QED BY <1>3, <1>6, <1>17, <3>1 DEF FrameFound
  <2>3. Claims(t) => Wanted(local[t]) \cap Wanted(my) = {}
    BY <1>1, <1>4 DEF HeapInv, ClaimsInv, Claims
  <2>4. Claims(t)' <=> Claims(t)
    BY <1>1, <2>1 DEF Claims, Direct
  <2>5. Claims(t) => Wanted(local[t]) \subseteq VPage
    <3> SUFFICES ASSUME Claims(t) PROVE Wanted(local[t]) \subseteq VPage
      OBVIOUS
    <3>1. local[t].base \in VPage /\ local[t].n \in Nat /\ local[t].base + local[t].n <= VPages
      BY <2>1 DEF Claims, Progress, CallOK, Local
    <3> QED BY <3>1, WantedInside
  <2>6. Claims(t) => \A q \in Wanted(local[t]) : pte'[q] = pte[q]
    BY <1>7, <1>9, <2>3, <2>5
  <2>7. Progress(t)'
    <3>1. local[t].pc = "vset" => Wanted(local[t])' \cap vbits' = {}
      BY <1>1, <2>1 DEF Progress
    <3>2. Claims(t) =>
              /\ local[t].base + local[t].n <= VPages
              /\ Wanted(local[t]) \subseteq vbits
              /\ local[t].pc = "got" => local[t].done = local[t].n
              /\ \A q \in Wanted(local[t]) : Unused(q) /\ (pte[q] # -1 <=> q < local[t].base + local[t].done)
      BY <2>1 DEF Progress, Claims
    <3>3. Claims(t) => \A q \in Wanted(local[t]) : Unused(q)' /\ (pte'[q] # -1 <=> q < local[t].base + local[t].done)
      BY <1>10, <2>6, <3>2
    <3>4. local[t].pc = "padd" => local[t].frame \notin pbits'
      BY <1>1, <1>6, <2>1, <2>2 DEF Progress
    <3>5. (local[t].pc \in {"pscan", "padd"} \/ (local[t].pc = "got" /\ ~ Direct(local[t])')) <=> Claims(t)
      BY <1>1, <2>1 DEF Claims, Direct
    <3> QED BY <1>1, <2>1, <3>1, <3>2, <3>3, <3>4, <3>5 DEF Progress, Direct
  <2>8. Wanted(local[c])' = Wanted(my) /\ Wanted(local[t])' = Wanted(local[t])
    BY <1>1, <1>3, <2>1 DEF Wanted
  <2> QED BY <2>3, <2>4, <2>7, <2>8 DEF Undisturbed
<1> QED BY <1>1, <1>3, <1>4, <1>12, <1>14, <1>15, <1>16, <1>17, HeapChange

\* Facts about the types that the next proofs use.
LEMMA HeapTypes ==
    ASSUME BaseInv
    PROVE  /\ \A m \in mem : /\ m \in Piece /\ m.page \in VPage /\ m.n \in Nat /\ m.n >= 1
                             /\ m.page \in Pages(m)
                             /\ m.kind = "small" => Pages(m) = {m.page} /\ m.n \in 1..blocks_per_arena
           /\ \A b \in FreeBlocks : b \in Block /\ b[1] \in VPage /\ b[2] \in 1..blocks_per_arena
                                    /\ b = <<b[1], b[2]>>
           /\ pte \in [VPage -> PPage \cup {-1}]
           /\ arena \in [VPage -> [large : BOOLEAN, cnt : Int]]
           /\ free \in Seq(Block) /\ blocks_per_arena \in Nat /\ blocks_per_arena >= 1
<1>1. ASSUME NEW m \in mem
      PROVE  /\ m \in Piece /\ m.page \in VPage /\ m.n \in Nat /\ m.n >= 1
             /\ m.page \in Pages(m)
             /\ m.kind = "small" => Pages(m) = {m.page} /\ m.n \in 1..blocks_per_arena
  <2>1. m \in Piece /\ m.n >= 1 /\ (m.kind = "small" => m.n \in 1..blocks_per_arena)
    BY DEF BaseInv, BaseType
  <2>2. m.page \in VPage /\ m.n \in Nat
    BY <2>1 DEF Piece
  <2>3. m.page \in m.page..(m.page + m.n - 1)
    BY <2>1, <2>2, MemoryAssumption DEF VPage
  <2> QED BY <2>1, <2>2, <2>3 DEF Pages
<1>2. free \in Seq(Block) /\ pte \in [VPage -> PPage \cup {-1}]
      /\ arena \in [VPage -> [large : BOOLEAN, cnt : Int]]
  BY DEF BaseInv, BaseType
<1>3. ASSUME NEW b \in FreeBlocks
      PROVE  b \in Block /\ b[1] \in VPage /\ b[2] \in 1..blocks_per_arena /\ b = <<b[1], b[2]>>
  <2>1. b \in Block
    BY <1>2 DEF FreeBlocks, Elems
  <2> QED BY <2>1 DEF Block
<1> QED BY <1>1, <1>2, <1>3, MemoryAssumption

\* A new piece of whole pages that were unused.
LEMMA NewPagesHeap ==
    ASSUME BaseInv, HeapInv, NEW p, mem' = mem \cup {p}, p.kind # "small",
           \A q \in Pages(p) : q \in VPage /\ pte[q] # -1 /\ Unused(q),
           UNCHANGED <<pte, free>>,
           \A q \in VPage \ Pages(p) : arena'[q] = arena[q],
           \A q \in Pages(p) : arena'[q] = arena[q] \/ (arena'[q].large /\ arena'[q].cnt \in Nat)
    PROVE  PiecesInv' /\ BlocksInv'
<1>1. FreeBlocks' = FreeBlocks /\ (\A q : Numbers(q)' = Numbers(q))
  BY DEF FreeBlocks, Numbers, Elems
<1>2. \A m \in mem : Pages(m) \cap Pages(p) = {} /\ m.page \in VPage \ Pages(p)
  BY HeapTypes DEF Unused
<1>3. \A b \in FreeBlocks : b[1] \in VPage \ Pages(p)
  BY HeapTypes DEF Unused
<1>4. PiecesInv'
  <2>1. \A m \in mem' : \A q \in Pages(m) : q \in VPage /\ pte'[q] # -1
    BY DEF HeapInv, PiecesInv
  <2>2. \A m, o \in mem' : m # o /\ Pages(m) \cap Pages(o) # {} =>
           m.kind = "small" /\ o.kind = "small" /\ m.n # o.n
    BY <1>2 DEF HeapInv, PiecesInv
  <2>3. \A m \in mem' : m.kind = "small" => ~ arena'[m.page].large
    BY <1>2 DEF HeapInv, PiecesInv
  <2> QED BY <2>1, <2>2, <2>3 DEF PiecesInv
<1>5. BlocksInv'
  <2>1. Once(free')
    BY DEF HeapInv, BlocksInv
  <2>2. \A b \in FreeBlocks : pte'[b[1]] # -1 /\ ~ arena'[b[1]].large
    BY <1>3 DEF HeapInv, BlocksInv
  <2>3. \A b \in FreeBlocks, m \in mem' : b[1] \in Pages(m) => m.kind = "small" /\ m.n # b[2]
    BY <1>3 DEF HeapInv, BlocksInv
  <2>4. \A q \in VPage : ~ arena'[q].large => arena'[q].cnt = Cardinality(Numbers(q))
    BY DEF HeapInv, BlocksInv
  <2>5. \A q \in VPage : arena'[q].cnt \in Nat
    BY DEF HeapInv, BlocksInv
  <2> QED BY <1>1, <2>1, <2>2, <2>3, <2>4, <2>5 DEF BlocksInv
<1> QED BY <1>4, <1>5

\* A new piece that is one block, of an arena that exists or is made for it.
LEMMA NewBlockHeap ==
    ASSUME BaseInv, HeapInv, UNCHANGED pte, NEW v \in VPage, NEW n \in 1..blocks_per_arena, NEW p,
           p.kind = "small", p.page = v, p.n = n, mem' = mem \cup {p},
           pte[v] # -1,
           \A m \in mem : v \in Pages(m) => m.kind = "small" /\ m.n # n,
           Once(free'), \A b \in FreeBlocks' : b \in Block,
           <<v, n>> \notin FreeBlocks',
           \A b \in FreeBlocks' : b \in FreeBlocks \/ (b[1] = v /\ Unused(v)),
           \A q \in VPage \ {v} : arena'[q] = arena[q] /\ Numbers(q)' = Numbers(q),
           ~ arena'[v].large, arena'[v].cnt = Cardinality(Numbers(v)'), arena'[v].cnt \in Nat
    PROVE  PiecesInv' /\ BlocksInv'
<1>1. Pages(p) = {v}
  BY DEF Pages
<1>2. PiecesInv'
  <2>1. \A m \in mem' : \A q \in Pages(m) : q \in VPage /\ pte'[q] # -1
    BY <1>1 DEF HeapInv, PiecesInv
  <2>2. \A m, o \in mem' : m # o /\ Pages(m) \cap Pages(o) # {} =>
           m.kind = "small" /\ o.kind = "small" /\ m.n # o.n
    BY <1>1 DEF HeapInv, PiecesInv
  <2>3. \A m \in mem' : m.kind = "small" => ~ arena'[m.page].large
    BY HeapTypes DEF HeapInv, PiecesInv
  <2> QED BY <2>1, <2>2, <2>3 DEF PiecesInv
<1>3. \A b \in FreeBlocks' : b[1] \in VPage /\ b = <<b[1], b[2]>>
  BY DEF Block
<1>4. BlocksInv'
  <2>2. \A b \in FreeBlocks' : pte'[b[1]] # -1 /\ ~ arena'[b[1]].large
    BY <1>3 DEF HeapInv, BlocksInv
  <2>3. ASSUME NEW b \in FreeBlocks', NEW m \in mem', b[1] \in Pages(m)
        PROVE  m.kind = "small" /\ m.n # b[2]
    <3>1. CASE m = p
      BY <1>1, <1>3, <2>3, <3>1
    <3>2. CASE m \in mem
      BY <2>3, <3>2 DEF HeapInv, BlocksInv, Unused
    <3> QED BY <3>1, <3>2
  <2>4. \A q \in VPage : ~ arena'[q].large => arena'[q].cnt = Cardinality(Numbers(q)')
    BY DEF HeapInv, BlocksInv
  <2>5. \A q \in VPage : arena'[q].cnt \in Nat
    BY DEF HeapInv, BlocksInv
  <2> QED BY <2>2, <2>3, <2>4, <2>5 DEF BlocksInv
<1> QED BY <1>2, <1>4

\* When all pages are entered they are mapped and in no piece.
LEMMA GotPages ==
    ASSUME BaseInv, HeapInv, my.pc = "got", ~ Direct(my), my.base \in VPage, my.n \in Nat
    PROVE  \A q \in Wanted(my) : q \in VPage /\ pte[q] # -1 /\ Unused(q)
<1>1. Progress(cur) /\ my = local[cur]
  BY CurLemma DEF BaseInv, HeapInv, my
<1>2. /\ my.base + my.n <= VPages /\ my.done = my.n
      /\ \A q \in Wanted(my) : Unused(q) /\ (pte[q] # -1 <=> q < my.base + my.done)
  BY <1>1 DEF Progress
<1>3. \A q \in Wanted(my) : q \in VPage /\ q < my.base + my.n
  <2>1. Wanted(my) \subseteq VPage
    BY <1>2, WantedInside
  <2>2. my.base \in Int /\ my.n \in Int
    BY MemoryAssumption DEF VPage
  <2>3. \A q \in my.base..(my.base + my.n - 1) : q < my.base + my.n
    BY <2>2
  <2> QED BY <2>1, <2>3 DEF Wanted
<1> QED BY <1>2, <1>3

LEMMA finishHeap ==
    ASSUME BaseInv, ExclusionInv, HeapInv, finish
    PROVE  HeapInv'
<1>1. /\ my.pc = "got" /\ my.base \in VPage /\ my.n \in Nat /\ my.n >= 1
      /\ my.call = "sys_malloc small" => my.n = 1
  BY finishLemma
<1>2. FinishPages \/ FinishLarge \/ FinishArena \/ FinishBlock
  BY finishLemma
<1>3. /\ local'[cur].pc \in {"out", "unlock"}
      /\ \A t \in Thread \ {cur} : local'[t] = local[t]
      /\ UNCHANGED <<vbits, pbits, pte>>
  BY finishLemma
<1>4. PICK c : c = cur
  OBVIOUS
<1>5. c \in Thread /\ my = local[c] /\ InHeap(c) /\ cur \in Thread
  BY <1>1, <1>4, CurLemma DEF BaseInv, InHeap, HeapPC, PC, my
<1>6. Progress(c)' /\ TablesInv'
  BY <1>3, <1>4 DEF Progress, HeapInv, TablesInv
<1>7. arena \in [VPage -> [large : BOOLEAN, cnt : Int]] /\ blocks_per_arena \in Nat /\ blocks_per_arena >= 1
  BY HeapTypes
<1>7a. FinishLarge \/ FinishArena \/ FinishBlock => my.call \in Locked
  BY DEF FinishLarge, FinishArena, FinishBlock, Locked
<1>8. CASE FinishPages
  <2>1. PICK p : p = NewPiece("pages", my.base, my.n)
    OBVIOUS
  <2>2. p.kind = "pages" /\ p.page = my.base /\ p.n = my.n
    BY <2>1 DEF NewPiece
  <2>3. Pages(p) = Wanted(my)
    BY <2>2 DEF Pages, Wanted
  <2>4. ~ Direct(my) /\ mem' = mem \cup {p} /\ UNCHANGED <<arena, free>>
    BY <1>8, <2>1 DEF FinishPages, Direct
  <2>5. \A q \in Pages(p) : q \in VPage /\ pte[q] # -1 /\ Unused(q)
    BY <1>1, <2>3, <2>4, GotPages
  <2>6. PiecesInv' /\ BlocksInv'
    BY <1>3, <2>2, <2>4, <2>5, NewPagesHeap
  <2>7. ASSUME NEW t \in Thread \ {c} PROVE Undisturbed(c, t)
    <3>1. local'[t] = local[t] /\ Progress(t)
      BY <1>3, <1>4 DEF HeapInv
    <3>2. Claims(t) => Wanted(local[t]) \cap Pages(p) = {}
      BY <1>1, <1>5, <2>3, <2>4 DEF HeapInv, ClaimsInv, Claims
    <3>3. \A q : Unused(q) /\ q \notin Pages(p) => Unused(q)'
      BY <2>4 DEF Unused, FreeBlocks, Elems
    <3>4. Claims(t) => \A q \in Wanted(local[t]) : Unused(q)'
      BY <3>1, <3>2, <3>3 DEF Claims, Progress
    <3>5. Progress(t)'
      BY <1>3, <2>4, <3>1, <3>4 DEF Progress, Claims, Direct
    <3>6. ~ Claims(c)'
      BY <1>3, <1>4 DEF Claims
    <3> QED BY <3>5, <3>6 DEF Undisturbed
  <2> QED BY <1>3, <1>4, <1>5, <1>6, <2>6, <2>7, HeapChange
<1>9. CASE FinishLarge
  <2>1. PICK p : p = NewPiece("large", my.base, my.n)
    OBVIOUS
  <2>2. p.kind = "large" /\ p.page = my.base /\ p.n = my.n
    BY <2>1 DEF NewPiece
  <2>3. Pages(p) = Wanted(my)
    BY <2>2 DEF Pages, Wanted
  <2>4. /\ ~ Direct(my) /\ mem' = mem \cup {p} /\ free' = free
        /\ arena' = [arena EXCEPT ![my.base] = [large |-> TRUE, cnt |-> my.n]]
    BY <1>9, <2>1 DEF FinishLarge, Direct
  <2>5. \A q \in Pages(p) : q \in VPage /\ pte[q] # -1 /\ Unused(q)
    BY <1>1, <2>3, <2>4, GotPages
  <2>6. my.base \in Pages(p)
    <3>1. my.base \in VPage /\ my.n \in Nat /\ my.n >= 1
      BY <1>1
    <3>2. my.base \in my.base..(my.base + my.n - 1)
      BY <3>1, MemoryAssumption DEF VPage
    <3> QED BY <2>3, <3>2 DEF Wanted
  <2>7. arena'[my.base].large /\ arena'[my.base].cnt \in Nat
    <3>1. my.base \in VPage /\ my.n \in Nat
      BY <1>1
    <3>2. arena'[my.base] = [large |-> TRUE, cnt |-> my.n]
      BY <1>7, <2>4, <3>1
    <3> QED BY <3>1, <3>2
  <2>8. \A q \in VPage : q # my.base => arena'[q] = arena[q]
    BY <1>7, <2>4
  <2>9. PiecesInv' /\ BlocksInv'
    BY <1>3, <2>2, <2>4, <2>5, <2>6, <2>7, <2>8, NewPagesHeap
  <2> QED BY <1>3, <1>4, <1>5, <1>6, <1>9, <1>7a, <2>9, HeapChange
<1>10. CASE FinishArena
  <2>1. PICK p : p = NewPiece("small", my.base, 1)
    OBVIOUS
  <2>2. p.kind = "small" /\ p.page = my.base /\ p.n = 1
    BY <2>1 DEF NewPiece
  <2>3. PICK v : v = my.base
    OBVIOUS
  <2>4. PICK s : s = ArenaBlocks(v)
    OBVIOUS
  <2>5. /\ my.call = "sys_malloc small" /\ free = <<>> /\ ~ Direct(my)
        /\ mem' = mem \cup {p} /\ free' = Tail(s)
        /\ arena' = [arena EXCEPT ![v] = OneLess([large |-> FALSE, cnt |-> blocks_per_arena])]
    BY <1>10, <2>1, <2>3, <2>4 DEF FinishArena, Direct
  <2>6. v \in VPage /\ pte[v] # -1 /\ Unused(v)
    <3>1. my.n = 1 /\ my.base \in VPage
      BY <1>1, <2>5
    <3>2. my.base \in my.base..(my.base + 1 - 1)
      BY <3>1, MemoryAssumption DEF VPage
    <3>3. my.base \in Wanted(my)
      BY <3>1, <3>2 DEF Wanted
    <3> QED BY <1>1, <2>3, <2>5, <3>3, GotPages
  <2>7. /\ s \in Seq(Block) /\ s # <<>> /\ Once(s)
        /\ Elems(s) = {v} \X (1..blocks_per_arena) /\ Head(s) = <<v, 1>>
    BY <2>4, <2>6, ArenaBlocksLemma
  <2>8. Once(free') /\ free' \in Seq(Block) /\ FreeBlocks' = ({v} \X (1..blocks_per_arena)) \ {<<v, 1>>}
    BY <2>5, <2>7, PopBlock DEF FreeBlocks
  <2>9. /\ \A b \in FreeBlocks' : b \in Block /\ b[1] = v
        /\ <<v, 1>> \notin FreeBlocks'
    BY <2>6, <2>8 DEF Block
  <2>10. \A q \in VPage \ {v} : Numbers(q)' = Numbers(q)
    <3>1. FreeBlocks = {}
      <4>1. free = <<>>
        BY <2>5
      <4> QED BY <4>1 DEF FreeBlocks, Elems
    <3> QED BY <2>9, <3>1 DEF Numbers
  <2>11. /\ ~ arena'[v].large /\ arena'[v].cnt = blocks_per_arena - 1
         /\ \A q \in VPage \ {v} : arena'[q] = arena[q]
    <3>1. [large |-> FALSE, cnt |-> blocks_per_arena] \in [large : BOOLEAN, cnt : Int]
      BY <1>7
    <3>2. PICK a : a = OneLess([large |-> FALSE, cnt |-> blocks_per_arena])
      OBVIOUS
    <3>3. ~ a.large /\ a.cnt = blocks_per_arena - 1
      BY <3>1, <3>2, OneLessLemma
    <3>4. arena' = [arena EXCEPT ![v] = a]
      BY <2>5, <3>2
    <3> QED BY <1>7, <2>6, <3>3, <3>4
  <2>12. Cardinality(Numbers(v)') = blocks_per_arena - 1
    <3>1. Numbers(v)' = (1..blocks_per_arena) \ {1}
      BY <2>6, <2>8 DEF Numbers
    <3>2. IsFiniteSet(1..blocks_per_arena) /\ Cardinality(1..blocks_per_arena) = blocks_per_arena
      BY <1>7, FS_Interval
    <3>3. 1 \in 1..blocks_per_arena
      BY <1>7
    <3> QED BY <3>1, <3>2, <3>3, FS_RemoveElement
  <2>13. 1 \in 1..blocks_per_arena /\ blocks_per_arena - 1 \in Nat
    BY <1>7
  <2>14. \A m \in mem : v \notin Pages(m)
    BY <2>6 DEF Unused
  <2>15. PiecesInv' /\ BlocksInv'
    <3>1. pte' = pte /\ p.page = v /\ mem' = mem \cup {p}
      BY <1>3, <2>2, <2>3, <2>5
    <3>2. \A b \in FreeBlocks' : b \in FreeBlocks \/ (b[1] = v /\ Unused(v))
      BY <2>6, <2>9
    <3>3. arena'[v].cnt = Cardinality(Numbers(v)') /\ arena'[v].cnt \in Nat
      BY <2>11, <2>12, <2>13
    <3> QED BY <2>2, <2>6, <2>8, <2>9, <2>10, <2>11, <2>13, <2>14, <3>1, <3>2, <3>3, NewBlockHeap
  <2> QED BY <1>3, <1>4, <1>5, <1>6, <1>10, <1>7a, <2>15, HeapChange
<1>11. CASE FinishBlock
  <2>1. PICK b : b = Head(free)
    OBVIOUS
  <2>2. PICK p : p = NewPiece("small", b[1], b[2])
    OBVIOUS
  <2>3. p.kind = "small" /\ p.page = b[1] /\ p.n = b[2]
    BY <2>2 DEF NewPiece
  <2>4. /\ free # <<>> /\ mem' = mem \cup {p} /\ free' = Tail(free)
        /\ arena' = [arena EXCEPT ![b[1]] = OneLess(arena[b[1]])]
    BY <1>11, <2>1, <2>2 DEF FinishBlock
  <2>5. free \in Seq(Block) /\ Once(free)
    BY HeapTypes DEF HeapInv, BlocksInv
  <2>6. b \in FreeBlocks /\ FreeBlocks' = FreeBlocks \ {b} /\ Once(free')
    BY <2>1, <2>4, <2>5, PopBlock DEF FreeBlocks
  <2>7. b[1] \in VPage /\ b[2] \in 1..blocks_per_arena /\ b = <<b[1], b[2]>>
    BY <2>6, HeapTypes
  <2>8. /\ pte[b[1]] # -1 /\ ~ arena[b[1]].large
        /\ arena[b[1]].cnt = Cardinality(Numbers(b[1]))
        /\ \A m \in mem : b[1] \in Pages(m) => m.kind = "small" /\ m.n # b[2]
    BY <2>6, <2>7 DEF HeapInv, BlocksInv
  <2>9. \A x \in FreeBlocks' : x \in Block /\ x \in FreeBlocks
    BY <2>6, HeapTypes
  <2>10. \A q \in VPage \ {b[1]} : Numbers(q)' = Numbers(q)
    BY <2>6, <2>7 DEF Numbers
  <2>11. /\ ~ arena'[b[1]].large /\ arena'[b[1]].cnt = arena[b[1]].cnt - 1
         /\ \A q \in VPage \ {b[1]} : arena'[q] = arena[q]
    <3>1. arena[b[1]] \in [large : BOOLEAN, cnt : Int]
      BY <1>7, <2>7
    <3>2. PICK a : a = OneLess(arena[b[1]])
      OBVIOUS
    <3>3. ~ a.large /\ a.cnt = arena[b[1]].cnt - 1
      BY <2>8, <3>1, <3>2, OneLessLemma
    <3>4. arena' = [arena EXCEPT ![b[1]] = a]
      BY <2>4, <3>2
    <3> QED BY <1>7, <2>7, <3>3, <3>4
  <2>12. Cardinality(Numbers(b[1])') = Cardinality(Numbers(b[1])) - 1 /\ Cardinality(Numbers(b[1])') \in Nat
    <3>1. Numbers(b[1])' = Numbers(b[1]) \ {b[2]} /\ b[2] \in Numbers(b[1])
      BY <2>6, <2>7 DEF Numbers
    <3>2. IsFiniteSet(Numbers(b[1]))
      <4>1. IsFiniteSet(1..blocks_per_arena)
        BY <1>7, FS_Interval
      <4>2. Numbers(b[1]) \subseteq 1..blocks_per_arena
        BY DEF Numbers
      <4> QED BY <4>1, <4>2, FS_Subset
    <3> QED BY <3>1, <3>2, FS_RemoveElement, FS_CardinalityType
  <2>13. <<b[1], b[2]>> \notin FreeBlocks'
    BY <2>6, <2>7
  <2>14. arena'[b[1]].cnt = Cardinality(Numbers(b[1])') /\ arena'[b[1]].cnt \in Nat
    BY <2>8, <2>11, <2>12
  <2>15. PiecesInv' /\ BlocksInv'
    BY <1>3, <2>3, <2>4, <2>6, <2>7, <2>8, <2>9, <2>10, <2>11, <2>13, <2>14, NewBlockHeap
  <2> QED BY <1>3, <1>4, <1>5, <1>6, <1>11, <1>7a, <2>15, HeapChange
<1> QED BY <1>2, <1>8, <1>9, <1>10, <1>11

\* The pages P go, and with them the piece d: its frames are nobody else's.
LEMMA GonePagesHeap ==
    ASSUME BaseInv, HeapInv, NEW d \in mem, NEW P \in SUBSET VPage, NEW v \in P,
           mem' = mem \ {d},
           \A m \in mem \ {d} : Pages(m) \cap P = {},
           pte' = [q \in VPage |-> IF q \in P THEN -1 ELSE pte[q]],
           pbits' = pbits \ {pte[q] : q \in P}, vbits' = vbits \ P,
           arena' = [arena EXCEPT ![v] = NoArena],
           Once(free'), \A b \in FreeBlocks' : b \in FreeBlocks /\ b[1] \notin P,
           Numbers(v)' = {}, \A q \in VPage \ {v} : Numbers(q)' = Numbers(q)
    PROVE  TablesInv' /\ PiecesInv' /\ BlocksInv'
<1>1. /\ \A q \in P : pte'[q] = -1
      /\ \A q \in VPage \ P : pte'[q] = pte[q]
  OBVIOUS
<1>2. /\ \A q \in VPage \ {v} : arena'[q] = arena[q]
      /\ ~ arena'[v].large /\ arena'[v].cnt = 0
  BY HeapTypes DEF NoArena
<1>3. TablesInv'
  <2>1. ASSUME NEW q \in VPage, pte'[q] # -1 PROVE q \in vbits' /\ pte'[q] \in pbits'
    <3>1. q \notin P /\ pte'[q] = pte[q] /\ pte[q] # -1
      BY <1>1, <2>1
    <3>2. q \in vbits /\ pte[q] \in pbits /\ \A r \in VPage : pte[q] = pte[r] => q = r
      BY <3>1 DEF HeapInv, TablesInv
    <3> QED BY <3>1, <3>2
  <2>2. \A q, r \in VPage : pte'[q] # -1 /\ pte'[q] = pte'[r] => q = r
    BY <1>1 DEF HeapInv, TablesInv
  <2> QED BY <2>1, <2>2 DEF TablesInv
<1>4. PiecesInv'
  <2>1. \A m \in mem' : \A q \in Pages(m) : q \in VPage /\ pte'[q] # -1
    BY <1>1 DEF HeapInv, PiecesInv
  <2>2. \A m, o \in mem' : m # o /\ Pages(m) \cap Pages(o) # {} =>
           m.kind = "small" /\ o.kind = "small" /\ m.n # o.n
    BY DEF HeapInv, PiecesInv
  <2>3. \A m \in mem' : m.kind = "small" => ~ arena'[m.page].large
    BY <1>2, HeapTypes DEF HeapInv, PiecesInv
  <2> QED BY <2>1, <2>2, <2>3 DEF PiecesInv
<1>5. BlocksInv'
  <2>1. \A b \in FreeBlocks' : pte'[b[1]] # -1 /\ ~ arena'[b[1]].large
    BY <1>1, <1>2, HeapTypes DEF HeapInv, BlocksInv
  <2>2. \A b \in FreeBlocks', m \in mem' : b[1] \in Pages(m) => m.kind = "small" /\ m.n # b[2]
    BY DEF HeapInv, BlocksInv
  <2>3. \A q \in VPage : ~ arena'[q].large => arena'[q].cnt = Cardinality(Numbers(q)')
    BY <1>2, FS_EmptySet DEF HeapInv, BlocksInv
  <2>4. \A q \in VPage : arena'[q].cnt \in Nat
    BY <1>2 DEF HeapInv, BlocksInv
  <2> QED BY <2>1, <2>2, <2>3, <2>4 DEF BlocksInv
<1> QED BY <1>3, <1>4, <1>5

\* The last block of an arena that is in use: all the others are in the list.
LEMMA LastBlock ==
    ASSUME BaseInv, HeapInv, NEW d \in mem, d.kind = "small",
           arena[d.page].cnt + 1 = blocks_per_arena
    PROVE  \A m \in mem \ {d} : d.page \notin Pages(m)
<1> SUFFICES ASSUME NEW m \in mem, m # d, d.page \in Pages(m) PROVE FALSE
  OBVIOUS
<1> DEFINE v == d.page
           B == blocks_per_arena
<1>1. v \in VPage /\ Pages(d) = {v} /\ d.n \in 1..B /\ B \in Nat
  BY HeapTypes
<1>2. m.kind = "small" /\ m.n # d.n /\ m.page = v /\ m.n \in 1..B
  <2>1. v \in Pages(m) \cap Pages(d)
    BY <1>1
  <2>2. m.kind = "small" /\ m.n # d.n
    BY <2>1 DEF HeapInv, PiecesInv
  <2> QED BY <2>1, <2>2, HeapTypes
<1>3. arena[v].cnt = Cardinality(Numbers(v))
  BY <1>1 DEF HeapInv, PiecesInv, BlocksInv
<1>4. \A x \in mem : x.page = v /\ x.kind = "small" => x.n \notin Numbers(v)
  <2> SUFFICES ASSUME NEW x \in mem, x.page = v, x.kind = "small", <<v, x.n>> \in FreeBlocks PROVE FALSE
    BY DEF Numbers
  <2>1. PICK b : b = <<v, x.n>>
    OBVIOUS
  <2>2. b[1] = v /\ b[2] = x.n /\ b \in FreeBlocks /\ b[1] \in Pages(x)
    BY <2>1, HeapTypes
  <2> QED BY <2>2 DEF HeapInv, BlocksInv
<1>5. d.n \notin Numbers(v) /\ m.n \notin Numbers(v) \cup {d.n}
  BY <1>2, <1>4
<1> HIDE DEF v
<1>6. IsFiniteSet(1..B) /\ Cardinality(1..B) = B
  BY <1>1, FS_Interval
<1>7. Numbers(v) \cup {d.n} \subseteq 1..B /\ Numbers(v) \subseteq 1..B
  BY <1>1 DEF Numbers
<1>8. IsFiniteSet(Numbers(v)) /\ IsFiniteSet(Numbers(v) \cup {d.n})
  BY <1>6, <1>7, FS_Subset
<1>9. Cardinality(Numbers(v) \cup {d.n}) = Cardinality(Numbers(v)) + 1
  BY <1>5, <1>8, FS_AddElement
<1>10. Cardinality(Numbers(v) \cup {d.n}) = Cardinality(1..B)
  BY <1>3, <1>6, <1>9 DEF v
<1>11. Numbers(v) \cup {d.n} = 1..B
  BY <1>6, <1>7, <1>10, FS_Subset
<1> QED BY <1>2, <1>5, <1>11

LEMMA releaseHeap ==
    ASSUME BaseInv, ExclusionInv, HeapInv, release
    PROVE  HeapInv'
<1>1. PICK d \in mem : /\ d.kind = "pages" <=> my.call = "mfree_page"
                       /\ mem' = mem \ {d}
                       /\ ReleasePages(d) \/ ReleaseLast(d) \/ ReleaseBlock(d)
  BY releaseLemma
<1>2. /\ my.pc = "free" /\ local'[cur].pc \in {"out", "unlock"}
      /\ \A t \in Thread \ {cur} : local'[t] = local[t]
  BY releaseLemma
<1>3. PICK c : c = cur
  OBVIOUS
<1>4. c \in Thread /\ my = local[c] /\ InHeap(c)
  BY <1>2, <1>3, CurLemma DEF BaseInv, InHeap, HeapPC, PC, my
<1>5. Progress(c)'
  BY <1>2, <1>3 DEF Progress
<1>6. PICK v : v = d.page
  OBVIOUS
<1>7. v \in VPage /\ v \in Pages(d) /\ Pages(d) \subseteq VPage
  BY <1>6, HeapTypes DEF HeapInv, PiecesInv
<1>8. free \in Seq(Block) /\ Once(free) /\ arena \in [VPage -> [large : BOOLEAN, cnt : Int]]
  BY HeapTypes DEF HeapInv, BlocksInv
<1>8a. d.kind = "small" => my.call \in Locked
  <2>1. my.call \in Frees
    BY <1>2, <1>4 DEF BaseInv, CallOK
  <2> QED BY <1>1, <2>1 DEF Frees, Locked
<1>9. CASE ReleasePages(d)
  <2>1. d.kind # "small" /\ PagesFreed(v, d.n) /\ free' = free /\ arena' = [arena EXCEPT ![v] = NoArena]
    BY <1>6, <1>9 DEF ReleasePages
  <2>2. Pages(d) = v..(v + d.n - 1)
    BY <1>6, <2>1 DEF Pages
  <2>3. /\ pte' = [q \in VPage |-> IF q \in Pages(d) THEN -1 ELSE pte[q]]
        /\ pbits' = pbits \ {pte[q] : q \in Pages(d)} /\ vbits' = vbits \ Pages(d)
    BY <2>1, <2>2 DEF PagesFreed, PteRemoved
  <2>4. \A m \in mem \ {d} : Pages(m) \cap Pages(d) = {}
    BY <2>1 DEF HeapInv, PiecesInv
  <2>5. FreeBlocks' = FreeBlocks /\ \A q : Numbers(q)' = Numbers(q)
    BY <2>1 DEF FreeBlocks, Elems, Numbers
  <2>6. \A b \in FreeBlocks : b[1] \notin Pages(d)
    BY <2>1 DEF HeapInv, BlocksInv
  <2>7. Numbers(v) = {}
    <3> SUFFICES ASSUME NEW k, <<v, k>> \in FreeBlocks PROVE FALSE
      BY DEF Numbers
    <3>1. <<v, k>>[1] = v
      OBVIOUS
    <3> QED BY <1>7, <2>6, <3>1
  <2>8. TablesInv' /\ PiecesInv' /\ BlocksInv'
    BY <1>1, <1>7, <1>8, <2>1, <2>3, <2>4, <2>5, <2>6, <2>7, GonePagesHeap
  <2>9. ASSUME NEW t \in Thread \ {c} PROVE Undisturbed(c, t)
    <3>1. local'[t] = local[t] /\ Progress(t)
      BY <1>2, <1>3 DEF HeapInv
    <3>2. Claims(t) => /\ Wanted(local[t]) \subseteq vbits \ Pages(d)
                       /\ \A q \in Wanted(local[t]) : Unused(q)
      BY <3>1 DEF Claims, Progress, Unused
    <3>3. vbits \subseteq VPage
      BY DEF BaseInv, BaseType
    <3>4. \A q : Unused(q) => Unused(q)'
      BY <1>1, <2>5 DEF Unused
    <3>5. Claims(t) => \A q \in Wanted(local[t]) : Unused(q)' /\ pte'[q] = pte[q] /\ q \in vbits'
      BY <2>3, <3>2, <3>3, <3>4
    <3>6. (Claims(t)' <=> Claims(t)) /\ (Direct(local[t])' <=> Direct(local[t]))
      BY <2>1, <3>1 DEF Claims, Direct
    <3>7. vbits' \subseteq vbits /\ pbits' \subseteq pbits
      BY <2>3
    <3>8. Progress(t)'
      BY <3>1, <3>5, <3>6, <3>7 DEF Progress, Claims
    <3>9. ~ Claims(c)'
      BY <1>2, <1>3 DEF Claims
    <3> QED BY <3>8, <3>9 DEF Undisturbed
  <2> QED BY <1>2, <1>3, <1>4, <1>5, <2>8, <2>9, HeapChange
<1>10. d.kind = "small" => /\ Pages(d) = {v} /\ <<v, d.n>> \in Block /\ <<v, d.n>> \notin FreeBlocks
                           /\ pte[v] # -1 /\ ~ arena[v].large /\ arena[v].cnt = Cardinality(Numbers(v))
                           /\ arena[v].cnt \in Nat
  <2> SUFFICES ASSUME d.kind = "small"
               PROVE  /\ Pages(d) = {v} /\ <<v, d.n>> \in Block /\ <<v, d.n>> \notin FreeBlocks
                      /\ pte[v] # -1 /\ ~ arena[v].large /\ arena[v].cnt = Cardinality(Numbers(v))
                      /\ arena[v].cnt \in Nat
    OBVIOUS
  <2>1. Pages(d) = {v} /\ <<v, d.n>> \in Block
    BY <1>6, <1>7, HeapTypes DEF Block
  <2>2. <<v, d.n>> \notin FreeBlocks
    <3>1. <<v, d.n>>[1] = v /\ <<v, d.n>>[2] = d.n
      OBVIOUS
    <3> QED BY <1>7, <3>1 DEF HeapInv, BlocksInv
  <2>3. pte[v] # -1 /\ ~ arena[v].large /\ arena[v].cnt = Cardinality(Numbers(v)) /\ arena[v].cnt \in Nat
    BY <1>6, <1>7 DEF HeapInv, PiecesInv, BlocksInv
  <2> QED BY <2>1, <2>2, <2>3
<1>11. CASE ReleaseLast(d)
  <2>1. PICK s : s = Append(free, <<v, d.n>>)
    OBVIOUS
  <2>2. /\ d.kind = "small" /\ arena[v].cnt + 1 = blocks_per_arena
        /\ free' = ArenaUnlinked(s, v) /\ arena' = [arena EXCEPT ![v] = NoArena] /\ PagesFreed(v, 1)
    BY <1>6, <1>11, <2>1 DEF ReleaseLast
  <2>3. s \in Seq(Block) /\ Once(s) /\ Elems(s) = FreeBlocks \cup {<<v, d.n>>}
    BY <1>8, <1>10, <2>1, <2>2, AppendBlock DEF FreeBlocks
  <2>4. Once(free') /\ FreeBlocks' = {b \in Elems(s) : b[1] # v}
    BY <2>2, <2>3, ArenaUnlinkedLemma DEF FreeBlocks
  <2>5. \A m \in mem \ {d} : Pages(m) \cap {v} = {}
    BY <1>6, <2>2, LastBlock
  <2>6. v..(v + 1 - 1) = {v}
    BY <1>7, MemoryAssumption DEF VPage
  <2>7. /\ pte' = [q \in VPage |-> IF q \in {v} THEN -1 ELSE pte[q]]
        /\ pbits' = pbits \ {pte[q] : q \in {v}} /\ vbits' = vbits \ {v}
    BY <2>2, <2>6 DEF PagesFreed, PteRemoved
  <2>8. <<v, d.n>>[1] = v /\ \A q, k : <<q, k>>[1] = q
    OBVIOUS
  <2>9. \A b \in FreeBlocks' : b \in FreeBlocks /\ b[1] \notin {v}
    BY <2>3, <2>4, <2>8
  <2>10. Numbers(v)' = {}
    <3> SUFFICES ASSUME NEW k, <<v, k>> \in FreeBlocks' PROVE FALSE
      BY DEF Numbers
    <3> QED BY <2>8, <2>9
  <2>11. \A q \in VPage \ {v} : Numbers(q)' = Numbers(q)
    <3> SUFFICES ASSUME NEW q \in VPage \ {v}, NEW k PROVE <<q, k>> \in FreeBlocks' <=> <<q, k>> \in FreeBlocks
      BY DEF Numbers
    <3>1. <<q, k>>[1] = q
      BY <2>8
    <3> QED BY <2>3, <2>4, <2>9, <3>1
  <2>12. TablesInv' /\ PiecesInv' /\ BlocksInv'
    BY <1>1, <1>7, <2>2, <2>4, <2>5, <2>7, <2>9, <2>10, <2>11, GonePagesHeap
  <2> QED BY <1>2, <1>3, <1>4, <1>5, <1>8a, <2>2, <2>12, HeapChange
<1>12. CASE ReleaseBlock(d)
  <2>1. /\ d.kind = "small" /\ free' = Append(free, <<v, d.n>>)
        /\ arena' = [arena EXCEPT ![v].cnt = @ + 1] /\ UNCHANGED <<vbits, pbits, pte>>
    BY <1>6, <1>12 DEF ReleaseBlock
  <2>2. Once(free') /\ FreeBlocks' = FreeBlocks \cup {<<v, d.n>>}
    BY <1>8, <1>10, <2>1, AppendBlock DEF FreeBlocks
  <2>3. /\ arena'[v].large = arena[v].large /\ arena'[v].cnt = arena[v].cnt + 1
        /\ \A q \in VPage \ {v} : arena'[q] = arena[q]
    BY <1>7, <1>8, <2>1, OneMoreLemma
  <2>4. \A q \in VPage \ {v} : Numbers(q)' = Numbers(q)
    BY <2>2 DEF Numbers
  <2>5. Cardinality(Numbers(v)') = Cardinality(Numbers(v)) + 1
    <3>1. d.n \in 1..blocks_per_arena /\ blocks_per_arena \in Nat
      BY <2>1, HeapTypes
    <3>2. Numbers(v)' = Numbers(v) \cup {d.n} /\ d.n \notin Numbers(v)
      BY <1>10, <2>1, <2>2, <3>1 DEF Numbers
    <3>3. Numbers(v) \subseteq 1..blocks_per_arena /\ IsFiniteSet(1..blocks_per_arena)
      BY <3>1, FS_Interval DEF Numbers
    <3>4. IsFiniteSet(Numbers(v))
      BY <3>3, FS_Subset
    <3> QED BY <3>2, <3>4, FS_AddElement
  <2>6. TablesInv'
    BY <2>1 DEF HeapInv, TablesInv
  <2>7. PiecesInv'
    <3>1. \A m \in mem' : \A q \in Pages(m) : q \in VPage /\ pte'[q] # -1
      BY <1>1, <2>1 DEF HeapInv, PiecesInv
    <3>2. \A m, o \in mem' : m # o /\ Pages(m) \cap Pages(o) # {} =>
             m.kind = "small" /\ o.kind = "small" /\ m.n # o.n
      BY <1>1 DEF HeapInv, PiecesInv
    <3>3. \A m \in mem' : m.kind = "small" => ~ arena'[m.page].large
      BY <1>1, <1>7, <2>3, HeapTypes DEF HeapInv, PiecesInv
    <3> QED BY <3>1, <3>2, <3>3 DEF PiecesInv
  <2>8. BlocksInv'
    <3>0. <<v, d.n>>[1] = v /\ <<v, d.n>>[2] = d.n
      OBVIOUS
    <3>1. \A b \in FreeBlocks' : pte'[b[1]] # -1 /\ ~ arena'[b[1]].large
      BY <1>7, <1>10, <2>1, <2>2, <2>3, <3>0, HeapTypes DEF HeapInv, BlocksInv
    <3>2. ASSUME NEW b \in FreeBlocks', NEW m \in mem', b[1] \in Pages(m)
          PROVE  m.kind = "small" /\ m.n # b[2]
      <4>1. CASE b \in FreeBlocks
        BY <1>1, <3>2, <4>1 DEF HeapInv, BlocksInv
      <4>2. CASE b = <<v, d.n>>
        <5>1. v \in Pages(m) \cap Pages(d) /\ m \in mem /\ m # d
          BY <1>1, <1>7, <3>0, <3>2, <4>2
        <5> QED BY <3>0, <4>2, <5>1 DEF HeapInv, PiecesInv
      <4> QED BY <2>2, <4>1, <4>2
    <3>3. \A q \in VPage : ~ arena'[q].large => arena'[q].cnt = Cardinality(Numbers(q)')
      BY <1>10, <2>1, <2>3, <2>4, <2>5 DEF HeapInv, BlocksInv
    <3>4. \A q \in VPage : arena'[q].cnt \in Nat
      <4>1. arena'[v].cnt \in Nat
        BY <1>10, <2>1, <2>3
      <4> QED BY <2>3, <4>1 DEF HeapInv, BlocksInv
    <3> QED BY <2>2, <3>1, <3>2, <3>3, <3>4 DEF BlocksInv
  <2> QED BY <1>2, <1>3, <1>4, <1>5, <1>8a, <2>1, <2>6, <2>7, <2>8, HeapChange
<1> QED BY <1>1, <1>9, <1>11, <1>12
----------------------------------------------------------------------------
(* The heap of every reachable state.                                       *)

\* Counting the places of a page's blocks in the list counts the blocks.
LEMMA CountLemma ==
    ASSUME BaseInv, HeapInv, NEW q \in VPage
    PROVE  Cardinality({i \in 1..Len(free) : free[i][1] = q}) = Cardinality(Numbers(q))
<1> DEFINE I == {i \in 1..Len(free) : free[i][1] = q}
           f == [i \in I |-> free[i][2]]
<1>1. free \in Seq(Block) /\ Len(free) \in Nat /\ Once(free)
  BY HeapTypes DEF HeapInv, BlocksInv
<1>2. \A i \in 1..Len(free) : /\ free[i] \in FreeBlocks /\ free[i] = <<free[i][1], free[i][2]>>
                              /\ free[i][2] \in 1..blocks_per_arena
  BY HeapTypes DEF FreeBlocks, Elems
<1>3. IsFiniteSet(I)
  <2>1. I \subseteq 1..Len(free) /\ IsFiniteSet(1..Len(free))
    BY <1>1, FS_Interval
  <2> QED BY <2>1, FS_Subset
<1>4. f \in [I -> Numbers(q)]
  BY <1>2 DEF Numbers
<1>5. ASSUME NEW i \in I, NEW j \in I, f[i] = f[j] PROVE i = j
  <2>1. free[i] = <<q, free[i][2]>> /\ free[j] = <<q, free[j][2]>> /\ free[i][2] = free[j][2]
    BY <1>2, <1>5
  <2>2. free[i] = free[j]
    BY <2>1, Zenon
  <2> QED BY <1>1, <2>2 DEF Once
<1>6. \A n \in Numbers(q) : \E i \in I : f[i] = n
  <2> SUFFICES ASSUME NEW n \in 1..blocks_per_arena, <<q, n>> \in FreeBlocks PROVE \E i \in I : f[i] = n
    BY DEF Numbers
  <2>1. PICK i \in 1..Len(free) : <<q, n>> = free[i]
    BY DEF FreeBlocks, Elems
  <2>2. free[i][1] = q /\ free[i][2] = n
    BY <2>1
  <2> QED BY <2>2
<1>7. f \in Bijection(I, Numbers(q))
  <2> HIDE DEF f, I
  <2> QED BY <1>4, <1>5, <1>6 DEF Bijection, Injection, IsInjective, Surjection
<1> HIDE DEF f
<1>8. ExistsBijection(I, Numbers(q))
  BY <1>7 DEF ExistsBijection
<1> QED BY <1>3, <1>8, FS_Bijection

MemInv == BaseInv /\ ExclusionInv /\ (~ torn => HeapInv)

LEMMA MemNextLemma ==
    ASSUME MemInv, [MemNext]_memVars
    PROVE  MemInv'
<1>1. BaseInv /\ ExclusionInv /\ (~ torn => HeapInv)
  BY DEF MemInv
<1>2. BaseInv' /\ ExclusionInv'
  BY <1>1, BaseNextLemma, ExclusionNextLemma
<1>3. ASSUME ~ torn' PROVE HeapInv'
  <2>0. ~ torn /\ HeapInv
    <3>1. torn' = torn \/ vaddr_get_set \/ page_table_add
      BY <1>1, CallsLemma, lock_acquireLemma, lock_releaseLemma, vaddr_get_scanLemma,
         palloc_scanLemma, finishLemma, releaseLemma, SwitchLemma DEF MemNext, memVars
    <3>2. ~ torn
      BY <1>1, <1>3, <3>1, vaddr_get_setLemma, page_table_addLemma
    <3> QED BY <1>1, <3>2
  <2>1. CASE UNCHANGED memVars \/ Switch
    <3>1. UNCHANGED <<heapVars, local>>
      BY <2>1, <1>1, SwitchLemma DEF memVars
    <3>2. cur \in Thread /\ Progress(cur) /\ \A t \in Thread \ {cur} : local'[t] = local[t]
      BY <1>1, <2>0, <3>1, CurLemma DEF BaseInv, HeapInv
    <3>3. PICK c : c = cur
      OBVIOUS
    <3>4. UNCHANGED <<vbits, pbits, pte, free, mem, local>>
      BY <3>1 DEF heapVars
    <3>5. \A q : Unused(q)' <=> Unused(q)
      BY <3>4 DEF Unused, FreeBlocks, Elems
    <3>6. Progress(c)'
      BY <3>2, <3>3, <3>4, <3>5 DEF Progress, Direct
    <3>7. Claims(c)' => Claims(c) /\ Wanted(local[c])' = Wanted(local[c])
      BY <3>4 DEF Claims, Direct, Wanted
    <3> QED BY <2>0, <3>1, <3>2, <3>3, <3>6, <3>7, HeapSame
  <2>2. CASE MemNext
    BY <1>1, <1>3, <2>0, <2>1, <2>2, CallsHeap, lock_acquireHeap, lock_releaseHeap, vaddr_get_scanHeap,
       vaddr_get_setHeap, palloc_scanHeap, page_table_addHeap, finishHeap, releaseHeap DEF MemNext
  <2> QED BY <2>1, <2>2
<1> QED BY <1>2, <1>3 DEF MemInv

\* The allocator's invariant, whoever is preempted where: only a call that does
\* not lock and takes what a preempted one has found ends the heap's part of it.
THEOREM MemInvariant == MemSpec => []MemInv
<1>1. MemInit => MemInv
  BY BaseInitLemma, ExclusionInitLemma, HeapInitLemma DEF MemInv
<1>2. MemInv /\ [MemNext]_memVars => MemInv'
  BY MemNextLemma
<1> QED BY <1>1, <1>2, PTL DEF MemSpec

\* Every variable keeps its type: no bitmap is set past its end (bitmap.c:18),
\* even when calls collide.
THEOREM MemTypeTheorem == MemSpec => []MemTypeOK
<1>1. MemInv => MemTypeOK
  BY DEF MemInv, BaseInv, BaseType, MemTypeOK, Arena
<1> QED BY <1>1, MemInvariant, PTL

\* Memory in use is mapped to frames of its own (malloc_page and mfree_page of
\* memory.c), in every order of allocations, failures and frees and wherever
\* calls are preempted, until one takes without the lock what another found.
THEOREM PiecesApartTheorem == MemSpec => []PiecesApart
<1>1. MemInv => PiecesApart
  BY DEF MemInv, HeapInv, TablesInv, PiecesInv, PiecesApart
<1> QED BY <1>1, MemInvariant, PTL

\* Each block is in the free list once or in use, and its arena counts the
\* first ones (sys_malloc_ and sys_free_ of memory.c), until then.
THEOREM BlocksExactTheorem == MemSpec => []BlocksExact
<1>1. MemInv => BlocksExact
  <2> SUFFICES ASSUME MemInv, ~ torn PROVE BlocksExact
    BY DEF BlocksExact
  <2>1. BaseInv /\ HeapInv /\ TablesInv /\ BlocksInv
    BY DEF MemInv, HeapInv
  <2>2. \A i, j \in 1..Len(free) : free[i] = free[j] => i = j
    BY <2>1 DEF BlocksInv, Once
  <2>3. \A i \in 1..Len(free) : free[i] \in FreeBlocks
    BY DEF FreeBlocks, Elems
  <2>4. \A i \in 1..Len(free) : free[i][1] \in vbits /\ pte[free[i][1]] # -1
    BY <2>1, <2>3, HeapTypes DEF BlocksInv, TablesInv
  <2>5. \A i \in 1..Len(free), m \in mem : m.page = free[i][1] => m.kind = "small" /\ m.n # free[i][2]
    BY <2>1, <2>3, HeapTypes DEF BlocksInv
  <2>6. \A q \in VPage : ~ arena[q].large =>
            arena[q].cnt = Cardinality({i \in 1..Len(free) : free[i][1] = q})
    BY <2>1, CountLemma DEF BlocksInv
  <2> QED BY <2>2, <2>4, <2>5, <2>6 DEF BlocksExact
<1> QED BY <1>1, MemInvariant, PTL

\* page_table_add (memory.c:102-110) never finds its entry present, until then.
THEOREM PteNotRepeatedTheorem == MemSpec => []PteNotRepeated
<1>1. MemInv => PteNotRepeated
  <2> SUFFICES ASSUME MemInv, ~ torn, NEW t \in Thread, local[t].pc = "padd"
               PROVE  pte[local[t].base + local[t].done] = -1
    BY DEF PteNotRepeated
  <2> DEFINE l == local[t]
  <2>1. Progress(t) /\ CallOK(t) /\ l \in Local
    BY DEF MemInv, HeapInv, BaseInv, BaseType
  <2>2. \A q \in Wanted(l) : pte[q] # -1 <=> q < l.base + l.done
    BY <2>1 DEF Progress
  <2>3. l.base \in VPage /\ l.done < l.n /\ l.done \in Nat /\ l.n \in Nat
    BY <2>1 DEF CallOK, Local
  <2> HIDE DEF l
  <2>4. l.base + l.done \in l.base..(l.base + l.n - 1) /\ ~ (l.base + l.done < l.base + l.done)
    BY <2>3, MemoryAssumption DEF VPage
  <2>5. pte[l.base + l.done] = -1
    BY <2>2, <2>4 DEF Wanted
  <2> QED BY <2>5 DEF l
<1> QED BY <1>1, MemInvariant, PTL
----------------------------------------------------------------------------
(* bitmap_scan answers the first run that fits.  The counter of its loop is   *)
(* a recursive function; what it computes is shown by looking at the first    *)
(* bit where it would be wrong.                                              *)

\* A set of numbers has a least one.
LEMMA LeastOf ==
    ASSUME NEW T \in SUBSET Nat, T # {}
    PROVE  \E m \in T : \A n \in T : m <= n
<1>1. PICK m \in T : \A n \in T : ~ (<<n, m>> \in OpToRel(<, Nat))
  BY NatLessThanWellFounded, WFMin
<1>2. \A n \in T : ~ (n < m)
  BY <1>1 DEF OpToRel
<1> QED BY <1>2

\* The equation of the loop's counter.
Counts(f, bits, start, size) ==
    f = [i \in (start - 1)..(size - 1) |-> IF i < start \/ i \in bits THEN 0 ELSE f[i - 1] + 1]

\* From i back there is a last bit that is set, or none from start on.
LEMMA LastSet ==
    ASSUME NEW bits, NEW start \in Nat, NEW i \in Int, i >= start - 1
    PROVE  \E k \in (start - 1)..i :
              /\ k >= start => k \in bits
              /\ \A j \in (k + 1)..i : j \notin bits
<1> DEFINE T == {n \in Nat : n <= i - (start - 1) /\ (i - n >= start => i - n \in bits)}
<1>1. i - (start - 1) \in T
  OBVIOUS
<1>2. T \in SUBSET Nat
  OBVIOUS
<1>3. PICK m \in T : \A n \in T : m <= n
  BY <1>1, <1>2, LeastOf
<1>4. \A j \in (i - m + 1)..i : j \notin bits
  <2> SUFFICES ASSUME NEW j \in (i - m + 1)..i, j \in bits PROVE FALSE
    OBVIOUS
  <2>1. i - j \in T
    OBVIOUS
  <2> QED BY <2>1, <1>3
<1> QED BY <1>3, <1>4

\* Some function satisfies the equation: the distance to that bit.
LEMMA CountExists ==
    ASSUME NEW bits, NEW start \in Nat, NEW size \in Nat
    PROVE  \E f : Counts(f, bits, start, size)
<1> DEFINE D == (start - 1)..(size - 1)
           IsLast(k, i) == k \in (start - 1)..i /\ (k >= start => k \in bits)
                                /\ \A j \in (k + 1)..i : j \notin bits
           L == [i \in D |-> CHOOSE k : IsLast(k, i)]
           g == [i \in D |-> i - L[i]]
<1>1. \A i \in D : IsLast(L[i], i)
  <2> SUFFICES ASSUME NEW i \in D PROVE IsLast(L[i], i)
    OBVIOUS
  <2>1. \E k : IsLast(k, i)
    <3>1. i \in Int /\ i >= start - 1
      OBVIOUS
    <3>2. PICK k \in (start - 1)..i : (k >= start => k \in bits) /\ \A j \in (k + 1)..i : j \notin bits
      BY <3>1, LastSet
    <3> QED BY <3>2
  <2>2. IsLast(CHOOSE k : IsLast(k, i), i)
    BY <2>1
  <2> QED BY <2>2
<1>2. \A i \in D : L[i] \in Int /\ L[i] <= i /\ L[i] >= start - 1
  BY <1>1
<1>3. \A i \in D : L[i] >= start => L[i] \in bits
  BY <1>1
<1>4. \A i \in D : \A j \in (L[i] + 1)..i : j \notin bits
  BY <1>1
<1>5. \A i \in D : g[i] = i - L[i]
  OBVIOUS
<1> HIDE DEF L
<1>6. \A i \in D : g[i] = IF i < start \/ i \in bits THEN 0 ELSE g[i - 1] + 1
  <2> SUFFICES ASSUME NEW i \in D
               PROVE  g[i] = IF i < start \/ i \in bits THEN 0 ELSE g[i - 1] + 1
    OBVIOUS
  <2>1. CASE i < start
    BY <2>1, <1>2, <1>5
  <2>2. CASE i >= start /\ i \in bits
    BY <2>2, <1>2, <1>4, <1>5
  <2>3. CASE i >= start /\ i \notin bits
    <3>1. i - 1 \in D
      BY <2>3
    <3>2. L[i] <= i - 1 /\ L[i] >= start - 1 /\ L[i] \in Int
      BY <2>3, <1>2, <1>3
    <3>3. L[i - 1] <= i - 1 /\ L[i - 1] >= start - 1 /\ L[i - 1] \in Int
      BY <3>1, <1>2
    <3>4. ~ L[i] < L[i - 1]
      BY <3>1, <3>2, <3>3, <1>3, <1>4
    <3>5. ~ L[i - 1] < L[i]
      BY <3>1, <3>2, <3>3, <1>3, <1>4
    <3>6. L[i - 1] = L[i]
      BY <3>2, <3>3, <3>4, <3>5
    <3> QED BY <3>1, <3>2, <3>6, <1>5, <2>3
  <2> QED BY <2>1, <2>2, <2>3
<1>7. g = [i \in D |-> IF i < start \/ i \in bits THEN 0 ELSE g[i - 1] + 1]
  BY <1>6
<1> QED BY <1>7 DEF Counts

\* The counter, as bitmap_scan_loop has it.
RunLength(bits, start, size) ==
    LET count[i \in (start - 1)..(size - 1)] ==
            IF i < start \/ i \in bits THEN 0 ELSE count[i - 1] + 1
    IN  count

\* It satisfies its equation.
LEMMA RunLengthDef ==
    ASSUME NEW bits, NEW start \in Nat, NEW size \in Nat
    PROVE  Counts(RunLength(bits, start, size), bits, start, size)
<1>1. RunLength(bits, start, size) = CHOOSE f : Counts(f, bits, start, size)
  BY DEF RunLength, Counts
<1> QED BY <1>1, CountExists

\* It is the length of the run of clear bits that ends at i.
LEMMA RunLengthIs ==
    ASSUME NEW bits, NEW start \in Nat, NEW size \in Nat,
           NEW i \in (start - 1)..(size - 1),
           NEW c, c = RunLength(bits, start, size)
    PROVE  /\ c[i] \in Nat /\ i - c[i] >= start - 1
           /\ i - c[i] >= start => i - c[i] \in bits
           /\ \A j \in (i - c[i] + 1)..i : j \notin bits
<1> DEFINE D == (start - 1)..(size - 1)
           Good(k) == /\ c[k] \in Nat /\ k - c[k] >= start - 1
                      /\ k - c[k] >= start => k - c[k] \in bits
                      /\ \A j \in (k - c[k] + 1)..k : j \notin bits
           T == {n \in Nat : n + start - 1 \in D /\ ~ Good(n + start - 1)}
<1>1. \A k \in D : c[k] = IF k < start \/ k \in bits THEN 0 ELSE c[k - 1] + 1
  BY RunLengthDef DEF Counts
<1>2. T = {}
  <2> SUFFICES ASSUME T # {} PROVE FALSE
    OBVIOUS
  <2>1. PICK m \in T : \A n \in T : m <= n
    BY LeastOf
  <2> DEFINE k == m + start - 1
  <2>2. k \in D /\ ~ Good(k)
    BY <2>1
  <2>3. c[k] = IF k < start \/ k \in bits THEN 0 ELSE c[k - 1] + 1
    BY <1>1, <2>2
  <2>4. CASE k < start
    <3>1. c[k] = 0 /\ k = start - 1
      BY <2>3, <2>4, <2>2
    <3>2. Good(k)
      BY <3>1
    <3> QED BY <3>2, <2>2
  <2>5. CASE k >= start /\ k \in bits
    <3>1. c[k] = 0
      BY <2>3, <2>5
    <3>2. Good(k)
      BY <3>1, <2>5
    <3> QED BY <3>2, <2>2
  <2>6. CASE k >= start /\ k \notin bits
    <3>1. m - 1 \in Nat /\ k - 1 \in D /\ k - 1 = (m - 1) + start - 1
      BY <2>6, <2>2
    <3>2. Good((m - 1) + start - 1)
      BY <3>1, <2>1
    <3>3. Good(k - 1)
      BY <3>1, <3>2
    <3>4. c[k] = c[k - 1] + 1 /\ c[k - 1] \in Nat
      BY <2>3, <2>6, <3>3
    <3>5. c[k] \in Nat /\ k - c[k] = k - 1 - c[k - 1]
      BY <3>4, <2>2
    <3>6. k - c[k] >= start - 1 /\ (k - c[k] >= start => k - c[k] \in bits)
      BY <3>5, <3>3
    <3>7. \A j \in (k - 1 - c[k - 1] + 1)..(k - 1) : j \notin bits
      BY <3>3
    <3>8. \A j \in (k - c[k] + 1)..k : j \notin bits
      BY <3>7, <3>5, <3>4, <2>6, <2>2
    <3>9. Good(k)
      BY <3>5, <3>6, <3>8
    <3> QED BY <3>9, <2>2
  <2> QED BY <2>2, <2>4, <2>5, <2>6
<1>3. i - start + 1 \in Nat /\ i = (i - start + 1) + start - 1
  OBVIOUS
<1>4. Good((i - start + 1) + start - 1)
  BY <1>2, <1>3
<1>5. Good(i)
  BY <1>3, <1>4
<1> QED BY <1>5

\* cnt clear bits from i on.
Clear(bits, cnt, size, i) == i + cnt <= size /\ \A j \in i..(i + cnt - 1) : j \notin bits

\* Where the counter reaches cnt, a run of cnt clear bits ends.
LEMMA FoundClear ==
    ASSUME NEW bits, NEW start \in Nat, NEW size \in Nat, NEW cnt \in Nat \ {0},
           NEW c, c = RunLength(bits, start, size),
           NEW e \in start..(size - 1), c[e] = cnt
    PROVE  e - cnt + 1 \in start..(size - 1) /\ Clear(bits, cnt, size, e - cnt + 1)
<1>1. e - cnt >= start - 1 /\ \A j \in (e - cnt + 1)..e : j \notin bits
  BY RunLengthIs
<1> QED BY <1>1 DEF Clear

\* Wherever there is such a run, the counter has reached cnt by its end.
LEMMA ClearFound ==
    ASSUME NEW bits, NEW start \in Nat, NEW size \in Nat, NEW cnt \in Nat \ {0},
           NEW c, c = RunLength(bits, start, size),
           NEW i \in Nat, i >= start, Clear(bits, cnt, size, i)
    PROVE  \E e \in start..(size - 1) : c[e] = cnt /\ e <= i + cnt - 1
<1>1. PICK e : e = i + cnt - 1
  OBVIOUS
<1>2. e \in start..(size - 1) /\ e \in (start - 1)..(size - 1) /\ \A j \in i..e : j \notin bits
  BY <1>1 DEF Clear
<1>3. PICK n : n = c[e]
  OBVIOUS
<1>4. /\ n \in Nat /\ e - n >= start - 1
      /\ e - n >= start => e - n \in bits
      /\ \A j \in (e - n + 1)..e : j \notin bits
  BY <1>2, <1>3, RunLengthIs
<1>5. n >= cnt
  BY <1>1, <1>2, <1>4
<1>6. PICK d : d = e - n + cnt
  OBVIOUS
<1>7. d \in start..(size - 1) /\ d \in (start - 1)..(size - 1) /\ d <= e
  BY <1>2, <1>4, <1>5, <1>6
<1>8. PICK k : k = c[d]
  OBVIOUS
<1>9. /\ k \in Nat /\ d - k >= start - 1
      /\ d - k >= start => d - k \in bits
      /\ \A j \in (d - k + 1)..d : j \notin bits
  BY <1>7, <1>8, RunLengthIs
<1>10. ~ k > cnt
  <2> SUFFICES ASSUME k > cnt PROVE FALSE
    OBVIOUS
  <2>1. e - n >= start - 1 /\ e - n \in (d - k + 1)..d
    BY <1>2, <1>4, <1>6, <1>7, <1>9
  <2>2. d - k < e - n
    BY <1>2, <1>4, <1>6, <1>7, <1>9
  <2>3. e - n \notin bits
    BY <1>9, <2>1
  <2> QED BY <1>2, <1>4, <1>7, <1>9, <2>1, <2>2, <2>3
<1>11. ~ k < cnt
  <2> SUFFICES ASSUME k < cnt PROVE FALSE
    OBVIOUS
  <2>1. d - k \in (e - n + 1)..e /\ d - k >= start
    BY <1>2, <1>4, <1>6, <1>7, <1>9
  <2> QED BY <1>4, <1>9, <2>1
<1>12. k = cnt
  BY <1>9, <1>10, <1>11
<1> QED BY <1>1, <1>7, <1>8, <1>12

\* Every bit is in a byte.
LEMMA ByteOf ==
    ASSUME NEW j \in Nat
    PROVE  j \div Byte \in Nat /\ j \in (Byte * (j \div Byte))..(Byte * (j \div Byte) + Byte - 1)
BY MemoryAssumption

LEMMA TimesMonotonic ==
    ASSUME NEW k \in Nat, NEW a \in Int, NEW b \in Int, a <= b
    PROVE  k * a <= k * b
OBVIOUS

\* The loop over the bytes stops at a byte with only set bits before it.
LEMMA NotFullLemma ==
    ASSUME NEW bits, NEW size \in Nat, size % Byte = 0
    PROVE  /\ NotFull(bits, size) \in 0..(size \div Byte)
           /\ 0..(Byte * NotFull(bits, size) - 1) \subseteq bits
<1> DEFINE Full(b) == (Byte * b)..(Byte * b + Byte - 1) \subseteq bits
           T == {b \in Nat : b <= size \div Byte /\ (b < size \div Byte => ~ Full(b))}
<1>0. Byte \in Nat \ {0} /\ size \div Byte \in Nat
  BY MemoryAssumption
<1>1. size \div Byte \in T
  BY <1>0
<1>2. PICK m \in T : \A n \in T : m <= n
  BY <1>1, LeastOf
<1>3. \A b \in 0..(m - 1) : Full(b)
  <2> SUFFICES ASSUME NEW b \in 0..(m - 1), ~ Full(b) PROVE FALSE
    OBVIOUS
  <2>1. b \in T
    BY <1>0, <1>2
  <2> QED BY <2>1, <1>2
<1>4. 0..(Byte * m - 1) \subseteq bits
  <2> SUFFICES ASSUME NEW j \in 0..(Byte * m - 1) PROVE j \in bits
    OBVIOUS
  <2>1. PICK q \in Nat : q = j \div Byte /\ j \in (Byte * q)..(Byte * q + Byte - 1)
    BY ByteOf
  <2>2. q < m
    <3> SUFFICES ASSUME m <= q PROVE FALSE
      BY <1>2, <2>1
    <3>1. Byte * m <= Byte * q
      BY <1>0, <1>2, <2>1, TimesMonotonic
    <3>2. Byte * m \in Int /\ Byte * q \in Int
      BY <1>0, <1>2, <2>1
    <3> QED BY <3>1, <3>2, <2>1
  <2>3. Full(q)
    BY <1>3, <2>1, <2>2
  <2> QED BY <2>1, <2>3
<1>5. /\ m < size \div Byte => ~ (Byte * m)..(Byte * m + Byte - 1) \subseteq bits
      /\ (0..(Byte * m - 1)) \subseteq bits
  BY <1>2, <1>4
<1>6. m \in 0..(size \div Byte)
  BY <1>0, <1>2
<1> QED BY <1>5, <1>6 DEF NotFull

\* bitmap_scan (bitmap.c:18), for every bitmap of whole bytes, whatever it is
\* used for: the loop answers what the search over all runs does; its answer is
\* the first run of cnt clear bits; and when it says -1 any such run begins in
\* the last cnt / 8 bytes.
THEOREM bitmap_scanTheorem ==
    ASSUME NEW bits, NEW size \in Nat, size % Byte = 0, NEW cnt \in Nat \ {0},
           NEW answer, answer = bitmap_scan_loop(bits, cnt, size)
    PROVE  /\ answer = bitmap_scan(bits, cnt, size)
           /\ answer # -1 => answer \in Nat /\ Clear(bits, cnt, size, answer)
                             /\ \A i \in 0..(answer - 1) : ~ Clear(bits, cnt, size, i)
           /\ answer = -1 => \A i \in 0..(size - 1) :
                                Clear(bits, cnt, size, i) => i >= size - Byte * (cnt \div Byte)
<1>1. PICK nf : nf = NotFull(bits, size)
  OBVIOUS
<1>2. /\ nf \in 0..(size \div Byte)
      /\ 0..(Byte * nf - 1) \subseteq bits
  BY <1>1, NotFullLemma
<1>3. Byte \in Nat \ {0} /\ size \div Byte \in Nat /\ cnt \div Byte \in Nat
  BY MemoryAssumption
<1>4. PICK start \in Nat : start = Byte * nf
  BY <1>2, <1>3
<1>5. 0..(start - 1) \subseteq bits
  BY <1>2, <1>4
<1>6. PICK c : c = RunLength(bits, start, size)
  OBVIOUS
<1> DEFINE found == {e \in start..(size - 1) : c[e] = cnt}
           fits == {i \in 0..(size - 1) : i + cnt <= size /\ \A j \in i..(i + cnt - 1) : j \notin bits}
<1>7. answer = IF GivesUp(bits, cnt, size) \/ found = {} THEN -1
               ELSE (CHOOSE e \in found : \A d \in found : e <= d) - cnt + 1
  BY <1>1, <1>4, <1>6 DEF bitmap_scan_loop, RunLength
<1>8. bitmap_scan(bits, cnt, size) =
          IF fits = {} \/ GivesUp(bits, cnt, size) THEN -1
          ELSE CHOOSE i \in fits : \A j \in fits : i <= j
  BY DEF bitmap_scan
<1>9. \A i \in 0..(size - 1) : i \in fits <=> Clear(bits, cnt, size, i)
  BY DEF Clear
<1>10. \A i \in Nat : Clear(bits, cnt, size, i) => i \in fits /\ i >= start
  <2> SUFFICES ASSUME NEW i \in Nat, Clear(bits, cnt, size, i) PROVE i \in fits /\ i >= start
    OBVIOUS
  <2>1. i \notin bits /\ i \in 0..(size - 1)
    BY DEF Clear
  <2> QED BY <2>1, <1>5, <1>9
<1>11. \A i \in fits : \E e \in found : e <= i + cnt - 1
  <2> SUFFICES ASSUME NEW i \in fits PROVE \E e \in found : e <= i + cnt - 1
    OBVIOUS
  <2>1. i \in Nat /\ Clear(bits, cnt, size, i) /\ i >= start
    BY <1>9, <1>10
  <2> QED BY <2>1, <1>6, ClearFound
<1>12. \A e \in found : e - cnt + 1 \in fits
  <2> SUFFICES ASSUME NEW e \in found PROVE e - cnt + 1 \in fits
    OBVIOUS
  <2>1. e - cnt + 1 \in start..(size - 1) /\ Clear(bits, cnt, size, e - cnt + 1)
    BY <1>6, FoundClear
  <2> QED BY <2>1, <1>9
<1>13. found \in SUBSET Nat /\ fits \in SUBSET Nat
  OBVIOUS
<1>14. found = {} <=> fits = {}
  BY <1>11, <1>12
<1> HIDE DEF found, fits
<1>15. CASE GivesUp(bits, cnt, size)
  <2>1. answer = -1 /\ bitmap_scan(bits, cnt, size) = -1
    BY <1>7, <1>8, <1>15
  <2>2. nf + cnt \div Byte >= size \div Byte
    BY <1>1, <1>15 DEF GivesUp
  <2>3. Byte * (size \div Byte) = size
    BY MemoryAssumption
  <2>4. Byte * (size \div Byte) <= Byte * (nf + cnt \div Byte)
    BY <1>2, <1>3, <2>2, TimesMonotonic
  <2>5. Byte * (nf + cnt \div Byte) = start + Byte * (cnt \div Byte)
    BY <1>2, <1>3, <1>4
  <2>6. Byte * (cnt \div Byte) \in Nat
    BY <1>3
  <2>7. start >= size - Byte * (cnt \div Byte)
    BY <2>3, <2>4, <2>5, <2>6
  <2>8. \A i \in 0..(size - 1) : Clear(bits, cnt, size, i) => i >= size - Byte * (cnt \div Byte)
    BY <1>10, <2>6, <2>7
  <2> QED BY <2>1, <2>8
<1>16. CASE ~ GivesUp(bits, cnt, size) /\ found = {}
  <2>1. answer = -1 /\ bitmap_scan(bits, cnt, size) = -1
    BY <1>7, <1>8, <1>14, <1>16
  <2> QED BY <2>1, <1>9, <1>14, <1>16
<1>17. CASE ~ GivesUp(bits, cnt, size) /\ found # {}
  <2>1. PICK e \in found : \A d \in found : e <= d
    BY <1>13, <1>17, LeastOf
  <2>2. (CHOOSE x \in found : \A d \in found : x <= d) = e
    <3>1. PICK x : x = CHOOSE y \in found : \A d \in found : y <= d
      OBVIOUS
    <3>2. x \in found /\ \A d \in found : x <= d
      BY <3>1, <2>1
    <3> QED BY <3>1, <3>2, <2>1, <1>13
  <2>3. answer = e - cnt + 1
    BY <1>7, <1>17, <2>2
  <2>4. answer \in fits /\ answer \in Nat
    BY <2>3, <1>12, <1>13
  <2>5. \A i \in fits : answer <= i
    <3> SUFFICES ASSUME NEW i \in fits PROVE answer <= i
      OBVIOUS
    <3>1. PICK d \in found : d <= i + cnt - 1
      BY <1>11
    <3> QED BY <3>1, <2>1, <2>3, <1>13
  <2>6. (CHOOSE i \in fits : \A j \in fits : i <= j) = answer
    <3>1. PICK x : x = CHOOSE i \in fits : \A j \in fits : i <= j
      OBVIOUS
    <3>2. x \in fits /\ \A j \in fits : x <= j
      BY <3>1, <2>4, <2>5
    <3> QED BY <3>1, <3>2, <2>4, <2>5, <1>13
  <2>7. answer = bitmap_scan(bits, cnt, size)
    BY <1>8, <1>14, <1>17, <2>6
  <2>8. Clear(bits, cnt, size, answer)
    BY <2>4, <1>9 DEF fits
  <2>9. \A i \in 0..(answer - 1) : ~ Clear(bits, cnt, size, i)
    BY <1>10, <2>4, <2>5
  <2> QED BY <2>4, <2>7, <2>8, <2>9
<1> QED BY <1>15, <1>16, <1>17

\* So it does for the bitmap of the heap's addresses.
LEMMA ScanRightLemma == ScanRight
<1>1. ASSUME NEW cnt \in 1..VPages, NEW answer, answer = bitmap_scan_loop(vbits, cnt, VPages)
      PROVE  /\ answer = bitmap_scan(vbits, cnt, VPages)
             /\ answer # -1 => Clear(vbits, cnt, VPages, answer)
             /\ answer # -1 => \A i \in 0..(answer - 1) : ~ Clear(vbits, cnt, VPages, i)
             /\ answer = -1 => \A i \in VPage : Clear(vbits, cnt, VPages, i) =>
                                   i >= VPages - Byte * (cnt \div Byte)
  <2>1. VPages \in Nat /\ VPages % Byte = 0 /\ cnt \in Nat \ {0}
    BY MemoryAssumption
  <2> QED BY <1>1, <2>1, bitmap_scanTheorem DEF VPage
<1> QED BY <1>1 DEF ScanRight, Clear

\* Whatever calls have left in the bitmap of the heap, bitmap_scan (bitmap.c:18)
\* answers the first run that fits, and misses one only where it gives up.
THEOREM ScanRightTheorem == MemSpec => []ScanRight
BY ScanRightLemma, PTL
=============================================================================
