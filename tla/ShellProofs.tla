---------------------------- MODULE ShellProofs ----------------------------
(***************************************************************************)
(* Proofs for Shell, for lines and paths of any length, any set of built-in *)
(* commands, any size of the buffer, of argv, of the hash table and of the  *)
(* pipe.                                                                    *)
(*                                                                         *)
(* First what the operators compute: the stretches of a string, and that    *)
(* cmd_parse finds them; clean paths, and that wash_path makes one that     *)
(* leads to the same place; the hash table; the commands of a line.  Then   *)
(* the invariants: the descriptors of the pipe, the line that is read and   *)
(* executed, and the working directory.                                     *)
(***************************************************************************)
EXTENDS Shell, FiniteSetTheorems, SequenceTheorems, WellFoundedInduction, TLAPS

\* A set of numbers has a least one.
LEMMA LeastIn ==
    ASSUME NEW T \in SUBSET Nat, T # {}
    PROVE  \E m \in T : \A n \in T : m <= n
<1>1. PICK m \in T : \A n \in T : ~ (<<n, m>> \in OpToRel(<, Nat))
  BY NatLessThanWellFounded, WFMin
<1>2. \A n \in T : ~ (n < m)
  BY <1>1 DEF OpToRel
<1> QED BY <1>2

LEMMA MinIs ==
    ASSUME NEW S \in SUBSET Nat, NEW m \in S, \A x \in S : m <= x
    PROVE  Min(S) = m
<1>1. \A x \in S : (\A y \in S : x <= y) => x = m
  OBVIOUS
<1> QED BY <1>1 DEF Min

LEMMA MaxIs ==
    ASSUME NEW S \in SUBSET Nat, NEW m \in S, \A x \in S : x <= m
    PROVE  Max(S) = m
<1>1. \A x \in S : (\A y \in S : x >= y) => x = m
  OBVIOUS
<1> QED BY <1>1 DEF Max

\* A loop of n steps on values of V has a value after each of them.
Steps(step, V, n) == step \in [V \X (1..n) -> V]
Loop(f, V, base, n, step) ==
    f \in [0..n -> V] /\ f[0] = base /\ \A k \in 1..n : f[k] = step[<<f[k - 1], k>>]

LEMMA LoopExists ==
    ASSUME NEW V, NEW base \in V, NEW n \in Nat, NEW step, Steps(step, V, n)
    PROVE  \E f : Loop(f, V, base, n, step)
<1> DEFINE OK(f, m) == /\ f \in [0..n -> V] /\ f[0] = base
                       /\ \A k \in 1..m : f[k] = step[<<f[k - 1], k>>]
           T == {m \in Nat : m <= n /\ ~ \E f : OK(f, m)}
<1>0. T \in SUBSET Nat /\ \A m \in Nat : m \in T <=> m <= n /\ ~ \E f : OK(f, m)
  OBVIOUS
<1> HIDE DEF T
<1>1. T = {}
  <2> SUFFICES ASSUME T # {} PROVE FALSE
    OBVIOUS
  <2>1. PICK m \in T : \A i \in T : m <= i
    BY <1>0, LeastIn
  <2>2. m \in Nat /\ m # 0 /\ m <= n
    <3>1. OK([k \in 0..n |-> base], 0)
      OBVIOUS
    <3> HIDE DEF OK
    <3> QED BY <3>1, <2>1, <1>0
  <2>3. m - 1 \in Nat /\ m - 1 <= n /\ m - 1 \notin T
    BY <1>0, <2>1, <2>2
  <2>4. PICK f : OK(f, m - 1)
    <3> HIDE DEF OK
    <3> QED BY <1>0, <2>3
  <2>5. f[m - 1] \in V /\ m \in 1..n
    BY <2>2, <2>4
  <2>6. PICK v \in V : v = step[<<f[m - 1], m>>]
    <3>1. step \in [V \X (1..n) -> V]
      BY DEF Steps
    <3> QED BY <2>5, <3>1
  <2>7. PICK g : g = [f EXCEPT ![m] = v]
    OBVIOUS
  <2>8. g \in [0..n -> V] /\ g[0] = base /\ g[m] = v /\ \A k \in 0..(m - 1) : g[k] = f[k]
    BY <2>4, <2>5, <2>7
  <2>9. \A k \in 1..m : g[k] = step[<<g[k - 1], k>>]
    <3> SUFFICES ASSUME NEW k \in 1..m PROVE g[k] = step[<<g[k - 1], k>>]
      OBVIOUS
    <3>1. CASE k = m
      <4>1. g[k] = v /\ g[m - 1] = f[m - 1]
        BY <3>1, <2>5, <2>8
      <4> QED BY <4>1, <3>1, <2>6
    <3>2. CASE k # m
      <4>1. k \in 1..(m - 1) /\ k - 1 \in 0..(m - 1)
        BY <3>2, <2>2
      <4>2. g[k] = f[k] /\ g[k - 1] = f[k - 1]
        BY <4>1, <2>8
      <4>3. f[k] = step[<<f[k - 1], k>>]
        BY <4>1, <2>4
      <4> QED BY <4>2, <4>3
    <3> QED BY <3>1, <3>2
  <2>10. OK(g, m)
    BY <2>8, <2>9
  <2> HIDE DEF OK
  <2> QED BY <2>10, <2>1, <2>2, <1>0
<1>2. PICK f : OK(f, n)
  <2> HIDE DEF OK
  <2> QED BY <1>0, <1>1
<1>3. Loop(f, V, base, n, step)
  BY <1>2 DEF Loop
<1> QED BY <1>3

\* Two loops that begin with the same value and agree on every step.
SameSteps(f, g, n) == f[0] = g[0] /\ \A k \in 1..n : f[k - 1] = g[k - 1] => f[k] = g[k]
SameValues(f, g, n) == \A k \in 0..n : f[k] = g[k]

LEMMA LoopSame ==
    ASSUME NEW n \in Nat, NEW f, NEW g, SameSteps(f, g, n)
    PROVE  SameValues(f, g, n)
<1> SUFFICES ASSUME NEW i \in 0..n, f[i] # g[i] PROVE FALSE
  BY DEF SameValues
<1>1. PICK T : T = {k \in Nat : k <= n /\ f[k] # g[k]}
  OBVIOUS
<1>2. T \in SUBSET Nat /\ i \in T
  BY <1>1
<1>3. PICK m \in T : \A k \in T : m <= k
  BY <1>2, LeastIn
<1>4. m \in 1..n /\ f[m] # g[m]
  BY <1>1, <1>3 DEF SameSteps
<1>5. m - 1 \notin T
  BY <1>3, <1>4
<1>6. f[m - 1] = g[m - 1]
  BY <1>1, <1>4, <1>5
<1> QED BY <1>4, <1>6 DEF SameSteps

LEMMA LoopUnique ==
    ASSUME NEW n \in Nat, NEW f, NEW g, f[0] = g[0],
           \A k \in 1..n : f[k - 1] = g[k - 1] => f[k] = g[k]
    PROVE  \A k \in 0..n : f[k] = g[k]
<1>1. SameSteps(f, g, n)
  BY DEF SameSteps
<1>2. SameValues(f, g, n)
  BY <1>1, LoopSame
<1> QED BY <1>2 DEF SameValues

----------------------------------------------------------------------------
(* Strings.                                                                 *)

Text == Seq(Char)

LEMMA CharLemma == BS \notin Char /\ CtrlU \notin Char /\ NUL \notin Char /\ Char \subseteq Key
BY CharAssumption DEF Char, Blank, Key, BS, CtrlU, NUL

LEMMA SameText ==
    ASSUME NEW s \in Text, NEW t \in Text, Len(s) = Len(t), \A i \in 1..Len(s) : s[i] = t[i]
    PROVE  s = t
BY DEF Text

\* From, inside a string and behind its end.
LEMMA FromIn ==
    ASSUME NEW s \in Text, NEW i \in 1..(Len(s) + 1), NEW t, t = From(s, i)
    PROVE  /\ t \in Text /\ Len(t) \in Nat /\ Len(t) = Len(s) - i + 1
           /\ \A j \in 1..(Len(s) - i + 1) : t[j] = s[i + j - 1]
<1>1. Len(s) \in Nat
  BY DEF Text
<1> QED BY <1>1 DEF From, Text

LEMMA FromOut ==
    ASSUME NEW s \in Text, NEW i \in Nat, i > Len(s)
    PROVE  From(s, i) = <<>>
<1>1. Len(s) \in Nat
  BY DEF Text
<1> QED BY <1>1 DEF From, Text

LEMMA FromFrom ==
    ASSUME NEW s \in Text, NEW i \in Nat \ {0}, NEW j \in Nat \ {0}
    PROVE  From(From(s, i), j) = From(s, i + j - 1)
<1>0. Len(s) \in Nat /\ <<>> \in Text /\ Len(<<>>) = 0 /\ i + j - 1 \in Nat
  BY DEF Text
<1>1. CASE i > Len(s)
  <2>1. From(s, i) = <<>>
    BY <1>1, FromOut
  <2>2. i + j - 1 > Len(s)
    BY <1>1, <1>0
  <2>3. From(s, i + j - 1) = <<>>
    BY <1>0, <2>2, FromOut
  <2>4. From(<<>>, j) = <<>>
    BY <1>0, FromOut
  <2> QED BY <2>1, <2>3, <2>4
<1>2. CASE i <= Len(s)
  <2>0. PICK t : t = From(s, i)
    OBVIOUS
  <2>1. t \in Text /\ Len(t) \in Nat /\ Len(t) = Len(s) - i + 1
        /\ \A k \in 1..(Len(s) - i + 1) : t[k] = s[i + k - 1]
    BY <1>0, <1>2, <2>0, FromIn
  <2>2. PICK u : u = From(s, i + j - 1)
    OBVIOUS
  <2>3. PICK w : w = From(t, j)
    OBVIOUS
  <2>5. CASE j > Len(t)
    <3>1. w = <<>>
      BY <2>1, <2>3, <2>5, FromOut
    <3>2. i + j - 1 > Len(s)
      BY <1>0, <2>1, <2>5
    <3>3. u = <<>>
      BY <1>0, <2>2, <3>2, FromOut
    <3> QED BY <2>0, <2>2, <2>3, <3>1, <3>3
  <2>6. CASE j <= Len(t)
    <3>0. j \in 1..(Len(t) + 1)
      BY <2>1, <2>6
    <3>1. w \in Text /\ Len(w) = Len(t) - j + 1 /\ \A k \in 1..(Len(t) - j + 1) : w[k] = t[j + k - 1]
      BY <2>1, <2>3, <3>0, FromIn
    <3>2. i + j - 1 \in 1..(Len(s) + 1)
      BY <1>0, <2>1, <2>6
    <3>3. u \in Text /\ Len(u) = Len(s) - (i + j - 1) + 1
          /\ \A k \in 1..(Len(s) - (i + j - 1) + 1) : u[k] = s[i + j - 1 + k - 1]
      BY <2>2, <3>2, FromIn
    <3>4. Len(u) = Len(w)
      BY <1>0, <2>1, <3>1, <3>3
    <3>5. \A k \in 1..Len(w) : w[k] = u[k]
      BY <1>0, <2>1, <2>6, <3>1, <3>3
    <3>6. w = u
      BY <3>1, <3>3, <3>4, <3>5 DEF Text
    <3> QED BY <2>0, <2>2, <2>3, <3>6
  <2> QED BY <1>0, <2>1, <2>5, <2>6
<1> QED BY <1>0, <1>1, <1>2

\* Span finds the longest prefix.
LEMMA SpanLemma ==
    ASSUME NEW s \in Text, NEW S
    PROVE  /\ Span(s, S) \in 0..Len(s)
           /\ \A i \in 1..Span(s, S) : s[i] \in S
           /\ Span(s, S) = Len(s) \/ s[Span(s, S) + 1] \notin S
<1> DEFINE T == {n \in Nat : n <= Len(s) /\ (n = Len(s) \/ s[n + 1] \notin S)}
<1>1. Len(s) \in T
  BY DEF Text
<1>2. PICK n \in T : \A m \in T : n <= m
  BY <1>1, LeastIn
<1>3. \A i \in 1..n : s[i] \in S
  <2> SUFFICES ASSUME NEW i \in 1..n, s[i] \notin S PROVE FALSE
    OBVIOUS
  <2>1. i - 1 \in T
    BY <1>2
  <2> QED BY <2>1, <1>2
<1>4. n \in 0..Len(s)
  BY <1>2
<1>5. n \in 0..Len(s) /\ (\A i \in 1..n : s[i] \in S) /\ (n = Len(s) \/ s[n + 1] \notin S)
  BY <1>2, <1>3, <1>4
<1> HIDE DEF T
<1> QED BY <1>5 DEF Span

LEMMA SpanIs ==
    ASSUME NEW s \in Text, NEW S, NEW n \in 0..Len(s),
           \A i \in 1..n : s[i] \in S,
           n = Len(s) \/ s[n + 1] \notin S
    PROVE  Span(s, S) = n
<1>1. PICK m : m = Span(s, S)
  OBVIOUS
<1>2. m \in 0..Len(s) /\ (\A i \in 1..m : s[i] \in S) /\ (m = Len(s) \/ s[m + 1] \notin S)
  BY <1>1, SpanLemma
<1>3. ~ m < n /\ ~ n < m
  BY <1>2
<1> QED BY <1>1, <1>2, <1>3

----------------------------------------------------------------------------
(* The stretches of a string between separators: the k-th goes from p[k] to  *)
(* q[k].  Marks says so for the first m characters.                         *)

Marks(s, m, sep, n, p, q) ==
    /\ n \in Nat /\ p \in [Nat -> Nat] /\ q \in [Nat -> Nat]
    /\ \A k \in 1..n : p[k] \in 1..m /\ q[k] \in p[k]..m
    /\ \A k \in 1..n : \A j \in p[k]..q[k] : s[j] # sep
    /\ \A k \in 1..n : q[k] = m \/ s[q[k] + 1] = sep
    /\ \A k \in 1..n : p[k] = 1 \/ s[p[k] - 1] = sep
    /\ \A k, l \in 1..n : k < l => q[k] < p[l]
    /\ \A i \in 1..m : s[i] # sep => \E k \in 1..n : i \in p[k]..q[k]

LEMMA MarksStep ==
    ASSUME NEW s, NEW m \in Nat, NEW sep, NEW n, NEW p, NEW q, Marks(s, m, sep, n, p, q)
    PROVE  \E n1, p1, q1 : Marks(s, m + 1, sep, n1, p1, q1)
<1>0. n \in Nat /\ p \in [Nat -> Nat] /\ q \in [Nat -> Nat]
  BY DEF Marks
<1>1. \A k \in 1..n : p[k] \in 1..m /\ q[k] \in p[k]..m /\ p[k] \in Nat /\ q[k] \in Nat
  BY DEF Marks
<1>2. \A k \in 1..n : \A j \in p[k]..q[k] : s[j] # sep
  BY DEF Marks
<1>3. \A k \in 1..n : q[k] = m \/ s[q[k] + 1] = sep
  BY DEF Marks
<1>4. \A k \in 1..n : p[k] = 1 \/ s[p[k] - 1] = sep
  BY DEF Marks
<1>5. \A k, l \in 1..n : k < l => q[k] < p[l]
  BY DEF Marks
<1>6. \A i \in 1..m : s[i] # sep => \E k \in 1..n : i \in p[k]..q[k]
  BY DEF Marks
<1>7. CASE s[m + 1] = sep
  <2>1. \A k \in 1..n : p[k] \in 1..(m + 1) /\ q[k] \in p[k]..(m + 1)
    BY <1>1
  <2>2. \A k \in 1..n : q[k] = m + 1 \/ s[q[k] + 1] = sep
    BY <1>3, <1>7
  <2>3. \A i \in 1..(m + 1) : s[i] # sep => \E k \in 1..n : i \in p[k]..q[k]
    <3> SUFFICES ASSUME NEW i \in 1..(m + 1), s[i] # sep PROVE i \in 1..m
      BY <1>6
    <3> QED BY <1>7
  <2>4. Marks(s, m + 1, sep, n, p, q)
    BY <1>0, <1>2, <1>4, <1>5, <2>1, <2>2, <2>3 DEF Marks
  <2> QED BY <2>4
<1>8. CASE s[m + 1] # sep /\ (m = 0 \/ s[m] = sep)
  <2>1. PICK p1 : p1 = [p EXCEPT ![n + 1] = m + 1]
    OBVIOUS
  <2>2. PICK q1 : q1 = [q EXCEPT ![n + 1] = m + 1]
    OBVIOUS
  <2>3. p1 \in [Nat -> Nat] /\ q1 \in [Nat -> Nat] /\ n + 1 \in Nat
        /\ p1[n + 1] = m + 1 /\ q1[n + 1] = m + 1
    BY <1>0, <2>1, <2>2
  <2>4. \A k \in 1..n : p1[k] = p[k] /\ q1[k] = q[k]
    BY <1>0, <2>1, <2>2
  <2>5. \A k \in 1..(n + 1) : k \in 1..n \/ k = n + 1
    BY <1>0
  <2>6. \A k \in 1..n : q[k] < m
    BY <1>1, <1>2, <1>8
  <2>7. \A k \in 1..(n + 1) : p1[k] \in 1..(m + 1) /\ q1[k] \in p1[k]..(m + 1)
    BY <2>3, <2>4, <2>5, <1>1
  <2>8. \A k \in 1..(n + 1) : \A j \in p1[k]..q1[k] : s[j] # sep
    BY <2>3, <2>4, <2>5, <1>2, <1>8
  <2>9. \A k \in 1..(n + 1) : q1[k] = m + 1 \/ s[q1[k] + 1] = sep
    <3>1. \A k \in 1..n : s[q[k] + 1] = sep
      BY <2>6, <1>1, <1>3
    <3> QED BY <3>1, <2>3, <2>4, <2>5
  <2>10. \A k \in 1..(n + 1) : p1[k] = 1 \/ s[p1[k] - 1] = sep
    BY <2>3, <2>4, <2>5, <1>1, <1>4, <1>8
  <2>11. \A k, l \in 1..(n + 1) : k < l => q1[k] < p1[l]
    <3> SUFFICES ASSUME NEW k \in 1..(n + 1), NEW l \in 1..(n + 1), k < l PROVE q1[k] < p1[l]
      OBVIOUS
    <3>1. k \in 1..n /\ q1[k] = q[k] /\ q[k] < m /\ q[k] \in Nat
      BY <1>0, <1>1, <2>4, <2>6
    <3>2. CASE l = n + 1
      BY <3>1, <3>2, <2>3
    <3>3. CASE l \in 1..n
      BY <3>1, <3>3, <2>4, <1>5
    <3> QED BY <3>2, <3>3, <2>5
  <2>12. \A i \in 1..(m + 1) : s[i] # sep => \E k \in 1..(n + 1) : i \in p1[k]..q1[k]
    <3> SUFFICES ASSUME NEW i \in 1..(m + 1), s[i] # sep
                 PROVE  \E k \in 1..(n + 1) : i \in p1[k]..q1[k]
      OBVIOUS
    <3>1. CASE i = m + 1
      <4>1. n + 1 \in 1..(n + 1) /\ i \in p1[n + 1]..q1[n + 1]
        BY <3>1, <2>3, <1>0
      <4> QED BY <4>1
    <3>2. CASE i \in 1..m
      <4>1. PICK k \in 1..n : i \in p[k]..q[k]
        BY <3>2, <1>6
      <4>2. k \in 1..(n + 1) /\ i \in p1[k]..q1[k]
        BY <4>1, <2>4, <1>0
      <4> QED BY <4>2
    <3> QED BY <3>1, <3>2
  <2>13. Marks(s, m + 1, sep, n + 1, p1, q1)
    BY <2>3, <2>7, <2>8, <2>9, <2>10, <2>11, <2>12 DEF Marks
  <2> QED BY <2>13
<1>9. CASE s[m + 1] # sep /\ m # 0 /\ s[m] # sep
  <2>1. PICK c \in 1..n : m \in p[c]..q[c]
    BY <1>6, <1>9
  <2>2. q[c] = m /\ p[c] <= m /\ c \in Nat
    BY <2>1, <1>1, <1>0
  <2>3. PICK q1 : q1 = [q EXCEPT ![c] = m + 1]
    OBVIOUS
  <2>4. q1 \in [Nat -> Nat] /\ q1[c] = m + 1 /\ \A k \in 1..n : k # c => q1[k] = q[k]
    BY <1>0, <2>2, <2>3
  <2>5. \A k \in 1..n : k # c => k < c
    BY <1>0, <1>1, <1>5, <2>2
  <2>6. \A k \in 1..n : k # c => q[k] < m
    BY <1>0, <1>1, <1>5, <2>2, <2>5
  <2>7. \A k \in 1..n : p[k] \in 1..(m + 1) /\ q1[k] \in p[k]..(m + 1)
    BY <1>1, <2>2, <2>4
  <2>8. \A k \in 1..n : \A j \in p[k]..q1[k] : s[j] # sep
    <3> SUFFICES ASSUME NEW k \in 1..n, NEW j \in p[k]..q1[k] PROVE s[j] # sep
      OBVIOUS
    <3>1. CASE k # c
      BY <3>1, <2>4, <1>2
    <3>2. CASE k = c /\ j = m + 1
      BY <3>2, <1>9
    <3>3. CASE k = c /\ j # m + 1
      <4>1. j \in p[c]..q[c]
        BY <3>3, <2>2, <2>4, <1>1
      <4> QED BY <4>1, <1>2
    <3> QED BY <3>1, <3>2, <3>3
  <2>9. \A k \in 1..n : q1[k] = m + 1 \/ s[q1[k] + 1] = sep
    <3>1. \A k \in 1..n : k # c => s[q[k] + 1] = sep
      BY <2>6, <1>1, <1>3
    <3> QED BY <3>1, <2>4
  <2>10. \A k, l \in 1..n : k < l => q1[k] < p[l]
    <3> SUFFICES ASSUME NEW k \in 1..n, NEW l \in 1..n, k < l PROVE q1[k] < p[l]
      OBVIOUS
    <3>1. k # c
      BY <2>5, <2>2
    <3> QED BY <3>1, <2>4, <1>5
  <2>11. \A i \in 1..(m + 1) : s[i] # sep => \E k \in 1..n : i \in p[k]..q1[k]
    <3> SUFFICES ASSUME NEW i \in 1..(m + 1), s[i] # sep
                 PROVE  \E k \in 1..n : i \in p[k]..q1[k]
      OBVIOUS
    <3>1. CASE i = m + 1
      <4>1. i \in p[c]..q1[c]
        BY <3>1, <2>2, <2>4, <1>1
      <4> QED BY <4>1
    <3>2. CASE i \in 1..m
      <4>1. PICK k \in 1..n : i \in p[k]..q[k]
        BY <3>2, <1>6
      <4>2. i \in p[k]..q1[k]
        BY <4>1, <2>2, <2>4, <1>1, <3>2
      <4> QED BY <4>2
    <3> QED BY <3>1, <3>2
  <2>12. Marks(s, m + 1, sep, n, p, q1)
    BY <1>0, <1>4, <2>4, <2>7, <2>8, <2>9, <2>10, <2>11 DEF Marks
  <2> QED BY <2>12
<1> QED BY <1>7, <1>8, <1>9

\* Every string has its marks, and the words are the stretches they mark.
LEMMA MarksExist ==
    ASSUME NEW s, NEW sep, NEW m \in Nat
    PROVE  \E n, p, q : Marks(s, m, sep, n, p, q)
<1> DEFINE T == {i \in Nat : ~ \E n, p, q : Marks(s, i, sep, n, p, q)}
<1>1. T \in SUBSET Nat /\ \A i \in Nat : i \in T <=> ~ \E n, p, q : Marks(s, i, sep, n, p, q)
  OBVIOUS
<1> HIDE DEF T
<1>2. T = {}
  <2> SUFFICES ASSUME T # {} PROVE FALSE
    OBVIOUS
  <2>1. PICK i \in T : \A j \in T : i <= j
    BY <1>1, LeastIn
  <2>2. i # 0
    <3>1. PICK z : z = [k \in Nat |-> 0]
      OBVIOUS
    <3>2. Marks(s, 0, sep, 0, z, z)
      BY <3>1 DEF Marks
    <3> QED BY <3>2, <2>1, <1>1
  <2>3. i - 1 \in Nat /\ i - 1 \notin T
    BY <1>1, <2>1, <2>2
  <2>4. PICK n, p, q : Marks(s, i - 1, sep, n, p, q)
    BY <2>3, <1>1
  <2>5. \E n1, p1, q1 : Marks(s, (i - 1) + 1, sep, n1, p1, q1)
    BY <2>3, <2>4, MarksStep
  <2>6. (i - 1) + 1 = i
    BY <1>1, <2>1
  <2> QED BY <2>1, <2>5, <2>6, <1>1
<1> QED BY <1>1, <1>2

LEMMA CountImage ==
    ASSUME NEW n \in Nat, NEW p \in [Nat -> Nat], \A k, l \in 1..n : k < l => p[k] < p[l]
    PROVE  IsFiniteSet({p[k] : k \in 1..n}) /\ Cardinality({p[k] : k \in 1..n}) = n
<1> DEFINE S == {p[k] : k \in 1..n}
           f == [k \in 1..n |-> p[k]]
<1>1. \A k, l \in 1..n : p[k] = p[l] => k = l
  <2> SUFFICES ASSUME NEW k \in 1..n, NEW l \in 1..n, p[k] = p[l] PROVE k = l
    OBVIOUS
  <2>1. p[k] \in Nat /\ p[l] \in Nat /\ ~ k < l /\ ~ l < k
    OBVIOUS
  <2> QED BY <2>1
<1>2. f \in [1..n -> S] /\ (\A k, l \in 1..n : f[k] = f[l] => k = l)
      /\ (\A x \in S : \E k \in 1..n : f[k] = x)
  BY <1>1
<1>3. f \in Bijection(1..n, S)
  BY <1>2 DEF Bijection, Injection, Surjection, IsInjective
<1>4. ExistsBijection(1..n, S)
  BY <1>3 DEF ExistsBijection
<1>5. IsFiniteSet(1..n) /\ Cardinality(1..n) = n
  BY FS_Interval
<1> QED BY <1>4, <1>5, FS_Bijection

Parts(s, n, p, q) == [k \in 1..n |-> SubSeq(s, p[k], q[k])]

LEMMA MarksWords ==
    ASSUME NEW s \in Text, NEW sep, NEW n, NEW p, NEW q, Marks(s, Len(s), sep, n, p, q)
    PROVE  Words(s, sep) = Parts(s, n, p, q) /\ n <= Len(s)
<1> DEFINE S == Starts(s, sep)
<1>0. n \in Nat /\ p \in [Nat -> Nat] /\ q \in [Nat -> Nat] /\ Len(s) \in Nat
  <2>1. n \in Nat /\ p \in [Nat -> Nat] /\ q \in [Nat -> Nat]
    BY DEF Marks
  <2>2. Len(s) \in Nat
    BY DEF Text
  <2> QED BY <2>1, <2>2
<1>1. \A k \in 1..n : p[k] \in 1..Len(s) /\ q[k] \in p[k]..Len(s) /\ p[k] \in Nat /\ q[k] \in Nat
  BY DEF Marks
<1>2. \A k \in 1..n : \A j \in p[k]..q[k] : s[j] # sep
  BY DEF Marks
<1>3. \A k \in 1..n : q[k] = Len(s) \/ s[q[k] + 1] = sep
  BY DEF Marks
<1>4. \A k \in 1..n : p[k] = 1 \/ s[p[k] - 1] = sep
  BY DEF Marks
<1>5. \A k, l \in 1..n : k < l => p[k] < p[l]
  <2>1. \A k, l \in 1..n : k < l => q[k] < p[l]
    BY DEF Marks
  <2> QED BY <1>1, <2>1
<1>6. \A i \in 1..Len(s) : s[i] # sep => \E k \in 1..n : i \in p[k]..q[k]
  BY DEF Marks
<1>7. S = {p[k] : k \in 1..n}
  <2>1. ASSUME NEW k \in 1..n PROVE p[k] \in S
    <3>1. p[k] \in p[k]..q[k]
      BY <1>1
    <3>2. s[p[k]] # sep
      BY <3>1, <1>2
    <3> QED BY <3>2, <1>1, <1>4 DEF Starts
  <2>2. ASSUME NEW i \in S PROVE \E k \in 1..n : i = p[k]
    <3>1. i \in 1..Len(s) /\ s[i] # sep /\ (i = 1 \/ s[i - 1] = sep)
      BY DEF Starts
    <3>2. PICK k \in 1..n : i \in p[k]..q[k]
      BY <3>1, <1>6
    <3>3. ~ p[k] < i
      <4> SUFFICES ASSUME p[k] < i PROVE FALSE
        OBVIOUS
      <4>1. i - 1 \in p[k]..q[k] /\ i # 1
        BY <3>2, <1>1
      <4> QED BY <4>1, <3>1, <1>2
    <3> QED BY <3>2, <3>3, <1>1
  <2> QED BY <2>1, <2>2
<1>8. IsFiniteSet(S) /\ Cardinality(S) = n
  BY <1>0, <1>5, <1>7, CountImage
<1>9. \A k \in 1..n : Cardinality({j \in S : j <= p[k]}) = k
  <2> SUFFICES ASSUME NEW k \in 1..n PROVE Cardinality({j \in S : j <= p[k]}) = k
    OBVIOUS
  <2>1. k \in Nat /\ \A i, l \in 1..k : i < l => p[i] < p[l]
    BY <1>0, <1>5
  <2>2. {j \in S : j <= p[k]} = {p[l] : l \in 1..k}
    <3>1. \A l \in 1..k : l \in 1..n /\ p[l] <= p[k]
      <4> SUFFICES ASSUME NEW l \in 1..k PROVE l \in 1..n /\ p[l] <= p[k]
        OBVIOUS
      <4>0. n \in Nat
        BY <1>0
      <4>1. l \in 1..n /\ (l = k \/ l < k)
        BY <4>0
      <4>2. p[l] \in Nat /\ p[k] \in Nat
        BY <4>1, <1>1
      <4> QED BY <4>1, <4>2, <1>5
    <3>2. \A l \in 1..n : p[l] <= p[k] => l \in 1..k
      BY <1>0, <1>1, <1>5
    <3> HIDE DEF S
    <3> QED BY <3>1, <3>2, <1>7
  <2>3. Cardinality({p[l] : l \in 1..k}) = k
    BY <2>1, <1>0, CountImage
  <2> QED BY <2>2, <2>3
<1>10. \A k \in 1..n : Nth(S, k) = p[k]
  <2> SUFFICES ASSUME NEW k \in 1..n PROVE Nth(S, k) = p[k]
    OBVIOUS
  <2>1. p[k] \in S
    BY <1>7
  <2>2. \A i \in S : Cardinality({j \in S : j <= i}) = k => i = p[k]
    BY <1>7, <1>9
  <2> HIDE DEF S
  <2> QED BY <1>9, <2>1, <2>2 DEF Nth
<1>11. \A k \in 1..n : Stretch(s, sep, p[k]) = SubSeq(s, p[k], q[k])
  <2> SUFFICES ASSUME NEW k \in 1..n PROVE Stretch(s, sep, p[k]) = SubSeq(s, p[k], q[k])
    OBVIOUS
  <2> DEFINE Ends(e) == (\A j \in p[k]..e : s[j] # sep) /\ (e = Len(s) \/ s[e + 1] = sep)
  <2>1. q[k] \in p[k]..Len(s) /\ Ends(q[k])
    BY <1>1, <1>2, <1>3
  <2>2. \A e \in p[k]..Len(s) : Ends(e) => e = q[k]
    <3> SUFFICES ASSUME NEW e \in p[k]..Len(s), Ends(e) PROVE ~ e < q[k] /\ ~ q[k] < e
      BY <1>1
    <3>1. ~ e < q[k]
      <4> SUFFICES ASSUME e < q[k] PROVE FALSE
        OBVIOUS
      <4>1. e + 1 \in p[k]..q[k] /\ e # Len(s)
        BY <1>1
      <4> QED BY <4>1, <1>2
    <3>2. ~ q[k] < e
      <4> SUFFICES ASSUME q[k] < e PROVE FALSE
        OBVIOUS
      <4>1. q[k] + 1 \in p[k]..e /\ q[k] # Len(s)
        BY <1>1
      <4> QED BY <4>1, <2>1
    <3> QED BY <3>1, <3>2
  <2>3. (CHOOSE e \in p[k]..Len(s) : Ends(e)) = q[k]
    <3> HIDE DEF Ends
    <3> QED BY <2>1, <2>2
  <2> QED BY <2>3 DEF Stretch
<1>12. Words(s, sep) = [k \in 1..n |-> Stretch(s, sep, Nth(S, k))]
  BY <1>8 DEF Words
<1>13. n <= Len(s)
  <2>1. S \subseteq 1..Len(s)
    BY DEF Starts
  <2>2. IsFiniteSet(1..Len(s)) /\ Cardinality(1..Len(s)) = Len(s)
    <3>1. PICK m \in Nat : m = Len(s)
      BY <1>0
    <3>2. IsFiniteSet(1..m) /\ Cardinality(1..m) = m
      BY FS_Interval
    <3> QED BY <3>1, <3>2
  <2> HIDE DEF S
  <2> QED BY <2>1, <2>2, <1>8, FS_Subset
<1> HIDE DEF S
<1> QED BY <1>10, <1>11, <1>12, <1>13 DEF Parts

\* Reading from a place between two stretches to the next of them.
Skip(t, sep) == From(t, Span(t, {sep}) + 1)
NextStretch(s, k, n, p) == IF k < n THEN From(s, p[k + 1]) ELSE <<>>

LEMMA SkipTo ==
    ASSUME NEW s \in Text, NEW sep, NEW i \in 1..(Len(s) + 1), NEW c \in i..(Len(s) + 1),
           \A j \in i..(c - 1) : s[j] = sep, c = Len(s) + 1 \/ s[c] # sep
    PROVE  Skip(From(s, i), sep) = From(s, c)
<1>0. Len(s) \in Nat
  BY DEF Text
<1>1. PICK t : t = From(s, i)
  OBVIOUS
<1>2. t \in Text /\ Len(t) = Len(s) - i + 1 /\ \A j \in 1..(Len(s) - i + 1) : t[j] = s[i + j - 1]
  BY <1>1, FromIn
<1>3. c - i \in 0..Len(t)
  BY <1>0, <1>2
<1>4. \A j \in 1..(c - i) : t[j] \in {sep}
  BY <1>0, <1>2
<1>5. c - i = Len(t) \/ t[c - i + 1] \notin {sep}
  <2>1. CASE c = Len(s) + 1
    BY <2>1, <1>0, <1>2
  <2>2. CASE c # Len(s) + 1
    <3>1. c - i + 1 \in 1..(Len(s) - i + 1) /\ i + (c - i + 1) - 1 = c
      BY <2>2, <1>0
    <3>2. t[c - i + 1] = s[c]
      BY <3>1, <1>2
    <3> QED BY <2>2, <3>2
  <2> QED BY <2>1, <2>2
<1>6. Span(t, {sep}) = c - i
  BY <1>2, <1>3, <1>4, <1>5, SpanIs
<1>7. From(From(s, i), c - i + 1) = From(s, i + (c - i + 1) - 1)
  <2>1. i \in Nat \ {0} /\ c - i + 1 \in Nat \ {0}
    BY <1>0
  <2> QED BY <2>1, FromFrom
<1>8. i + (c - i + 1) - 1 = c
  BY <1>0
<1> QED BY <1>1, <1>6, <1>7, <1>8 DEF Skip

\* One stretch goes from a to b.
StretchFrom(s, sep, a, b) ==
    /\ a \in 1..Len(s) /\ b \in a..Len(s)
    /\ \A j \in a..b : s[j] # sep
    /\ b = Len(s) \/ s[b + 1] = sep

LEMMA StretchAt ==
    ASSUME NEW s \in Text, NEW sep, NEW a \in Nat, NEW b \in Nat, StretchFrom(s, sep, a, b)
    PROVE  /\ Span(From(s, a), Key \ {sep}) = b - a + 1
           /\ SubSeq(From(s, a), 1, b - a + 1) = SubSeq(s, a, b)
<1>t. PICK t : t = From(s, a)
  OBVIOUS
<1>s. /\ a \in 1..Len(s) /\ b \in a..Len(s) /\ (\A j \in a..b : s[j] # sep)
      /\ (b = Len(s) \/ s[b + 1] = sep)
  BY DEF StretchFrom
<1>0. Len(s) \in Nat /\ \A j \in 1..Len(s) : s[j] \in Char
  BY DEF Text
<1>a. a \in 1..(Len(s) + 1)
  BY <1>s, <1>0
<1>1. t \in Text /\ Len(t) = Len(s) - a + 1 /\ \A j \in 1..(Len(s) - a + 1) : t[j] = s[a + j - 1]
  BY <1>s, <1>t, <1>a, FromIn
<1>2. PICK n \in Nat : n = b - a + 1
  BY <1>s, <1>0
<1>3. n \in 0..Len(t)
  BY <1>s, <1>0, <1>1, <1>2
<1>4. \A j \in 1..n : t[j] \in Key \ {sep}
  <2> SUFFICES ASSUME NEW j \in 1..n PROVE t[j] \in Key \ {sep}
    OBVIOUS
  <2>1. t[j] = s[a + j - 1] /\ a + j - 1 \in a..b /\ a + j - 1 \in 1..Len(s)
    BY <1>s, <1>0, <1>1, <1>2
  <2> QED BY <1>s, <2>1, <1>0, CharLemma
<1>5. n = Len(t) \/ t[n + 1] \notin Key \ {sep}
  <2>1. CASE b = Len(s)
    BY <1>s, <2>1, <1>0, <1>1, <1>2
  <2>2. CASE b # Len(s)
    <3>1. n + 1 \in 1..(Len(s) - a + 1) /\ a + (n + 1) - 1 = b + 1
      BY <1>s, <2>2, <1>0, <1>2
    <3>2. t[n + 1] = s[b + 1]
      BY <3>1, <1>1
    <3> QED BY <1>s, <2>2, <3>2
  <2> QED BY <1>s, <2>1, <2>2
<1>6. Span(t, Key \ {sep}) = n
  BY <1>s, <1>1, <1>3, <1>4, <1>5, SpanIs
<1>7. SubSeq(t, 1, n) = SubSeq(s, a, b)
  <2>0. PICK u, w : u = SubSeq(t, 1, n) /\ w = SubSeq(s, a, b)
    OBVIOUS
  <2>1. u \in Text /\ Len(u) = n /\ \A j \in 1..n : u[j] = t[j]
    BY <1>s, <1>1, <1>3, <1>2, <2>0 DEF Text
  <2>2. w \in Text /\ Len(w) = n /\ \A j \in 1..n : w[j] = s[a + j - 1]
    BY <1>s, <1>0, <1>2, <2>0 DEF Text
  <2>3. \A j \in 1..n : t[j] = s[a + j - 1]
    BY <1>s, <1>0, <1>1, <1>2
  <2>4. Len(u) = Len(w) /\ \A j \in 1..Len(u) : u[j] = w[j]
    BY <1>s, <2>1, <2>2, <2>3
  <2>5. u = w
    BY <2>1, <2>2, <2>4, SameText
  <2> QED BY <1>s, <2>0, <2>5
<1> QED BY <1>t, <1>2, <1>6, <1>7

LEMMA SkipNext ==
    ASSUME NEW s \in Text, NEW sep, NEW n, NEW p, NEW q, Marks(s, Len(s), sep, n, p, q),
           NEW k \in 0..n, NEW i \in Nat \ {0},
           k # 0 => i > q[k], k < n => i <= p[k + 1]
    PROVE  Skip(From(s, i), sep) = NextStretch(s, k, n, p)
<1>0. n \in Nat
  BY DEF Marks
<1>1. Len(s) \in Nat
  BY DEF Text
<1>2. \A l \in 1..n : p[l] \in 1..Len(s) /\ q[l] \in p[l]..Len(s) /\ p[l] \in Nat /\ q[l] \in Nat
  <2>1. \A l \in 1..n : p[l] \in 1..Len(s) /\ q[l] \in p[l]..Len(s)
    BY DEF Marks
  <2> QED BY <2>1, <1>0, <1>1
<1>3. \A l \in 1..n : \A j \in p[l]..q[l] : s[j] # sep
  BY DEF Marks
<1>4. \A l, m \in 1..n : l < m => q[l] < p[m]
  BY DEF Marks
<1>5. \A j \in 1..Len(s) : s[j] # sep => \E l \in 1..n : j \in p[l]..q[l]
  BY DEF Marks
<1>6. CASE i > Len(s)
  <2>1. k = n
    BY <1>0, <1>1, <1>2, <1>6
  <2>2. From(s, i) = <<>> /\ <<>> \in Text /\ Len(<<>>) = 0
    BY <1>6, FromOut DEF Text
  <2>3. Span(<<>>, {sep}) = 0
    BY <2>2, SpanLemma
  <2>4. From(<<>>, 1) = <<>>
    BY <2>2, FromOut
  <2> QED BY <2>1, <2>2, <2>3, <2>4, <1>0 DEF Skip, NextStretch
<1>7. CASE i <= Len(s)
  <2>1. PICK c : c = IF k < n THEN p[k + 1] ELSE Len(s) + 1
    OBVIOUS
  <2>2. k < n => k + 1 \in 1..n
    BY <1>0
  <2>3. c \in i..(Len(s) + 1) /\ i \in 1..(Len(s) + 1)
    BY <2>1, <2>2, <1>1, <1>2, <1>7
  <2>4. \A j \in i..(c - 1) : s[j] = sep
    <3> SUFFICES ASSUME NEW j \in i..(c - 1), s[j] # sep PROVE FALSE
      OBVIOUS
    <3>1. j \in 1..Len(s)
      BY <2>3, <1>1
    <3>2. PICK l \in 1..n : j \in p[l]..q[l]
      BY <3>1, <1>5
    <3>3. p[l] \in Nat /\ q[l] \in Nat /\ p[l] <= j /\ j <= q[l] /\ j < c /\ i <= j
      BY <3>2, <1>2, <2>3
    <3>4. l > k
      <4> SUFFICES ASSUME l <= k PROVE FALSE
        BY <1>0
      <4>1. k \in 1..n /\ q[k] \in Nat /\ i > q[k]
        BY <1>0, <1>2
      <4>2. q[l] <= q[k]
        <5>1. CASE l = k
          BY <5>1, <3>3
        <5>2. CASE l < k
          <6>1. q[l] < p[k] /\ p[k] <= q[k] /\ p[k] \in Nat
            BY <5>2, <4>1, <1>2, <1>4
          <6> QED BY <6>1, <4>1, <3>3
        <5> QED BY <5>1, <5>2, <1>0
      <4> QED BY <4>1, <4>2, <3>3
    <3>5. k + 1 \in 1..n /\ k < n /\ c = p[k + 1] /\ p[k + 1] \in Nat
      BY <3>4, <1>0, <1>2, <2>1
    <3>6. p[l] >= p[k + 1]
      <4>1. CASE l = k + 1
        BY <4>1, <3>5
      <4>2. CASE k + 1 < l
        <5>1. q[k + 1] < p[l] /\ p[k + 1] <= q[k + 1] /\ q[k + 1] \in Nat
          BY <4>2, <3>5, <1>2, <1>4
        <5> QED BY <5>1, <3>3, <3>5
      <4> QED BY <4>1, <4>2, <3>4, <1>0
    <3> QED BY <3>3, <3>5, <3>6
  <2>5. c = Len(s) + 1 \/ s[c] # sep
    <3>1. CASE k < n
      <4>1. c \in p[k + 1]..q[k + 1]
        BY <3>1, <2>1, <2>2, <1>2
      <4> QED BY <4>1, <3>1, <2>2, <1>3
    <3>2. CASE ~ k < n
      BY <3>2, <2>1
    <3> QED BY <3>1, <3>2
  <2>6. Skip(From(s, i), sep) = From(s, c)
    BY <2>3, <2>4, <2>5, SkipTo
  <2>7. ~ k < n => From(s, c) = <<>>
    <3>1. Len(s) + 1 \in Nat /\ Len(s) + 1 > Len(s)
      BY <1>1
    <3> QED BY <3>1, <2>1, FromOut
  <2> QED BY <2>1, <2>6, <2>7 DEF NextStretch
<1> QED BY <1>1, <1>6, <1>7

LEMMA FromAll ==
    ASSUME NEW s \in Text
    PROVE  From(s, 1) = s
<1>1. Len(s) \in Nat
  BY DEF Text
<1>2. PICK t : t = From(s, 1)
  OBVIOUS
<1>3. t \in Text /\ Len(t) = Len(s) - 1 + 1 /\ \A j \in 1..(Len(s) - 1 + 1) : t[j] = s[1 + j - 1]
  <2>1. 1 \in 1..(Len(s) + 1)
    BY <1>1
  <2> QED BY <2>1, <1>2, FromIn
<1>4. Len(s) = Len(t) /\ \A i \in 1..Len(s) : s[i] = t[i]
  BY <1>1, <1>3
<1> QED BY <1>2, <1>3, <1>4, SameText

LEMMA FromEmpty == ASSUME NEW i \in Nat \ {0} PROVE <<>> \in Text /\ From(<<>>, i) = <<>>
<1>1. <<>> \in Text /\ Len(<<>>) = 0
  BY DEF Text
<1> QED BY <1>1, FromOut

LEMMA SpanEmpty == ASSUME NEW S PROVE Span(<<>>, S) = 0
<1>1. <<>> \in Text /\ Len(<<>>) = 0
  BY DEF Text
<1> QED BY <1>1, SpanLemma

LEMMA SkipEmpty == ASSUME NEW sep PROVE Skip(<<>>, sep) = <<>>
BY SpanEmpty, FromEmpty DEF Skip

\* What Marks says of one stretch.
LEMMA MarksAt ==
    ASSUME NEW s \in Text, NEW sep, NEW n, NEW p, NEW q, Marks(s, Len(s), sep, n, p, q),
           NEW k \in 1..n
    PROVE  /\ p[k] \in 1..Len(s) /\ q[k] \in p[k]..Len(s)
           /\ p[k] \in Nat /\ q[k] \in Nat
           /\ \A j \in p[k]..q[k] : s[j] # sep
           /\ q[k] = Len(s) \/ s[q[k] + 1] = sep
           /\ p[k] = 1 \/ s[p[k] - 1] = sep
           /\ k < n => k + 1 \in 1..n /\ q[k] + 2 <= p[k + 1]
<1>0. n \in Nat
  BY DEF Marks
<1>1. Len(s) \in Nat
  BY DEF Text
<1>2. \A l \in 1..n : p[l] \in 1..Len(s) /\ q[l] \in p[l]..Len(s)
  BY DEF Marks
<1>3. \A l \in 1..n : \A j \in p[l]..q[l] : s[j] # sep
  BY DEF Marks
<1>4. q[k] = Len(s) \/ s[q[k] + 1] = sep
  BY DEF Marks
<1>5. p[k] = 1 \/ s[p[k] - 1] = sep
  BY DEF Marks
<1>6. \A l \in 1..n : p[l] \in Nat /\ q[l] \in Nat
  BY <1>1, <1>2
<1>7. k < n => k + 1 \in 1..n /\ q[k] + 2 <= p[k + 1]
  <2> SUFFICES ASSUME k < n PROVE k + 1 \in 1..n /\ q[k] + 2 <= p[k + 1]
    OBVIOUS
  <2>1. k + 1 \in 1..n
    BY <1>0
  <2>2. q[k] < p[k + 1]
    <3>1. \A l, m \in 1..n : l < m => q[l] < p[m]
      BY DEF Marks
    <3>2. k < k + 1
      BY <1>0
    <3> QED BY <2>1, <3>1, <3>2
  <2>3. p[k + 1] \in p[k + 1]..q[k + 1] /\ p[k + 1] \in Nat /\ q[k] \in Nat /\ p[k + 1] <= Len(s)
    BY <2>1, <1>2, <1>6
  <2>4. s[p[k + 1]] # sep
    BY <2>1, <2>3, <1>3
  <2>5. s[q[k] + 1] = sep
    BY <1>1, <1>4, <2>2, <2>3
  <2>6. p[k + 1] # q[k] + 1
    BY <2>4, <2>5
  <2> QED BY <2>1, <2>2, <2>3, <2>6
<1> QED BY <1>2, <1>3, <1>4, <1>5, <1>6, <1>7

\* The words are strings, none is empty, and none has a separator.
LEMMA WordsAre ==
    ASSUME NEW s \in Text, NEW sep
    PROVE  /\ Words(s, sep) \in Seq(Text)
           /\ \A k \in 1..Len(Words(s, sep)) :
                 /\ Words(s, sep)[k] # <<>>
                 /\ \A i \in 1..Len(Words(s, sep)[k]) : Words(s, sep)[k][i] # sep
<1>0. Len(s) \in Nat /\ \A j \in 1..Len(s) : s[j] \in Char
  BY DEF Text
<1>1. PICK n, p, q : Marks(s, Len(s), sep, n, p, q)
  BY <1>0, MarksExist
<1>2. n \in Nat
  BY <1>1 DEF Marks
<1>3. PICK w : w = Words(s, sep)
  OBVIOUS
<1>4. w = [k \in 1..n |-> SubSeq(s, p[k], q[k])]
  BY <1>1, <1>3, MarksWords DEF Parts
<1>5. ASSUME NEW k \in 1..n
      PROVE  w[k] \in Text /\ w[k] # <<>> /\ \A i \in 1..Len(w[k]) : w[k][i] # sep
  <2>1. /\ p[k] \in 1..Len(s) /\ q[k] \in p[k]..Len(s)
        /\ \A j \in p[k]..q[k] : s[j] # sep
    BY <1>1, MarksAt
  <2>2. PICK a \in 1..Len(s) : a = p[k]
    BY <2>1
  <2>3. PICK b \in a..Len(s) : b = q[k]
    BY <2>1, <2>2
  <2>4. PICK u : u = SubSeq(s, a, b)
    OBVIOUS
  <2>5. u \in Text /\ Len(u) = b - a + 1 /\ \A j \in 1..(b - a + 1) : u[j] = s[a + j - 1]
    BY <1>0, <2>4 DEF Text
  <2>6. Len(u) # 0
    BY <1>0, <2>5
  <2>7. u # <<>>
    BY <2>6
  <2>8. \A i \in 1..Len(u) : u[i] # sep
    <3> SUFFICES ASSUME NEW i \in 1..Len(u) PROVE u[i] # sep
      OBVIOUS
    <3>1. i \in 1..(b - a + 1) /\ a + i - 1 \in a..b
      BY <1>0, <2>5
    <3> QED BY <3>1, <2>1, <2>2, <2>3, <2>5
  <2>9. w[k] = u
    BY <1>4, <2>2, <2>3, <2>4
  <2> QED BY <2>5, <2>7, <2>8, <2>9
<1>6. w \in [1..n -> Text]
  BY <1>4, <1>5
<1>7. w \in Seq(Text) /\ Len(w) = n
  BY <1>2, <1>6
<1> QED BY <1>3, <1>5, <1>7

\* Where cmd_parse stands after k words.
CmdNext(str) ==
    LET Skipped(t) == From(t, Span(t, {Blank}) + 1)
        Word(t) == Span(t, Key \ {Blank})
        next[k \in 0..Len(str)] ==
            IF k = 0 THEN Skipped(str)
            ELSE LET prev == next[k - 1] IN Skipped(From(prev, Word(prev) + 2))
    IN  next

\* cmd_parse (shell.c:66) finds the words of every string, of any length and with
\* any number of blanks before, between and behind them: as many as there are
\* stretches without a blank, each of them whole, in order.
THEOREM cmd_parseTheorem ==
    ASSUME NEW str \in Text
    PROVE  cmd_parse(str) = Words(str, Blank)
<1>0. Len(str) \in Nat
  BY DEF Text
<1>1. PICK n, p, q : Marks(str, Len(str), Blank, n, p, q)
  BY <1>0, MarksExist
<1>2. n \in Nat /\ n <= Len(str) /\ Words(str, Blank) = [k \in 1..n |-> SubSeq(str, p[k], q[k])]
  <2>1. n \in Nat
    BY <1>1 DEF Marks
  <2> QED BY <2>1, <1>1, MarksWords DEF Parts
<1>3. PICK g : g = [k \in 0..Len(str) |-> NextStretch(str, k, n, p)]
  OBVIOUS
<1>4. g[0] = Skip(str, Blank)
  <2>1. 0 \in 0..n /\ 1 \in Nat \ {0} /\ 0 \in 0..Len(str)
    BY <1>0, <1>2
  <2>2. 0 < n => 1 <= p[0 + 1]
    <3>1. 0 < n => 1 \in 1..n
      BY <1>2
    <3>2. 0 < n => p[1] \in 1..Len(str)
      BY <3>1, <1>1, MarksAt
    <3> QED BY <3>2, <1>0
  <2>3. Skip(From(str, 1), Blank) = NextStretch(str, 0, n, p)
    BY <2>1, <2>2, <1>1, SkipNext
  <2> QED BY <2>1, <2>3, <1>3, FromAll
<1>5. ASSUME NEW k \in 1..Len(str), k <= n
      PROVE  /\ g[k - 1] # <<>>
             /\ SubSeq(g[k - 1], 1, Span(g[k - 1], Key \ {Blank})) = SubSeq(str, p[k], q[k])
             /\ g[k] = Skip(From(g[k - 1], Span(g[k - 1], Key \ {Blank}) + 2), Blank)
  <2>0. k \in 1..n /\ k - 1 \in 0..Len(str) /\ k - 1 < n /\ (k - 1) + 1 = k /\ k \in 0..n /\ k # 0 /\ k \in 0..Len(str)
    BY <1>0, <1>2, <1>5
  <2>1. /\ p[k] \in 1..Len(str) /\ q[k] \in p[k]..Len(str) /\ p[k] \in Nat /\ q[k] \in Nat
        /\ \A j \in p[k]..q[k] : str[j] # Blank
        /\ q[k] = Len(str) \/ str[q[k] + 1] = Blank
        /\ k < n => q[k] + 2 <= p[k + 1]
    BY <2>0, <1>1, MarksAt
  <2>2. PICK t : t = From(str, p[k])
    OBVIOUS
  <2>3. g[k - 1] = t
    BY <2>0, <2>2, <1>3 DEF NextStretch
  <2>4. Span(t, Key \ {Blank}) = q[k] - p[k] + 1 /\ SubSeq(t, 1, q[k] - p[k] + 1) = SubSeq(str, p[k], q[k])
    <3>1. StretchFrom(str, Blank, p[k], q[k])
      BY <2>1 DEF StretchFrom
    <3> QED BY <2>1, <2>2, <3>1, StretchAt
  <2>5. Len(t) # 0
    <3>1. p[k] \in 1..(Len(str) + 1) /\ Len(str) - p[k] + 1 # 0
      BY <1>0, <2>1
    <3> QED BY <2>2, <3>1, FromIn
  <2>6. From(t, q[k] - p[k] + 3) = From(str, q[k] + 2)
    <3>1. p[k] \in Nat \ {0} /\ q[k] - p[k] + 3 \in Nat \ {0} /\ p[k] + (q[k] - p[k] + 3) - 1 = q[k] + 2
      BY <1>0, <2>1
    <3> QED BY <3>1, <2>2, FromFrom
  <2>7. Skip(From(str, q[k] + 2), Blank) = NextStretch(str, k, n, p)
    <3>1. q[k] + 2 \in Nat \ {0} /\ q[k] + 2 > q[k]
      BY <2>1
    <3> QED BY <3>1, <2>0, <2>1, <1>1, SkipNext
  <2>8. (q[k] - p[k] + 1) + 2 = q[k] - p[k] + 3
    BY <2>1
  <2>9. g[k] = NextStretch(str, k, n, p)
    BY <2>0, <1>3
  <2> QED BY <2>3, <2>4, <2>5, <2>6, <2>7, <2>8, <2>9
<1>6. ASSUME NEW k \in 1..Len(str), k > n
      PROVE  g[k] = Skip(From(g[k - 1], Span(g[k - 1], Key \ {Blank}) + 2), Blank)
  <2>1. k - 1 \in 0..Len(str) /\ k \in 0..Len(str) /\ ~ k - 1 < n /\ ~ k < n
    BY <1>0, <1>2, <1>6
  <2>2. g[k - 1] = <<>> /\ g[k] = <<>>
    BY <2>1, <1>3 DEF NextStretch
  <2>3. From(<<>>, 0 + 2) = <<>>
    BY FromEmpty
  <2> QED BY <2>2, <2>3, SpanEmpty, SkipEmpty
<1>7. \A k \in 1..Len(str) : g[k] = Skip(From(g[k - 1], Span(g[k - 1], Key \ {Blank}) + 2), Blank)
  <2> SUFFICES ASSUME NEW k \in 1..Len(str)
               PROVE  g[k] = Skip(From(g[k - 1], Span(g[k - 1], Key \ {Blank}) + 2), Blank)
    OBVIOUS
  <2>1. k <= n \/ k > n
    BY <1>0, <1>2
  <2> QED BY <2>1, <1>5, <1>6
<1>8. g = [k \in 0..Len(str) |-> IF k = 0 THEN Skip(str, Blank)
                                 ELSE Skip(From(g[k - 1], Span(g[k - 1], Key \ {Blank}) + 2), Blank)]
  <2>1. \A k \in 0..Len(str) : k # 0 => k \in 1..Len(str)
    BY <1>0
  <2>2. DOMAIN g = 0..Len(str) /\ g = [k \in DOMAIN g |-> g[k]]
    BY <1>3
  <2> QED BY <2>1, <2>2, <1>4, <1>7
<1>9. PICK f : f = CmdNext(str)
  OBVIOUS
<1>10. f = [k \in 0..Len(str) |-> IF k = 0 THEN Skip(str, Blank)
                                 ELSE Skip(From(f[k - 1], Span(f[k - 1], Key \ {Blank}) + 2), Blank)]
  BY <1>8, <1>9 DEF CmdNext, Skip
<1>11. \A k \in 0..Len(str) : f[k] = g[k]
  <2>0. 0 \in 0..Len(str) /\ \A k \in 1..Len(str) : k \in 0..Len(str) /\ k # 0
    BY <1>0
  <2>1. f[0] = g[0]
    BY <2>0, <1>4, <1>10
  <2>2. \A k \in 1..Len(str) : f[k - 1] = g[k - 1] => f[k] = g[k]
    BY <2>0, <1>7, <1>10
  <2> QED BY <1>0, <2>1, <2>2, LoopUnique
<1>12. \A k \in 1..n : /\ f[k - 1] # <<>>
                       /\ SubSeq(f[k - 1], 1, Span(f[k - 1], Key \ {Blank})) = SubSeq(str, p[k], q[k])
  <2> SUFFICES ASSUME NEW k \in 1..n
               PROVE  /\ f[k - 1] # <<>>
                      /\ SubSeq(f[k - 1], 1, Span(f[k - 1], Key \ {Blank})) = SubSeq(str, p[k], q[k])
    OBVIOUS
  <2>1. k \in 1..Len(str) /\ k <= n /\ k - 1 \in 0..Len(str)
    BY <1>0, <1>2
  <2> QED BY <2>1, <1>5, <1>11
<1>13. f[n] = <<>> /\ n \in 0..Len(str)
  <2>1. n \in 0..Len(str) /\ ~ n < n
    BY <1>0, <1>2
  <2> QED BY <2>1, <1>3, <1>11 DEF NextStretch
<1>14. Min({k \in 0..Len(str) : f[k] = <<>>}) = n
  <2> DEFINE A == {k \in 0..Len(str) : f[k] = <<>>}
  <2>1. n \in A
    BY <1>13
  <2>2. \A k \in A : n <= k
    <3> SUFFICES ASSUME NEW k \in A, k < n PROVE FALSE
      BY <1>0, <1>2
    <3>1. k + 1 \in 1..n /\ (k + 1) - 1 = k
      BY <1>0, <1>2
    <3> QED BY <3>1, <1>12
  <2>3. A \in SUBSET Nat
    OBVIOUS
  <2> HIDE DEF A
  <2>4. Min(A) = n
    BY <2>1, <2>2, <2>3, MinIs
  <2> QED BY <2>4 DEF A
<1>15. cmd_parse(str) = [k \in 1..Min({k \in 0..Len(str) : f[k] = <<>>}) |-> SubSeq(f[k - 1], 1, Span(f[k - 1], Key \ {Blank}))]
  BY <1>9 DEF CmdNext, cmd_parse
<1> QED BY <1>2, <1>12, <1>14, <1>15

\* The words of two strings joined by a separator: those of one, then those of the other.
Joined(s, a, sep, b) ==
    /\ Len(s) = Len(a) + 1 + Len(b)
    /\ \A i \in 1..Len(a) : s[i] = a[i]
    /\ s[Len(a) + 1] = sep
    /\ \A i \in 1..Len(b) : s[Len(a) + 1 + i] = b[i]

LEMMA MarksJoined ==
    ASSUME NEW s \in Text, NEW a \in Text, NEW b \in Text, NEW sep, Joined(s, a, sep, b),
           NEW n, NEW p, NEW q, Marks(a, Len(a), sep, n, p, q),
           NEW m, NEW u, NEW v, Marks(b, Len(b), sep, m, u, v),
           NEW P, P = [k \in Nat |-> IF k <= n THEN p[k] ELSE u[k - n] + Len(a) + 1],
           NEW Q, Q = [k \in Nat |-> IF k <= n THEN q[k] ELSE v[k - n] + Len(a) + 1]
    PROVE  Marks(s, Len(s), sep, n + m, P, Q)
<1>0. n \in Nat /\ m \in Nat
  BY DEF Marks
<1>1. PICK A \in Nat, B \in Nat : A = Len(a) /\ B = Len(b)
  BY DEF Text
<1>2. Len(s) = A + 1 + B /\ (\A i \in 1..A : s[i] = a[i]) /\ s[A + 1] = sep
      /\ (\A i \in 1..B : s[A + 1 + i] = b[i])
  BY <1>1 DEF Joined
<1>3. p \in [Nat -> Nat] /\ q \in [Nat -> Nat] /\ u \in [Nat -> Nat] /\ v \in [Nat -> Nat]
  BY DEF Marks
<1>4. P \in [Nat -> Nat] /\ Q \in [Nat -> Nat]
  <2>1. ASSUME NEW k \in Nat PROVE P[k] \in Nat /\ Q[k] \in Nat
    <3>1. CASE k <= n
      BY <3>1, <1>3
    <3>2. CASE ~ k <= n
      <4>1. k - n \in Nat
        BY <3>2, <1>0
      <4>2. u[k - n] \in Nat /\ v[k - n] \in Nat
        BY <4>1, <1>3
      <4> QED BY <3>2, <4>2, <1>1
    <3> QED BY <3>1, <3>2
  <2>2. P = [k \in Nat |-> P[k]] /\ Q = [k \in Nat |-> Q[k]]
    OBVIOUS
  <2> QED BY <2>1, <2>2
<1>5. \A k \in 1..n : p[k] \in 1..A /\ q[k] \in p[k]..A
  BY <1>1 DEF Marks
<1>6. \A k \in 1..m : u[k] \in 1..B /\ v[k] \in u[k]..B /\ k \in Nat
  <2>1. \A k \in 1..m : u[k] \in 1..B /\ v[k] \in u[k]..B
    BY <1>1 DEF Marks
  <2> QED BY <2>1, <1>0
<1>7. \A k \in 1..n : P[k] = p[k] /\ Q[k] = q[k]
  BY <1>0
<1>8. \A k \in 1..m : /\ n + k \in Nat /\ n + k \in 1..(n + m)
                      /\ P[n + k] = u[k] + A + 1 /\ Q[n + k] = v[k] + A + 1
  <2> SUFFICES ASSUME NEW k \in 1..m
               PROVE  /\ n + k \in Nat /\ n + k \in 1..(n + m)
                      /\ P[n + k] = u[k] + A + 1 /\ Q[n + k] = v[k] + A + 1
    OBVIOUS
  <2>1. n + k \in Nat /\ n + k \in 1..(n + m) /\ ~ n + k <= n /\ (n + k) - n = k
    BY <1>0
  <2> QED BY <2>1, <1>1
<1>9. \A k \in 1..(n + m) : k \in 1..n \/ (k - n \in 1..m /\ n + (k - n) = k)
  BY <1>0
<1>10. \A k \in 1..(n + m) : P[k] \in 1..Len(s) /\ Q[k] \in P[k]..Len(s)
  <2> SUFFICES ASSUME NEW k \in 1..(n + m) PROVE P[k] \in 1..Len(s) /\ Q[k] \in P[k]..Len(s)
    OBVIOUS
  <2>1. CASE k \in 1..n
    BY <2>1, <1>1, <1>2, <1>5, <1>7
  <2>2. ASSUME NEW l \in 1..m, n + l = k PROVE P[k] \in 1..Len(s) /\ Q[k] \in P[k]..Len(s)
    <3>1. u[l] \in 1..B /\ v[l] \in u[l]..B /\ P[k] = u[l] + A + 1 /\ Q[k] = v[l] + A + 1
      BY <2>2, <1>6, <1>8
    <3>2. PICK x \in Nat, y \in Nat : x = u[l] /\ y = v[l]
      BY <1>3, <1>6
    <3>3. x \in 1..B /\ y \in x..B /\ P[k] = x + A + 1 /\ Q[k] = y + A + 1
      BY <3>1, <3>2
    <3> QED BY <3>3, <1>2
  <2> QED BY <2>1, <2>2, <1>9
<1>11. \A k \in 1..(n + m) : \A j \in P[k]..Q[k] : s[j] # sep
  <2> SUFFICES ASSUME NEW k \in 1..(n + m), NEW j \in P[k]..Q[k] PROVE s[j] # sep
    OBVIOUS
  <2>1. CASE k \in 1..n
    <3>1. j \in p[k]..q[k] /\ j \in 1..A
      BY <2>1, <1>1, <1>5, <1>7
    <3>2. a[j] # sep
      BY <2>1, <3>1 DEF Marks
    <3> QED BY <3>1, <3>2, <1>2
  <2>2. ASSUME NEW l \in 1..m, n + l = k PROVE s[j] # sep
    <3>1. u[l] \in 1..B /\ v[l] \in u[l]..B /\ P[k] = u[l] + A + 1 /\ Q[k] = v[l] + A + 1
      BY <2>2, <1>6, <1>8
    <3>a. PICK x \in Nat, y \in Nat : x = u[l] /\ y = v[l]
      BY <1>3, <1>6
    <3>b. x \in 1..B /\ y \in x..B /\ j \in (x + A + 1)..(y + A + 1)
      BY <3>1, <3>a
    <3>2. PICK i \in 1..B : i = j - A - 1
      BY <3>b
    <3>c. i \in x..y /\ j = A + 1 + i
      BY <3>b, <3>2
    <3>3. i \in u[l]..v[l] /\ j = A + 1 + i
      BY <3>a, <3>c
    <3>4. b[i] # sep
      BY <3>3 DEF Marks
    <3> QED BY <3>3, <3>4, <1>2
  <2> QED BY <2>1, <2>2, <1>9
<1>12. \A k \in 1..(n + m) : Q[k] = Len(s) \/ s[Q[k] + 1] = sep
  <2> SUFFICES ASSUME NEW k \in 1..(n + m) PROVE Q[k] = Len(s) \/ s[Q[k] + 1] = sep
    OBVIOUS
  <2>1. CASE k \in 1..n
    <3>1. q[k] \in 1..A /\ Q[k] = q[k]
      BY <2>1, <1>1, <1>5, <1>7
    <3>2. q[k] = A \/ a[q[k] + 1] = sep
      BY <2>1, <1>1 DEF Marks
    <3>3. q[k] # A => q[k] + 1 \in 1..A
      BY <3>1
    <3> QED BY <3>1, <3>2, <3>3, <1>2
  <2>2. ASSUME NEW l \in 1..m, n + l = k PROVE Q[k] = Len(s) \/ s[Q[k] + 1] = sep
    <3>1. u[l] \in 1..B /\ v[l] \in u[l]..B /\ Q[k] = v[l] + A + 1
      BY <2>2, <1>6, <1>8
    <3>2. v[l] = B \/ b[v[l] + 1] = sep
      BY <1>1 DEF Marks
    <3>3. CASE v[l] = B
      BY <3>1, <3>3, <1>1, <1>2
    <3>4. CASE v[l] # B
      <4>0. PICK y \in Nat : y = v[l]
        BY <1>3, <1>6
      <4>a. y <= B /\ Q[k] = y + A + 1 /\ y # B
        BY <3>1, <3>4, <4>0
      <4>b. y + 1 \in 1..B /\ Q[k] + 1 = A + 1 + (y + 1)
        BY <4>a
      <4>1. v[l] + 1 \in 1..B /\ Q[k] + 1 = A + 1 + (v[l] + 1)
        BY <4>0, <4>b
      <4>2. s[Q[k] + 1] = b[v[l] + 1]
        BY <4>1, <1>2
      <4> QED BY <4>2, <3>2, <3>4
    <3> QED BY <3>3, <3>4
  <2> QED BY <2>1, <2>2, <1>9
<1>13. \A k \in 1..(n + m) : P[k] = 1 \/ s[P[k] - 1] = sep
  <2> SUFFICES ASSUME NEW k \in 1..(n + m) PROVE P[k] = 1 \/ s[P[k] - 1] = sep
    OBVIOUS
  <2>1. CASE k \in 1..n
    <3>1. p[k] \in 1..A /\ P[k] = p[k]
      BY <2>1, <1>1, <1>5, <1>7
    <3>2. p[k] = 1 \/ a[p[k] - 1] = sep
      BY <2>1 DEF Marks
    <3>3. p[k] # 1 => p[k] - 1 \in 1..A
      BY <3>1
    <3> QED BY <3>1, <3>2, <3>3, <1>2
  <2>2. ASSUME NEW l \in 1..m, n + l = k PROVE P[k] = 1 \/ s[P[k] - 1] = sep
    <3>1. u[l] \in 1..B /\ P[k] = u[l] + A + 1
      BY <2>2, <1>6, <1>8
    <3>2. u[l] = 1 \/ b[u[l] - 1] = sep
      BY DEF Marks
    <3>3. CASE u[l] = 1
      <4>1. P[k] - 1 = A + 1
        BY <3>1, <3>3, <1>1
      <4> QED BY <4>1, <1>2
    <3>4. CASE u[l] # 1
      <4>0. PICK x \in 1..B : x = u[l] /\ P[k] = x + A + 1
        BY <3>1
      <4>b. x # 1 /\ P[k] = x + A + 1
        BY <4>0, <3>4
      <4>a. x - 1 \in 1..B /\ P[k] - 1 = A + 1 + (x - 1)
        BY <4>b
      <4>1. u[l] - 1 \in 1..B /\ P[k] - 1 = A + 1 + (u[l] - 1)
        BY <4>0, <4>a
      <4>2. s[P[k] - 1] = b[u[l] - 1]
        BY <4>1, <1>2
      <4> QED BY <4>2, <3>2, <3>4
    <3> QED BY <3>3, <3>4
  <2> QED BY <2>1, <2>2, <1>9
<1>14. \A k, l \in 1..(n + m) : k < l => Q[k] < P[l]
  <2> SUFFICES ASSUME NEW k \in 1..(n + m), NEW l \in 1..(n + m), k < l PROVE Q[k] < P[l]
    OBVIOUS
  <2>1. CASE k \in 1..n /\ l \in 1..n
    <3>1. q[k] < p[l]
      BY <2>1 DEF Marks
    <3> QED BY <2>1, <3>1, <1>7
  <2>2. ASSUME k \in 1..n, NEW j \in 1..m, n + j = l PROVE Q[k] < P[l]
    <3>1. q[k] \in 1..A /\ Q[k] = q[k] /\ u[j] \in 1..B /\ P[l] = u[j] + A + 1
      <4>1. q[k] \in 1..A /\ Q[k] = q[k]
        BY <2>2, <1>5, <1>7
      <4>2. u[j] \in 1..B /\ P[l] = u[j] + A + 1
        BY <2>2, <1>6, <1>8
      <4> QED BY <4>1, <4>2
    <3> QED BY <3>1
  <2>3. ASSUME NEW i \in 1..m, n + i = k, NEW j \in 1..m, n + j = l PROVE Q[k] < P[l]
    <3>1. i < j
      BY <2>3, <1>0
    <3>2. v[i] < u[j]
      BY <3>1 DEF Marks
    <3>3. v[i] \in Nat /\ u[j] \in Nat /\ Q[k] = v[i] + A + 1 /\ P[l] = u[j] + A + 1
      <4>1. v[i] \in Nat /\ u[j] \in Nat
        BY <1>3, <1>6
      <4>2. Q[k] = v[i] + A + 1 /\ P[l] = u[j] + A + 1
        BY <2>3, <1>8
      <4> QED BY <4>1, <4>2
    <3> QED BY <3>2, <3>3
  <2>4. l \in 1..n => k \in 1..n
    BY <1>0
  <2> QED BY <2>1, <2>2, <2>3, <2>4, <1>9
<1>15. \A i \in 1..Len(s) : s[i] # sep => \E k \in 1..(n + m) : i \in P[k]..Q[k]
  <2> SUFFICES ASSUME NEW i \in 1..Len(s), s[i] # sep PROVE \E k \in 1..(n + m) : i \in P[k]..Q[k]
    OBVIOUS
  <2>1. CASE i <= A
    <3>1. i \in 1..A /\ a[i] # sep
      BY <2>1, <1>1, <1>2
    <3>2. PICK k \in 1..n : i \in p[k]..q[k]
      BY <3>1, <1>1 DEF Marks
    <3>3. k \in 1..(n + m) /\ i \in P[k]..Q[k]
      BY <3>2, <1>0, <1>7
    <3> QED BY <3>3
  <2>2. CASE i > A
    <3>1. i # A + 1
      BY <1>2
    <3>2. PICK j \in 1..B : i = A + 1 + j
      <4>1. i - A - 1 \in 1..B /\ i = A + 1 + (i - A - 1)
        BY <2>2, <3>1, <1>1, <1>2
      <4> QED BY <4>1
    <3>3. b[j] # sep
      BY <3>2, <1>2
    <3>4. PICK l \in 1..m : j \in u[l]..v[l]
      BY <3>3, <1>1 DEF Marks
    <3>5. u[l] \in Nat /\ v[l] \in Nat /\ P[n + l] = u[l] + A + 1 /\ Q[n + l] = v[l] + A + 1 /\ n + l \in 1..(n + m)
      <4>1. u[l] \in Nat /\ v[l] \in Nat
        BY <1>3, <1>6
      <4> QED BY <4>1, <1>8
    <3>6. i \in P[n + l]..Q[n + l]
      BY <3>2, <3>4, <3>5, <1>1
    <3> QED BY <3>5, <3>6
  <2>3. i <= A \/ i > A
    BY <1>1, <1>2
  <2> QED BY <2>1, <2>2, <2>3
<1>16. n + m \in Nat
  BY <1>0
<1> QED BY <1>4, <1>10, <1>11, <1>12, <1>13, <1>14, <1>15, <1>16 DEF Marks

LEMMA WordsJoined ==
    ASSUME NEW s \in Text, NEW a \in Text, NEW b \in Text, NEW sep, Joined(s, a, sep, b)
    PROVE  Words(s, sep) = Words(a, sep) \o Words(b, sep)
<1>0. PICK A \in Nat, B \in Nat : A = Len(a) /\ B = Len(b)
  BY DEF Text
<1>1. PICK n, p, q : Marks(a, Len(a), sep, n, p, q)
  BY <1>0, MarksExist
<1>2. PICK m, u, v : Marks(b, Len(b), sep, m, u, v)
  BY <1>0, MarksExist
<1>3. n \in Nat /\ m \in Nat
  BY <1>1, <1>2 DEF Marks
<1>4. PICK P : P = [k \in Nat |-> IF k <= n THEN p[k] ELSE u[k - n] + Len(a) + 1]
  OBVIOUS
<1>5. PICK Q : Q = [k \in Nat |-> IF k <= n THEN q[k] ELSE v[k - n] + Len(a) + 1]
  OBVIOUS
<1>6. Marks(s, Len(s), sep, n + m, P, Q)
  BY <1>1, <1>2, <1>4, <1>5, MarksJoined
<1>7. PICK w, x, y : w = Words(s, sep) /\ x = Words(a, sep) /\ y = Words(b, sep)
  OBVIOUS
<1>8. /\ w = [k \in 1..(n + m) |-> SubSeq(s, P[k], Q[k])]
      /\ x = [k \in 1..n |-> SubSeq(a, p[k], q[k])]
      /\ y = [k \in 1..m |-> SubSeq(b, u[k], v[k])]
  BY <1>1, <1>2, <1>6, <1>7, MarksWords DEF Parts
<1>9. w \in Seq(Text) /\ x \in Seq(Text) /\ y \in Seq(Text)
  BY <1>7, WordsAre
<1>10. Len(w) = n + m /\ Len(x) = n /\ Len(y) = m
  BY <1>3, <1>8
<1>11. s \in Text /\ Len(s) = A + 1 + B /\ (\A i \in 1..A : s[i] = a[i]) /\ (\A i \in 1..B : s[A + 1 + i] = b[i])
  BY <1>0 DEF Joined
<1>12. ASSUME NEW k \in 1..n PROVE w[k] = x[k]
  <2>1. k \in Nat /\ k <= n /\ k \in 1..(n + m)
    BY <1>3
  <2>2. P[k] = p[k] /\ Q[k] = q[k]
    BY <2>1, <1>4, <1>5
  <2>3. p[k] \in 1..A /\ q[k] \in p[k]..A
    BY <1>0, <1>1, MarksAt
  <2>4. PICK c \in 1..A : c = p[k]
    BY <2>3
  <2>5. PICK d \in c..A : d = q[k]
    BY <2>3, <2>4
  <2>6. PICK f, g : f = SubSeq(s, c, d) /\ g = SubSeq(a, c, d)
    OBVIOUS
  <2>7. f \in Text /\ Len(f) = d - c + 1 /\ \A j \in 1..(d - c + 1) : f[j] = s[c + j - 1]
    BY <1>11, <2>6 DEF Text
  <2>8. g \in Text /\ Len(g) = d - c + 1 /\ \A j \in 1..(d - c + 1) : g[j] = a[c + j - 1]
    BY <1>0, <2>6 DEF Text
  <2>9. \A j \in 1..(d - c + 1) : c + j - 1 \in 1..A
    OBVIOUS
  <2>10. Len(f) = Len(g) /\ \A j \in 1..Len(f) : f[j] = g[j]
    BY <2>7, <2>8, <2>9, <1>11
  <2>11. f = g
    BY <2>7, <2>8, <2>10, SameText
  <2> QED BY <2>1, <2>2, <2>4, <2>5, <2>6, <2>11, <1>8
<1>13. ASSUME NEW k \in 1..m PROVE w[n + k] = y[k]
  <2>1. n + k \in Nat /\ ~ n + k <= n /\ n + k \in 1..(n + m) /\ (n + k) - n = k
    BY <1>3
  <2>2. P[n + k] = u[k] + A + 1 /\ Q[n + k] = v[k] + A + 1
    BY <2>1, <1>0, <1>4, <1>5
  <2>3. u[k] \in 1..B /\ v[k] \in u[k]..B
    BY <1>0, <1>2, MarksAt
  <2>4. PICK c \in 1..B : c = u[k]
    BY <2>3
  <2>5. PICK d \in c..B : d = v[k]
    BY <2>3, <2>4
  <2>6. PICK f : f = SubSeq(s, c + A + 1, d + A + 1)
    OBVIOUS
  <2>6a. PICK g : g = SubSeq(b, c, d)
    OBVIOUS
  <2>7. f \in Text /\ Len(f) = d - c + 1 /\ \A j \in 1..(d - c + 1) : f[j] = s[(c + A + 1) + j - 1]
    <3>1. c + A + 1 \in 1..Len(s) /\ d + A + 1 \in (c + A + 1)..Len(s) /\ Len(s) \in Nat
      BY <1>11
    <3>2. (d + A + 1) - (c + A + 1) + 1 = d - c + 1
      OBVIOUS
    <3>3. PICK x1 \in Nat, y1 \in Nat : x1 = c + A + 1 /\ y1 = d + A + 1
      OBVIOUS
    <3>4. x1 \in 1..Len(s) /\ y1 \in x1..Len(s) /\ f = SubSeq(s, x1, y1)
      BY <2>6, <3>1, <3>3
    <3>5. f \in Text /\ Len(f) = y1 - x1 + 1 /\ \A j \in 1..(y1 - x1 + 1) : f[j] = s[x1 + j - 1]
      BY <3>1, <3>4, <1>11 DEF Text
    <3>6. y1 - x1 + 1 = d - c + 1
      BY <3>2, <3>3
    <3> QED BY <3>3, <3>5, <3>6
  <2>8. g \in Text /\ Len(g) = d - c + 1 /\ \A j \in 1..(d - c + 1) : g[j] = b[c + j - 1]
    BY <1>0, <2>6a DEF Text
  <2>9. \A j \in 1..(d - c + 1) : c + j - 1 \in 1..B /\ (c + A + 1) + j - 1 = A + 1 + (c + j - 1)
    OBVIOUS
  <2>10. Len(f) = Len(g) /\ \A j \in 1..Len(f) : f[j] = g[j]
    BY <2>7, <2>8, <2>9, <1>11
  <2>11. f = g
    BY <2>7, <2>8, <2>10, SameText
  <2> QED BY <2>1, <2>2, <2>4, <2>5, <2>6, <2>6a, <2>11, <1>8
<1>14. w = x \o y
  <2>1. PICK z : z = x \o y
    OBVIOUS
  <2>2. z \in Seq(Text) /\ Len(z) = n + m
    BY <2>1, <1>9, <1>10, ConcatProperties
  <2>3. \A k \in 1..(n + m) : z[k] = IF k <= n THEN x[k] ELSE y[k - n]
    BY <2>1, <1>3, <1>9, <1>10, ConcatProperties
  <2>4. ASSUME NEW k \in 1..(n + m) PROVE w[k] = z[k]
    <3>1. CASE k <= n
      <4>1. k \in 1..n
        BY <3>1, <1>3
      <4> QED BY <4>1, <3>1, <2>3, <1>12
    <3>2. CASE ~ k <= n
      <4>1. k - n \in 1..m /\ n + (k - n) = k
        BY <3>2, <1>3
      <4>2. w[n + (k - n)] = y[k - n]
        BY <4>1, <1>13
      <4> QED BY <4>1, <4>2, <3>2, <2>3
    <3> QED BY <3>1, <3>2
  <2>5. w = z
    BY <2>2, <2>4, <1>9, <1>10
  <2> QED BY <2>1, <2>5
<1> QED BY <1>7, <1>14

LEMMA WordsOne ==
    ASSUME NEW s \in Text, NEW sep, s # <<>>, \A i \in 1..Len(s) : s[i] # sep
    PROVE  Words(s, sep) = <<s>>
<1>0. Len(s) \in Nat /\ Len(s) # 0
  BY DEF Text
<1>1. PICK p : p = [k \in Nat |-> 1]
  OBVIOUS
<1>2. PICK q : q = [k \in Nat |-> Len(s)]
  OBVIOUS
<1>3. Marks(s, Len(s), sep, 1, p, q)
  <2>1. p \in [Nat -> Nat] /\ q \in [Nat -> Nat] /\ p[1] = 1 /\ q[1] = Len(s)
    BY <1>0, <1>1, <1>2
  <2>2. \A k \in 1..1 : k = 1
    OBVIOUS
  <2>3. \A k, l \in 1..1 : k < l => q[k] < p[l]
    OBVIOUS
  <2>4. \A i \in 1..Len(s) : s[i] # sep => \E k \in 1..1 : i \in p[k]..q[k]
    <3> SUFFICES ASSUME NEW i \in 1..Len(s) PROVE 1 \in 1..1 /\ i \in p[1]..q[1]
      OBVIOUS
    <3> QED BY <2>1
  <2>5. \A k \in 1..1 : p[k] \in 1..Len(s) /\ q[k] \in p[k]..Len(s)
    <3>1. 1 \in 1..Len(s) /\ Len(s) \in 1..Len(s)
      BY <1>0
    <3> QED BY <2>1, <2>2, <3>1
  <2>6. \A k \in 1..1 : \A j \in p[k]..q[k] : s[j] # sep
    BY <2>1, <2>2
  <2>7. \A k \in 1..1 : q[k] = Len(s) /\ p[k] = 1
    BY <2>1, <2>2
  <2> QED BY <1>0, <2>1, <2>3, <2>4, <2>5, <2>6, <2>7 DEF Marks
<1>4. PICK n : n = 1
  OBVIOUS
<1>5. Words(s, sep) = [k \in 1..n |-> SubSeq(s, p[k], q[k])]
  <2>1. Marks(s, Len(s), sep, n, p, q)
    BY <1>3, <1>4
  <2>2. Words(s, sep) = Parts(s, n, p, q)
    BY <2>1, MarksWords
  <2> QED BY <2>2 DEF Parts
<1>6. SubSeq(s, p[1], q[1]) = s
  <2>1. p[1] = 1 /\ q[1] = Len(s)
    BY <1>1, <1>2
  <2> QED BY <2>1, FromAll DEF From
<1>7. PICK w : w = Words(s, sep)
  OBVIOUS
<1>8. w \in Seq(Text) /\ Len(w) = 1 /\ w[1] = s
  <2>1. w \in Seq(Text)
    BY <1>7, WordsAre
  <2>2. Len(w) = 1
    BY <1>4, <1>5, <1>7
  <2>3. w[1] = s
    BY <1>4, <1>5, <1>6, <1>7
  <2> QED BY <2>1, <2>2, <2>3
<1>9. w = <<s>>
  BY <1>8
<1> QED BY <1>7, <1>9

LEMMA WordsNone ==
    ASSUME NEW sep
    PROVE  Words(<<>>, sep) = <<>>
<1>1. <<>> \in Text /\ Len(<<>>) = 0
  BY DEF Text
<1>2. PICK z : z = [k \in Nat |-> 0]
  OBVIOUS
<1>3. Marks(<<>>, 0, sep, 0, z, z)
  BY <1>2 DEF Marks
<1>4. Words(<<>>, sep) = [k \in 1..0 |-> SubSeq(<<>>, z[k], z[k])]
  BY <1>1, <1>3, MarksWords DEF Parts
<1> QED BY <1>4

----------------------------------------------------------------------------
(* Clean paths: the root, or a slash before each name and none elsewhere.   *)

CleanPath == {s \in Text :
    /\ s # <<>> /\ s[1] = "/"
    /\ \A i \in 1..(Len(s) - 1) : s[i] = "/" => s[i + 1] # "/"
    /\ s[Len(s)] = "/" => Len(s) = 1}
PathName == {t \in Text : t # <<>> /\ \A i \in 1..Len(t) : t[i] # "/"}

LEMMA SlashChar == "/" \in Char /\ "." \in Char /\ "|" \in Char
BY DEF Char

LEMMA LastIn ==
    ASSUME NEW n \in Nat, NEW T \in SUBSET (1..n), T # {}
    PROVE  \E m \in T : \A i \in T : i <= m
<1>1. PICK S : S = {j \in Nat : j <= n /\ n - j \in T}
  OBVIOUS
<1>2. S \in SUBSET Nat /\ S # {}
  <2>1. PICK i \in T : TRUE
    OBVIOUS
  <2>2. n - i \in Nat /\ n - i <= n /\ n - (n - i) = i
    BY <2>1
  <2>3. n - i \in S
    BY <2>1, <2>2, <1>1
  <2> QED BY <2>3, <1>1
<1>3. PICK j \in S : \A k \in S : j <= k
  BY <1>2, LeastIn
<1>4. j \in Nat /\ n - j \in T
  BY <1>1, <1>3
<1>5. \A i \in T : i <= n - j
  <2> SUFFICES ASSUME NEW i \in T PROVE i <= n - j
    OBVIOUS
  <2>1. i \in Nat /\ n - i \in Nat /\ n - i <= n /\ n - (n - i) = i
    OBVIOUS
  <2>2. n - i \in S
    BY <2>1, <1>1
  <2>3. j <= n - i
    BY <2>2, <1>3
  <2> QED BY <2>1, <2>3, <1>4
<1> QED BY <1>4, <1>5

LEMMA RootPath == <<"/">> \in CleanPath /\ Words(<<"/">>, "/") = <<>> /\ <<"/">> \in Text
<1>1. PICK r : r = <<"/">>
  OBVIOUS
<1>2. r \in Text /\ Len(r) = 1 /\ r[1] = "/"
  BY <1>1, SlashChar DEF Text
<1>3. <<>> \in Text /\ Len(<<>>) = 0
  BY DEF Text
<1>4. Joined(r, <<>>, "/", <<>>)
  BY <1>2, <1>3 DEF Joined
<1>5. Words(r, "/") = <<>> \o <<>>
  BY <1>2, <1>3, <1>4, WordsJoined, WordsNone
<1>6. r \in CleanPath
  <2>1. r # <<>>
    BY <1>2, <1>3
  <2>2. \A i \in 1..(Len(r) - 1) : FALSE
    BY <1>2
  <2> QED BY <1>2, <2>1, <2>2 DEF CleanPath
<1> QED BY <1>1, <1>2, <1>5, <1>6

LEMMA JoinIs ==
    ASSUME NEW a \in Text, NEW b \in Text, NEW sep \in Char, NEW s, s = a \o <<sep>> \o b
    PROVE  s \in Text /\ Joined(s, a, sep, b)
<1>1. PICK A \in Nat, B \in Nat : A = Len(a) /\ B = Len(b)
  BY DEF Text
<1>2. PICK r : r = a \o <<sep>>
  OBVIOUS
<1>3. r \in Text /\ Len(r) = A + 1 /\ (\A i \in 1..A : r[i] = a[i]) /\ r[A + 1] = sep
  BY <1>1, <1>2 DEF Text
<1>4. s = r \o b
  BY <1>2
<1>5. s \in Text /\ Len(s) = Len(r) + Len(b)
      /\ \A i \in 1..(Len(r) + Len(b)) : s[i] = IF i <= Len(r) THEN r[i] ELSE b[i - Len(r)]
  <2>1. r \in Seq(Char) /\ b \in Seq(Char)
    BY <1>3 DEF Text
  <2>2. s \in Seq(Char) /\ Len(s) = Len(r) + Len(b)
        /\ \A i \in 1..(Len(r) + Len(b)) : s[i] = IF i <= Len(r) THEN r[i] ELSE b[i - Len(r)]
    BY <2>1, <1>4, ConcatProperties
  <2> QED BY <2>2 DEF Text
<1>6. Len(s) = A + 1 + B /\ \A i \in 1..(A + 1 + B) : s[i] = IF i <= A + 1 THEN r[i] ELSE b[i - (A + 1)]
  BY <1>1, <1>3, <1>5
<1>7. \A i \in 1..A : s[i] = a[i]
  <2> SUFFICES ASSUME NEW i \in 1..A PROVE s[i] = a[i]
    OBVIOUS
  <2>1. i \in 1..(A + 1 + B) /\ i <= A + 1
    OBVIOUS
  <2> QED BY <2>1, <1>3, <1>6
<1>8. s[A + 1] = sep
  <2>1. A + 1 \in 1..(A + 1 + B) /\ A + 1 <= A + 1
    OBVIOUS
  <2> QED BY <2>1, <1>3, <1>6
<1>9. \A i \in 1..B : s[A + 1 + i] = b[i]
  <2> SUFFICES ASSUME NEW i \in 1..B PROVE s[A + 1 + i] = b[i]
    OBVIOUS
  <2>1. A + 1 + i \in 1..(A + 1 + B) /\ ~ A + 1 + i <= A + 1 /\ (A + 1 + i) - (A + 1) = i
    OBVIOUS
  <2> QED BY <2>1, <1>6
<1> QED BY <1>1, <1>5, <1>6, <1>7, <1>8, <1>9 DEF Joined

\* Joining a name to a clean path, or to nothing, by a slash.
LEMMA JoinClean ==
    ASSUME NEW a \in CleanPath \cup {<<>>}, a # <<"/">>, NEW name \in PathName,
           NEW e \in Text, Joined(e, a, "/", name)
    PROVE  e \in CleanPath
<1>0. name \in Text /\ name # <<>> /\ (\A i \in 1..Len(name) : name[i] # "/") /\ a \in Text
  <2>1. name \in Text /\ name # <<>> /\ (\A i \in 1..Len(name) : name[i] # "/")
    BY DEF PathName
  <2>2. <<>> \in Text
    BY DEF Text
  <2> QED BY <2>1, <2>2 DEF CleanPath
<1>1. PICK A \in Nat, B \in Nat : A = Len(a) /\ B = Len(name) /\ B # 0
  BY <1>0 DEF Text
<1>2. /\ Len(e) = A + 1 + B
      /\ \A i \in 1..A : e[i] = a[i]
      /\ e[A + 1] = "/"
      /\ \A i \in 1..B : e[A + 1 + i] = name[i]
  BY <1>1 DEF Joined
<1>3. \A i \in 1..Len(e) : i > A + 1 => e[i] # "/"
  <2> SUFFICES ASSUME NEW i \in 1..Len(e), i > A + 1 PROVE e[i] # "/"
    OBVIOUS
  <2>1. i - A - 1 \in 1..B /\ A + 1 + (i - A - 1) = i
    BY <1>2
  <2>2. e[i] = name[i - A - 1]
    BY <2>1, <1>2
  <2> QED BY <2>1, <2>2, <1>0, <1>1
<1>4. A # 0 => a[1] = "/" /\ (\A i \in 1..(A - 1) : a[i] = "/" => a[i + 1] # "/") /\ (a[A] = "/" => A = 1)
  <2> SUFFICES ASSUME A # 0 PROVE a \in CleanPath
    BY <1>1 DEF CleanPath
  <2>1. a # <<>>
    BY <1>1
  <2> QED BY <2>1
<1>5. A # 1 \/ a[1] # "/"
  <2> SUFFICES ASSUME A = 1, a[1] = "/" PROVE FALSE
    OBVIOUS
  <2>1. a = <<"/">>
    BY <1>0, <1>1 DEF Text
  <2> QED BY <2>1
<1>6. e[1] = "/"
  <2>1. CASE A = 0
    BY <2>1, <1>2
  <2>2. CASE A # 0
    BY <2>2, <1>2, <1>4
  <2> QED BY <2>1, <2>2
<1>7. \A i \in 1..(Len(e) - 1) : e[i] = "/" => e[i + 1] # "/"
  <2> SUFFICES ASSUME NEW i \in 1..(Len(e) - 1), e[i] = "/", e[i + 1] = "/" PROVE FALSE
    OBVIOUS
  <2>1. i \in Nat /\ i + 1 \in 1..Len(e) /\ i \in 1..Len(e)
    BY <1>2
  <2>2. i + 1 <= A + 1
    BY <2>1, <1>3
  <2>3. CASE i = A
    <3>1. A # 0 /\ A \in 1..A
      BY <2>1, <2>3
    <3>2. a[A] = "/"
      BY <3>1, <2>3, <1>2
    <3> QED BY <3>1, <3>2, <1>4, <1>5
  <2>4. CASE i # A
    <3>1. i \in 1..(A - 1) /\ i \in 1..A /\ i + 1 \in 1..A /\ A # 0
      BY <2>1, <2>2, <2>4
    <3>2. a[i] = "/" /\ a[i + 1] = "/"
      BY <3>1, <1>2
    <3> QED BY <3>1, <3>2, <1>4
  <2> QED BY <2>3, <2>4
<1>8. e[Len(e)] # "/"
  <2>1. Len(e) \in 1..Len(e) /\ Len(e) > A + 1
    BY <1>1, <1>2
  <2> QED BY <2>1, <1>3
<1>9. e # <<>>
  <2>1. Len(e) # 0
    BY <1>2
  <2> QED BY <2>1
<1> QED BY <1>6, <1>7, <1>8, <1>9 DEF CleanPath

LEMMA ExtendedPath ==
    ASSUME NEW v \in CleanPath, NEW name \in PathName,
           NEW e, e = (IF v = <<"/">> THEN v ELSE v \o <<"/">>) \o name
    PROVE  e \in CleanPath /\ Words(e, "/") = Words(v, "/") \o <<name>>
<1>0. v \in Text /\ name \in Text /\ <<>> \in Text /\ "/" \in Char
  BY SlashChar DEF CleanPath, PathName, Text
<1>1. Words(name, "/") = <<name>>
  <2>1. name # <<>> /\ \A i \in 1..Len(name) : name[i] # "/"
    BY DEF PathName
  <2> QED BY <1>0, <2>1, WordsOne
<1>2. CASE v = <<"/">>
  <2>1. e = <<>> \o <<"/">> \o name
    <3>1. <<>> \o <<"/">> = <<"/">>
      OBVIOUS
    <3> QED BY <1>2, <3>1
  <2>2. e \in Text /\ Joined(e, <<>>, "/", name)
    BY <1>0, <2>1, JoinIs
  <2>3. <<>> \in CleanPath \cup {<<>>} /\ <<>> # <<"/">>
    OBVIOUS
  <2>4. e \in CleanPath
    BY <2>2, <2>3, JoinClean
  <2>5. Words(e, "/") = Words(<<>>, "/") \o Words(name, "/")
    BY <1>0, <2>2, WordsJoined
  <2>6. Words(v, "/") = Words(<<>>, "/")
    BY <1>2, RootPath, WordsNone
  <2> QED BY <1>1, <2>4, <2>5, <2>6
<1>3. CASE v # <<"/">>
  <2>1. e = v \o <<"/">> \o name
    BY <1>3
  <2>2. e \in Text /\ Joined(e, v, "/", name)
    BY <1>0, <2>1, JoinIs
  <2>3. v \in CleanPath \cup {<<>>}
    OBVIOUS
  <2>4. e \in CleanPath
    BY <1>3, <2>2, <2>3, JoinClean
  <2>5. Words(e, "/") = Words(v, "/") \o Words(name, "/")
    BY <1>0, <2>2, WordsJoined
  <2> QED BY <1>1, <2>4, <2>5
<1> QED BY <1>2, <1>3

LastSlash(v) == SelectLastInSeq(v, LAMBDA c : c = "/")

LEMMA LastSlashLemma ==
    ASSUME NEW v \in CleanPath
    PROVE  /\ LastSlash(v) \in 1..Len(v) /\ v[LastSlash(v)] = "/"
           /\ \A i \in 1..Len(v) : v[i] = "/" => i <= LastSlash(v)
<1>0. v \in Text /\ v # <<>> /\ v[1] = "/"
  BY DEF CleanPath
<1>1. Len(v) \in Nat /\ Len(v) # 0
  BY <1>0 DEF Text
<1>2. PICK I : I = {i \in 1..Len(v) : v[i] = "/"}
  OBVIOUS
<1>3. I \in SUBSET (1..Len(v)) /\ 1 \in I
  BY <1>0, <1>1, <1>2
<1>4. PICK m \in I : \A i \in I : i <= m
  BY <1>1, <1>3, LastIn
<1>5. I \in SUBSET Nat
  BY <1>2
<1>6. Max(I) = m
  BY <1>4, <1>5, MaxIs
<1>7. LastSlash(v) = m
  BY <1>2, <1>3, <1>6 DEF LastSlash, SelectLastInSeq
<1> QED BY <1>2, <1>4, <1>7

LEMMA OneChar ==
    ASSUME NEW t \in Text, Len(t) = 1
    PROVE  t = <<t[1]>>
BY DEF Text

LEMMA FrontOfAppend ==
    ASSUME NEW x \in Seq(Text), NEW t \in Text
    PROVE  x \o <<t>> # <<>> /\ Front(x \o <<t>>) = x /\ Append(x, t) = x \o <<t>>
<1>1. PICK y : y = x \o <<t>>
  OBVIOUS
<1>2. PICK n \in Nat : n = Len(x)
  OBVIOUS
<1>3. y \in Seq(Text) /\ Len(y) = n + 1 /\ (\A i \in 1..n : y[i] = x[i]) /\ y[n + 1] = t
  BY <1>1, <1>2
<1>4. PICK f : f = SubSeq(y, 1, n)
  OBVIOUS
<1>5. f \in Seq(Text) /\ Len(f) = n /\ \A i \in 1..n : f[i] = y[i]
  BY <1>3, <1>4
<1>6. f = x
  BY <1>2, <1>3, <1>5, SeqEqual
<1>7. Front(y) = f
  <2>1. Len(y) - 1 = n
    BY <1>3
  <2> QED BY <2>1, <1>4 DEF Front
<1>8. y # <<>>
  <2>1. Len(y) # 0
    BY <1>3
  <2> QED BY <2>1
<1>9. Append(x, t) = y
  BY <1>1, AppendIsConcat
<1> QED BY <1>1, <1>6, <1>7, <1>8, <1>9

\* ".." takes the last name of a clean path, and the root stays the root.
LEMMA UpPath ==
    ASSUME NEW v \in CleanPath
    PROVE  /\ Up(v) \in CleanPath
           /\ Words(Up(v), "/") = IF Words(v, "/") = <<>> THEN <<>> ELSE Front(Words(v, "/"))
<1>0. v \in Text /\ v # <<>> /\ v[1] = "/" /\ (v[Len(v)] = "/" => Len(v) = 1)
      /\ (\A i \in 1..(Len(v) - 1) : v[i] = "/" => v[i + 1] # "/")
  BY DEF CleanPath
<1>1. PICK L \in Nat : L = Len(v) /\ L # 0
  BY <1>0 DEF Text
<1>2. PICK m \in 1..L : m = LastSlash(v) /\ v[m] = "/" /\ \A i \in 1..L : v[i] = "/" => i <= m
  BY <1>1, LastSlashLemma
<1>3. Up(v) = IF m # 1 THEN SubSeq(v, 1, m - 1) ELSE SubSeq(v, 1, 1)
  BY <1>2 DEF Up, LastSlash
<1>4. SubSeq(v, 1, 1) = <<"/">>
  <2>0. v \in Text /\ v[1] = "/" /\ Len(v) >= 1
    BY <1>0, <1>1
  <2>1. PICK t : t = SubSeq(v, 1, 1)
    OBVIOUS
  <2>2. t \in Text /\ Len(t) = 1 /\ t[1] = v[1]
    BY <2>0, <2>1 DEF Text
  <2>3. t = <<t[1]>>
    BY <2>2, OneChar
  <2> QED BY <2>0, <2>1, <2>2, <2>3
<1>5. CASE L = 1
  <2>1. v = <<"/">>
    <3>1. v = <<v[1]>>
      BY <1>0, <1>1, <1>5, OneChar
    <3> QED BY <3>1, <1>0
  <2>2. m = 1
    BY <1>2, <1>5
  <2> QED BY <2>1, <2>2, <1>3, <1>4, RootPath
<1>6. CASE L # 1
  <2>1. m # L
    BY <1>0, <1>1, <1>2, <1>6
  <2>2. PICK a : a = SubSeq(v, 1, m - 1)
    OBVIOUS
  <2>3. a \in Text /\ Len(a) = m - 1 /\ \A i \in 1..(m - 1) : a[i] = v[i]
    BY <1>0, <1>1, <2>2 DEF Text
  <2>4. PICK b : b = From(v, m + 1)
    OBVIOUS
  <2>5. b \in Text /\ Len(b) = L - (m + 1) + 1 /\ \A j \in 1..(L - (m + 1) + 1) : b[j] = v[m + 1 + j - 1]
    <3>1. m + 1 \in 1..(L + 1)
      OBVIOUS
    <3> QED BY <1>0, <1>1, <2>4, <3>1, FromIn
  <2>6. Len(b) = L - m /\ Len(b) # 0
    BY <2>1, <2>5
  <2>7. \A j \in 1..Len(b) : b[j] = v[(m - 1) + 1 + j] /\ b[j] # "/"
    <3> SUFFICES ASSUME NEW j \in 1..Len(b) PROVE b[j] = v[(m - 1) + 1 + j] /\ b[j] # "/"
      OBVIOUS
    <3>1. j \in 1..(L - (m + 1) + 1) /\ m + 1 + j - 1 = m + j /\ (m - 1) + 1 + j = m + j /\ m + j \in 1..L /\ ~ m + j <= m
      BY <2>6
    <3>2. b[j] = v[m + j]
      BY <3>1, <2>5
    <3> QED BY <3>1, <3>2, <1>2
  <2>8. Joined(v, a, "/", b)
    <3>1. Len(v) = Len(a) + 1 + Len(b) /\ Len(a) + 1 = m
      BY <1>1, <2>3, <2>6
    <3>2. \A i \in 1..Len(a) : v[i] = a[i]
      BY <2>3
    <3>3. \A j \in 1..Len(b) : v[Len(a) + 1 + j] = b[j]
      BY <2>3, <2>7
    <3> QED BY <3>1, <3>2, <3>3, <1>2 DEF Joined
  <2>9. Words(b, "/") = <<b>>
    <3>1. b # <<>>
      BY <2>6
    <3> QED BY <3>1, <2>5, <2>7, WordsOne
  <2>10. Words(v, "/") = Words(a, "/") \o <<b>>
    <3>1. v \in Text /\ a \in Text /\ b \in Text
      BY <1>0, <2>3, <2>5
    <3>2. Words(v, "/") = Words(a, "/") \o Words(b, "/")
      BY <3>1, <2>8, WordsJoined
    <3> QED BY <3>2, <2>9
  <2>11. Words(v, "/") # <<>> /\ Front(Words(v, "/")) = Words(a, "/")
    <3>1. Words(a, "/") \in Seq(Text)
      BY <2>3, WordsAre
    <3> QED BY <3>1, <2>5, <2>10, FrontOfAppend
  <2>12. CASE m = 1
    <3>1. a = <<>>
      BY <2>3, <2>12
    <3>2. Up(v) = <<"/">>
      BY <2>12, <1>3, <1>4
    <3> QED BY <2>11, <3>1, <3>2, RootPath, WordsNone
  <2>13. CASE m # 1
    <3>1. Up(v) = a
      BY <2>2, <2>13, <1>3
    <3>2. a # <<>> /\ a[1] = "/"
      <4>1. Len(a) # 0 /\ 1 \in 1..(m - 1)
        BY <2>3, <2>13
      <4> QED BY <4>1, <2>3, <1>0
    <3>3. \A i \in 1..(Len(a) - 1) : a[i] = "/" => a[i + 1] # "/"
      <4> SUFFICES ASSUME NEW i \in 1..(Len(a) - 1), a[i] = "/", a[i + 1] = "/" PROVE FALSE
        OBVIOUS
      <4>1. i \in 1..(m - 1) /\ i + 1 \in 1..(m - 1) /\ i \in 1..(Len(v) - 1)
        BY <2>3, <1>1
      <4>2. v[i] = "/" /\ v[i + 1] = "/"
        BY <4>1, <2>3
      <4> QED BY <4>1, <4>2, <1>0
    <3>4. a[Len(a)] # "/"
      <4> SUFFICES ASSUME a[Len(a)] = "/" PROVE FALSE
        OBVIOUS
      <4>1. m - 1 \in 1..(m - 1) /\ m - 1 \in 1..(Len(v) - 1) /\ (m - 1) + 1 = m
        BY <2>13, <1>1
      <4>2. v[m - 1] = "/"
        BY <4>1, <2>3
      <4> QED BY <4>1, <4>2, <1>0, <1>2
    <3>5. a \in CleanPath
      BY <2>3, <3>2, <3>3, <3>4 DEF CleanPath
    <3> QED BY <2>11, <3>1, <3>5
  <2> QED BY <2>12, <2>13
<1> QED BY <1>5, <1>6

\* One name more: what wash_path does to the path, and what that does to its names.
UpStep(w, name) ==
    CASE name = <<".", ".">> -> IF w = <<>> THEN <<>> ELSE Front(w)
      [] name = <<".">>      -> w
      [] OTHER               -> Append(w, name)

LEMMA ExtendedClean ==
    ASSUME NEW v \in CleanPath, NEW name \in PathName
    PROVE  Extended(v, name) \in CleanPath /\ Words(Extended(v, name), "/") = UpStep(Words(v, "/"), name)
<1>0. PICK dd, d : dd = <<".", ".">> /\ d = <<".">>
  OBVIOUS
<1>a. d # dd
  BY <1>0
<1>1. CASE name = dd
  <2>1. Extended(v, name) = Up(v)
    BY <1>0, <1>1 DEF Extended
  <2>2. UpStep(Words(v, "/"), name) = IF Words(v, "/") = <<>> THEN <<>> ELSE Front(Words(v, "/"))
    BY <1>0, <1>1 DEF UpStep
  <2> QED BY <2>1, <2>2, UpPath
<1>2. CASE name = d
  <2>1. Extended(v, name) = v
    BY <1>0, <1>a, <1>2 DEF Extended
  <2>2. UpStep(Words(v, "/"), name) = Words(v, "/")
    BY <1>0, <1>a, <1>2 DEF UpStep
  <2> QED BY <2>1, <2>2
<1>3. CASE name # dd /\ name # d
  <2>1. Extended(v, name) = (IF v = <<"/">> THEN v ELSE v \o <<"/">>) \o name
    BY <1>0, <1>3 DEF Extended
  <2>2. UpStep(Words(v, "/"), name) = Append(Words(v, "/"), name)
    BY <1>0, <1>3 DEF UpStep
  <2>3. Words(v, "/") \in Seq(Text) /\ name \in Text
    BY WordsAre DEF CleanPath, PathName
  <2>4. Append(Words(v, "/"), name) = Words(v, "/") \o <<name>>
    BY <2>3, FrontOfAppend
  <2>5. PICK e : e = Extended(v, name)
    OBVIOUS
  <2>6. e \in CleanPath /\ Words(e, "/") = Words(v, "/") \o <<name>>
    BY <2>1, <2>5, ExtendedPath
  <2> QED BY <2>2, <2>4, <2>5, <2>6
<1> QED BY <1>1, <1>2, <1>3

\* What is left of a path behind its k-th name, and that name.
LeftAt(s, k, n, q) == IF k = 0 THEN s ELSE IF k <= n THEN From(s, q[k] + 1) ELSE <<>>
NameAt(s, k, n, p, q) == IF k <= n THEN SubSeq(s, p[k], q[k]) ELSE <<>>

LEMMA path_parseLemma ==
    ASSUME NEW s \in Text, NEW n, NEW p, NEW q, Marks(s, Len(s), "/", n, p, q),
           NEW k \in 1..Len(s), NEW t, t = LeftAt(s, k - 1, n, q)
    PROVE  /\ path_parse(t).name = NameAt(s, k, n, p, q)
           /\ path_parse(t).rest = LeftAt(s, k, n, q)
<1>0. n \in Nat
  BY DEF Marks
<1>1. Len(s) \in Nat
  BY DEF Text
<1>2. PICK sub : sub = Skip(t, "/")
  OBVIOUS
<1>3. sub = NextStretch(s, k - 1, n, p)
  <2>1. CASE k = 1
    <3>1. k - 1 = 0 /\ 0 \in 0..n /\ 1 \in Nat \ {0}
      BY <2>1, <1>0
    <3>2. 0 < n => 1 <= p[0 + 1]
      <4>1. 0 < n => 1 \in 1..n
        BY <1>0
      <4>2. 0 < n => p[1] \in 1..Len(s)
        BY <4>1, MarksAt
      <4> QED BY <4>2, <1>1
    <3>3. Skip(From(s, 1), "/") = NextStretch(s, 0, n, p)
      BY <3>1, <3>2, SkipNext
    <3>4. t = s
      BY <3>1 DEF LeftAt
    <3> QED BY <3>1, <3>3, <3>4, <1>2, FromAll
  <2>2. CASE k # 1 /\ k - 1 <= n
    <3>1. PICK l \in 1..n : l = k - 1 /\ l # 0 /\ l \in 0..n
      BY <2>2, <1>0, <1>1
    <3>2. q[l] \in Nat /\ (l < n => q[l] + 2 <= p[l + 1])
      BY MarksAt
    <3>3. q[l] + 1 \in Nat \ {0} /\ q[l] + 1 > q[l]
      BY <3>2
    <3>4. l < n => q[l] + 1 <= p[l + 1]
      <4> SUFFICES ASSUME l < n PROVE q[l] + 1 <= p[l + 1]
        OBVIOUS
      <4>1. l + 1 \in 1..n
        BY <1>0
      <4>2. p[l + 1] \in Nat
        BY <4>1, MarksAt
      <4> QED BY <4>2, <3>2
    <3>5. Skip(From(s, q[l] + 1), "/") = NextStretch(s, l, n, p)
      BY <3>1, <3>3, <3>4, SkipNext
    <3>6. t = From(s, q[l] + 1)
      BY <3>1, <2>2 DEF LeftAt
    <3> QED BY <3>1, <3>5, <3>6, <1>2
  <2>3. CASE k # 1 /\ ~ k - 1 <= n
    <3>1. ~ k - 1 < n /\ k - 1 # 0
      BY <2>3, <1>0, <1>1
    <3>2. t = <<>>
      BY <3>1, <2>3 DEF LeftAt
    <3> QED BY <3>1, <3>2, <1>2, SkipEmpty DEF NextStretch
  <2> QED BY <2>1, <2>2, <2>3
<1>4. PICK m : m = Span(sub, Key \ {"/"})
  OBVIOUS
<1>5. path_parse(t).name = SubSeq(sub, 1, m) /\ path_parse(t).rest = From(sub, m + 1)
  BY <1>2, <1>4 DEF path_parse, Skip
<1>6. CASE k <= n
  <2>0. k \in 1..n /\ k - 1 < n /\ (k - 1) + 1 = k /\ k # 0
    BY <1>0, <1>1, <1>6
  <2>1. /\ p[k] \in 1..Len(s) /\ q[k] \in p[k]..Len(s) /\ p[k] \in Nat /\ q[k] \in Nat
        /\ \A j \in p[k]..q[k] : s[j] # "/"
        /\ q[k] = Len(s) \/ s[q[k] + 1] = "/"
    BY <2>0, MarksAt
  <2>2. sub = From(s, p[k])
    BY <2>0, <1>3 DEF NextStretch
  <2>3. StretchFrom(s, "/", p[k], q[k])
    BY <2>1 DEF StretchFrom
  <2>4. m = q[k] - p[k] + 1 /\ SubSeq(sub, 1, q[k] - p[k] + 1) = SubSeq(s, p[k], q[k])
    BY <2>1, <2>2, <2>3, <1>4, StretchAt
  <2>5. From(sub, q[k] - p[k] + 2) = From(s, q[k] + 1)
    <3>1. p[k] \in Nat \ {0} /\ q[k] - p[k] + 2 \in Nat \ {0} /\ p[k] + (q[k] - p[k] + 2) - 1 = q[k] + 1
      BY <1>1, <2>1
    <3> QED BY <3>1, <2>2, FromFrom
  <2>6. (q[k] - p[k] + 1) + 1 = q[k] - p[k] + 2
    BY <2>1
  <2> QED BY <2>0, <2>4, <2>5, <2>6, <1>5, <1>6 DEF NameAt, LeftAt
<1>7. CASE ~ k <= n
  <2>1. ~ k - 1 < n /\ k # 0
    BY <1>0, <1>1, <1>7
  <2>2. sub = <<>>
    BY <2>1, <1>3 DEF NextStretch
  <2>3. m = 0
    BY <2>2, <1>4, SpanEmpty
  <2>4. From(<<>>, 0 + 1) = <<>>
    BY FromEmpty
  <2>5. SubSeq(<<>>, 1, 0) = <<>>
    OBVIOUS
  <2> QED BY <2>1, <2>2, <2>3, <2>4, <2>5, <1>5, <1>7 DEF NameAt, LeftAt
<1> QED BY <1>6, <1>7

WashLeft(path) ==
    LET left[k \in 0..Len(path)] == IF k = 0 THEN path ELSE path_parse(left[k - 1]).rest
    IN  left
WashNew(path) ==
    LET left[k \in 0..Len(path)] == IF k = 0 THEN path ELSE path_parse(left[k - 1]).rest
        new[k \in 0..Len(path)] ==
            IF k = 0 THEN <<"/">>
            ELSE LET name == path_parse(left[k - 1]).name
                 IN  IF name = <<>> THEN new[k - 1] ELSE Extended(new[k - 1], name)
    IN  new

LEMMA WashLeftLemma ==
    ASSUME NEW s \in Text, NEW n, NEW p, NEW q, Marks(s, Len(s), "/", n, p, q), NEW k \in 1..Len(s)
    PROVE  path_parse(WashLeft(s)[k - 1]).name = NameAt(s, k, n, p, q)
<1>0. Len(s) \in Nat
  BY DEF Text
<1>1. PICK g : g = [i \in 0..Len(s) |-> LeftAt(s, i, n, q)]
  OBVIOUS
<1>2. g[0] = s
  BY <1>0, <1>1 DEF LeftAt
<1>3. \A i \in 1..Len(s) : path_parse(g[i - 1]).name = NameAt(s, i, n, p, q) /\ g[i] = path_parse(g[i - 1]).rest
  <2> SUFFICES ASSUME NEW i \in 1..Len(s)
               PROVE  path_parse(g[i - 1]).name = NameAt(s, i, n, p, q) /\ g[i] = path_parse(g[i - 1]).rest
    OBVIOUS
  <2>1. i - 1 \in 0..Len(s) /\ i \in 0..Len(s)
    BY <1>0
  <2>2. PICK t : t = LeftAt(s, i - 1, n, q)
    OBVIOUS
  <2>3. path_parse(t).name = NameAt(s, i, n, p, q) /\ path_parse(t).rest = LeftAt(s, i, n, q)
    BY <2>2, path_parseLemma
  <2> QED BY <2>1, <2>2, <2>3, <1>1
<1>4. g = [i \in 0..Len(s) |-> IF i = 0 THEN s ELSE path_parse(g[i - 1]).rest]
  <2>1. \A i \in 0..Len(s) : i # 0 => i \in 1..Len(s)
    BY <1>0
  <2>2. DOMAIN g = 0..Len(s) /\ g = [i \in DOMAIN g |-> g[i]]
    BY <1>1
  <2> QED BY <2>1, <2>2, <1>2, <1>3
<1>5. PICK f : f = WashLeft(s)
  OBVIOUS
<1>6. f = [i \in 0..Len(s) |-> IF i = 0 THEN s ELSE path_parse(f[i - 1]).rest]
  BY <1>4, <1>5 DEF WashLeft
<1>7. \A i \in 0..Len(s) : f[i] = g[i]
  <2>0. 0 \in 0..Len(s) /\ \A i \in 1..Len(s) : i \in 0..Len(s) /\ i # 0
    BY <1>0
  <2>1. f[0] = g[0]
    BY <2>0, <1>2, <1>6
  <2>2. \A i \in 1..Len(s) : f[i - 1] = g[i - 1] => f[i] = g[i]
    BY <2>0, <1>3, <1>6
  <2> QED BY <1>0, <2>1, <2>2, LoopUnique
<1>8. k - 1 \in 0..Len(s)
  BY <1>0
<1> QED BY <1>3, <1>5, <1>7, <1>8

\* Where the names of a path lead is a sequence of names without "." and "..".
PlainName == PathName \ {<<".">>, <<".", ".">>}
UpNames(names) ==
    LET up[k \in 0..Len(names)] ==
            IF k = 0 THEN <<>>
            ELSE CASE names[k] = <<".", ".">> -> IF up[k - 1] = <<>> THEN <<>> ELSE Front(up[k - 1])
                   [] names[k] = <<".">>      -> up[k - 1]
                   [] OTHER                   -> Append(up[k - 1], names[k])
    IN  up

UpLoop(up, names) ==
    up = [k \in 0..Len(names) |->
            IF k = 0 THEN <<>>
            ELSE CASE names[k] = <<".", ".">> -> IF up[k - 1] = <<>> THEN <<>> ELSE Front(up[k - 1])
                   [] names[k] = <<".">>      -> up[k - 1]
                   [] OTHER                   -> Append(up[k - 1], names[k])]

LEMMA ResolvedIs == ASSUME NEW path PROVE Resolved(path) = UpNames(Words(path, "/"))[Len(Words(path, "/"))]
BY DEF Resolved, UpNames

LEMMA UpStepPlain ==
    ASSUME NEW w \in Seq(PlainName), NEW name \in PathName
    PROVE  UpStep(w, name) \in Seq(PlainName)
<1>0. PICK dd, d : dd = <<".", ".">> /\ d = <<".">>
  OBVIOUS
<1>1. CASE name = dd
  <2>1. UpStep(w, name) = IF w = <<>> THEN <<>> ELSE Front(w)
    BY <1>0, <1>1 DEF UpStep
  <2>2. Front(w) \in Seq(PlainName)
    <3>1. Len(w) \in Nat /\ w \in [1..Len(w) -> PlainName]
      OBVIOUS
    <3>2. CASE Len(w) = 0
      <4>1. w = <<>>
        BY <3>2
      <4>2. Front(w) = <<>>
        BY <4>1 DEF Front
      <4> QED BY <4>2
    <3>3. CASE Len(w) # 0
      <4>0. Len(w) \in Nat /\ Len(w) # 0
        BY <3>1, <3>3
      <4>1. PICK m \in Nat : m = Len(w) - 1
        BY <4>0
      <4>2. \A i \in 1..m : w[i] \in PlainName
        BY <3>1, <4>1
      <4>3. SubSeq(w, 1, m) \in Seq(PlainName)
        BY <3>1, <4>1, <4>2
      <4> QED BY <4>1, <4>3 DEF Front
    <3> QED BY <3>2, <3>3
  <2> QED BY <2>1, <2>2
<1>2. CASE name = d
  <2>0. d # dd
    BY <1>0
  <2>1. UpStep(w, name) = w
    BY <1>0, <1>2, <2>0 DEF UpStep
  <2> QED BY <2>1
<1>3. CASE name # dd /\ name # d
  <2>1. UpStep(w, name) = Append(w, name)
    BY <1>0, <1>3 DEF UpStep
  <2>2. name \in PlainName
    BY <1>0, <1>3 DEF PlainName
  <2> QED BY <2>1, <2>2, AppendProperties
<1> QED BY <1>1, <1>2, <1>3

LEMMA UpNamesLemma ==
    ASSUME NEW names, NEW n \in Nat, Len(names) = n, \A k \in 1..n : names[k] \in PathName
    PROVE  /\ UpNames(names)[0] = <<>>
           /\ \A k \in 1..n : UpNames(names)[k] = UpStep(UpNames(names)[k - 1], names[k])
           /\ \A k \in 0..n : UpNames(names)[k] \in Seq(PlainName)
<1> DEFINE V == Seq(PlainName)
<1>1. PICK step : step = [x \in V \X (1..n) |-> UpStep(x[1], names[x[2]])]
  OBVIOUS
<1>2. step \in [V \X (1..n) -> V] /\ \A v \in V : \A k \in 1..n : step[<<v, k>>] = UpStep(v, names[k])
  <2>1. ASSUME NEW x \in V \X (1..n) PROVE UpStep(x[1], names[x[2]]) \in V
    <3>1. x[1] \in V /\ x[2] \in 1..n
      OBVIOUS
    <3> QED BY <3>1, UpStepPlain
  <2>2. ASSUME NEW v \in V, NEW k \in 1..n PROVE step[<<v, k>>] = UpStep(v, names[k])
    <3>1. <<v, k>> \in V \X (1..n) /\ <<v, k>>[1] = v /\ <<v, k>>[2] = k
      OBVIOUS
    <3> HIDE DEF V
    <3> QED BY <3>1, <1>1
  <2> HIDE DEF V
  <2> QED BY <2>1, <2>2, <1>1
<1>3. <<>> \in V
  OBVIOUS
<1>4. PICK f : f \in [0..n -> V] /\ f[0] = <<>> /\ \A k \in 1..n : f[k] = step[<<f[k - 1], k>>]
  <2> HIDE DEF V
  <2>1. Steps(step, V, n)
    BY <1>2 DEF Steps
  <2>2. PICK e \in V : e = <<>>
    BY <1>3
  <2>3. PICK f : Loop(f, V, e, n, step)
    BY <2>1, LoopExists
  <2> QED BY <2>2, <2>3 DEF Loop
<1>5. \A k \in 1..n : f[k] = UpStep(f[k - 1], names[k])
  <2> SUFFICES ASSUME NEW k \in 1..n PROVE f[k] = UpStep(f[k - 1], names[k])
    OBVIOUS
  <2>1. k - 1 \in 0..n
    OBVIOUS
  <2>2. f[k - 1] \in V
    BY <2>1, <1>4
  <2> HIDE DEF V
  <2> QED BY <2>2, <1>2, <1>4
<1> HIDE DEF V
<1>6. f = [k \in 0..n |-> IF k = 0 THEN <<>> ELSE UpStep(f[k - 1], names[k])]
  <2>1. \A k \in 0..n : k # 0 => k \in 1..n
    OBVIOUS
  <2>2. f = [k \in 0..n |-> f[k]]
    BY <1>4
  <2> QED BY <2>1, <2>2, <1>4, <1>5
<1>7. PICK g : g = UpNames(names)
  OBVIOUS
<1>8. g = [k \in 0..n |-> IF k = 0 THEN <<>> ELSE UpStep(g[k - 1], names[k])]
  <2>1. UpNames(names) = CHOOSE x : UpLoop(x, names)
    BY DEF UpNames, UpLoop
  <2>2. UpLoop(f, names)
    BY <1>6, Len(names) = n DEF UpLoop, UpStep
  <2>3. UpLoop(g, names)
    BY <2>1, <2>2, <1>7
  <2> QED BY <2>3, Len(names) = n DEF UpLoop, UpStep
<1>9. \A k \in 1..n : k \in 0..n /\ k # 0
  OBVIOUS
<1>10. g[0] = <<>> /\ \A k \in 1..n : g[k] = UpStep(g[k - 1], names[k])
  BY <1>8, <1>9
<1>11. \A k \in 0..n : g[k] = f[k]
  <2>1. g[0] = f[0]
    BY <1>4, <1>10
  <2>2. \A k \in 1..n : g[k - 1] = f[k - 1] => g[k] = f[k]
    BY <1>5, <1>10
  <2>3. SameSteps(g, f, n)
    BY <2>1, <2>2 DEF SameSteps
  <2>4. SameValues(g, f, n)
    BY <2>3, LoopSame
  <2> QED BY <2>4 DEF SameValues
<1>12. \A k \in 0..n : g[k] \in V
  BY <1>4, <1>11
<1> QED BY <1>7, <1>10, <1>12 DEF V

\* wash_path (builtin_cmd.c:11) makes of every string a path written with nothing
\* but names that leads from the root where the string leads: its names are what
\* is left when each "." is dropped and each ".." takes the name before it.
THEOREM wash_pathTheorem ==
    ASSUME NEW s \in Text
    PROVE  /\ wash_path(s) \in CleanPath
           /\ Words(wash_path(s), "/") = Resolved(s)
           /\ Resolved(s) \in Seq(PlainName)
<1>0. PICK L \in Nat : L = Len(s)
  BY DEF Text
<1>1. PICK n, p, q : Marks(s, Len(s), "/", n, p, q)
  BY <1>0, MarksExist
<1>2. n \in Nat /\ n <= L
  <2>1. n \in Nat
    BY <1>1 DEF Marks
  <2> QED BY <2>1, <1>0, <1>1, MarksWords
<1>3. PICK names : names = Words(s, "/")
  OBVIOUS
<1>4. names \in Seq(Text) /\ names = [k \in 1..n |-> SubSeq(s, p[k], q[k])]
  <2>1. names \in Seq(Text)
    BY <1>3, WordsAre
  <2> QED BY <2>1, <1>1, <1>3, MarksWords DEF Parts
<1>5. Len(names) = n
  BY <1>2, <1>4
<1>6. \A k \in 1..n : names[k] \in PathName
  <2>1. \A k \in 1..n : names[k] \in Text
    <3>1. names \in Seq(Text) /\ n \in Nat
      BY <1>2, <1>4
    <3> QED BY <3>1, <1>5
  <2>2. \A k \in 1..n : names[k] # <<>> /\ \A i \in 1..Len(names[k]) : names[k][i] # "/"
    BY <1>3, <1>5, WordsAre
  <2> QED BY <2>1, <2>2 DEF PathName
<1>7. \A k \in 1..L : path_parse(WashLeft(s)[k - 1]).name = IF k <= n THEN names[k] ELSE <<>>
  <2> SUFFICES ASSUME NEW k \in 1..L
               PROVE  path_parse(WashLeft(s)[k - 1]).name = IF k <= n THEN names[k] ELSE <<>>
    OBVIOUS
  <2>1. path_parse(WashLeft(s)[k - 1]).name = NameAt(s, k, n, p, q)
    BY <1>0, <1>1, WashLeftLemma
  <2>2. k <= n => names[k] = SubSeq(s, p[k], q[k])
    <3>1. k <= n => k \in 1..n
      BY <1>2
    <3> QED BY <3>1, <1>4
  <2> QED BY <2>1, <2>2 DEF NameAt
<1>8. PICK nm : nm = [k \in 1..L |-> path_parse(WashLeft(s)[k - 1]).name]
  OBVIOUS
<1>9. \A k \in 1..L : IF k <= n THEN nm[k] = names[k] /\ nm[k] \in PathName /\ nm[k] # <<>> ELSE nm[k] = <<>>
  <2> SUFFICES ASSUME NEW k \in 1..L
               PROVE  IF k <= n THEN nm[k] = names[k] /\ nm[k] \in PathName /\ nm[k] # <<>> ELSE nm[k] = <<>>
    OBVIOUS
  <2>1. nm[k] = IF k <= n THEN names[k] ELSE <<>>
    BY <1>7, <1>8
  <2>2. k <= n => k \in 1..n
    BY <1>2
  <2>3. k <= n => names[k] \in PathName /\ names[k] # <<>>
    BY <2>2, <1>6 DEF PathName
  <2> QED BY <2>1, <2>3
<1>10. PICK step : step = [x \in CleanPath \X (1..L) |-> IF nm[x[2]] = <<>> THEN x[1] ELSE Extended(x[1], nm[x[2]])]
  OBVIOUS
<1>11. \A v \in CleanPath : \A k \in 1..L : (IF nm[k] = <<>> THEN v ELSE Extended(v, nm[k])) \in CleanPath
  BY <1>9, ExtendedClean
<1>12. step \in [CleanPath \X (1..L) -> CleanPath]
  BY <1>10, <1>11
<1>13. \A v \in CleanPath : \A k \in 1..L : step[<<v, k>>] = IF nm[k] = <<>> THEN v ELSE Extended(v, nm[k])
  <2> SUFFICES ASSUME NEW v \in CleanPath, NEW k \in 1..L
               PROVE  step[<<v, k>>] = IF nm[k] = <<>> THEN v ELSE Extended(v, nm[k])
    OBVIOUS
  <2>1. <<v, k>> \in CleanPath \X (1..L) /\ <<v, k>>[1] = v /\ <<v, k>>[2] = k
    OBVIOUS
  <2> QED BY <2>1, <1>10
<1>14. PICK f : f \in [0..L -> CleanPath] /\ f[0] = <<"/">> /\ \A k \in 1..L : f[k] = step[<<f[k - 1], k>>]
  <2>1. PICK base \in CleanPath : base = <<"/">>
    BY RootPath
  <2>2. Steps(step, CleanPath, L)
    BY <1>12 DEF Steps
  <2>3. PICK f : Loop(f, CleanPath, base, L, step)
    BY <2>2, LoopExists
  <2> QED BY <2>1, <2>3 DEF Loop
<1>15. \A k \in 1..L : f[k] = IF nm[k] = <<>> THEN f[k - 1] ELSE Extended(f[k - 1], nm[k])
  <2> SUFFICES ASSUME NEW k \in 1..L
               PROVE  f[k] = IF nm[k] = <<>> THEN f[k - 1] ELSE Extended(f[k - 1], nm[k])
    OBVIOUS
  <2>1. k - 1 \in 0..L
    OBVIOUS
  <2>2. f[k - 1] \in CleanPath
    BY <2>1, <1>14
  <2> QED BY <2>2, <1>13, <1>14
<1>16. f = [k \in 0..L |-> IF k = 0 THEN <<"/">>
                           ELSE IF path_parse(WashLeft(s)[k - 1]).name = <<>> THEN f[k - 1]
                                ELSE Extended(f[k - 1], path_parse(WashLeft(s)[k - 1]).name)]
  <2>1. \A k \in 0..L : k # 0 => k \in 1..L
    OBVIOUS
  <2>2. f = [k \in 0..L |-> f[k]]
    BY <1>14
  <2>3. \A k \in 1..L : nm[k] = path_parse(WashLeft(s)[k - 1]).name
    BY <1>8
  <2> QED BY <2>1, <2>2, <2>3, <1>14, <1>15
<1>17. PICK g : g = WashNew(s)
  OBVIOUS
<1>18. g = [k \in 0..L |-> IF k = 0 THEN <<"/">>
                           ELSE IF path_parse(WashLeft(s)[k - 1]).name = <<>> THEN g[k - 1]
                                ELSE Extended(g[k - 1], path_parse(WashLeft(s)[k - 1]).name)]
  BY <1>0, <1>16, <1>17 DEF WashNew, WashLeft
<1>19. \A k \in 0..L : g[k] = f[k]
  <2>0. 0 \in 0..L /\ \A k \in 1..L : k \in 0..L /\ k # 0 /\ nm[k] = path_parse(WashLeft(s)[k - 1]).name
    BY <1>8
  <2>1. g[0] = f[0]
    BY <2>0, <1>14, <1>18
  <2>2. \A k \in 1..L : g[k - 1] = f[k - 1] => g[k] = f[k]
    BY <2>0, <1>15, <1>18
  <2> QED BY <2>1, <2>2, LoopUnique
<1>20. wash_path(s) = f[L]
  <2>1. wash_path(s) = WashNew(s)[Len(s)]
    BY DEF wash_path, WashNew
  <2>2. L \in 0..L
    OBVIOUS
  <2> QED BY <2>1, <2>2, <1>0, <1>17, <1>19
<1>21. PICK up : up = UpNames(names)
  OBVIOUS
<1>22. up[0] = <<>> /\ (\A k \in 1..n : up[k] = UpStep(up[k - 1], names[k])) /\ (\A k \in 0..n : up[k] \in Seq(PlainName))
  BY <1>2, <1>5, <1>6, <1>21, UpNamesLemma
<1>23. Resolved(s) = up[n]
  BY <1>3, <1>5, <1>21, ResolvedIs
<1>24. PICK w : w = [k \in 0..L |-> Words(f[k], "/")]
  OBVIOUS
<1>25. PICK z : z = [k \in 0..L |-> IF k <= n THEN up[k] ELSE up[n]]
  OBVIOUS
<1>26. \A k \in 0..L : w[k] = z[k]
  <2>1. w[0] = z[0]
    <3>1. 0 \in 0..L /\ 0 <= n
      BY <1>2
    <3> QED BY <3>1, <1>14, <1>22, <1>24, <1>25, RootPath
  <2>2. \A k \in 1..L : w[k - 1] = z[k - 1] => w[k] = z[k]
    <3> SUFFICES ASSUME NEW k \in 1..L, w[k - 1] = z[k - 1] PROVE w[k] = z[k]
      OBVIOUS
    <3>1. k - 1 \in 0..L /\ k \in 0..L
      OBVIOUS
    <3>2. CASE k <= n
      <4>1. k \in 1..n /\ k - 1 <= n
        BY <3>2, <1>2
      <4>2. nm[k] = names[k] /\ nm[k] \in PathName /\ nm[k] # <<>>
        BY <3>2, <1>9
      <4>3. f[k] = Extended(f[k - 1], names[k]) /\ f[k - 1] \in CleanPath
        BY <3>1, <4>2, <1>14, <1>15
      <4>4. Words(f[k], "/") = UpStep(Words(f[k - 1], "/"), names[k])
        BY <4>2, <4>3, ExtendedClean
      <4>5. Words(f[k - 1], "/") = up[k - 1]
        BY <3>1, <4>1, <1>24, <1>25
      <4>6. up[k] = UpStep(up[k - 1], names[k])
        BY <4>1, <1>22
      <4> QED BY <3>1, <3>2, <4>4, <4>5, <4>6, <1>24, <1>25
    <3>3. CASE ~ k <= n
      <4>1. f[k] = f[k - 1]
        BY <3>3, <1>9, <1>15
      <4>2. z[k] = up[n] /\ w[k] = w[k - 1]
        BY <3>1, <3>3, <4>1, <1>24, <1>25
      <4>3. z[k - 1] = up[n]
        <5>1. CASE k - 1 <= n
          <6>1. k - 1 = n
            BY <5>1, <3>3, <1>2
          <6> QED BY <6>1, <5>1, <3>1, <1>25
        <5>2. CASE ~ k - 1 <= n
          BY <5>2, <3>1, <1>25
        <5> QED BY <5>1, <5>2
      <4> QED BY <4>2, <4>3
    <3> QED BY <3>2, <3>3
  <2> QED BY <2>1, <2>2, LoopUnique
<1>27. Words(f[L], "/") = up[n]
  <2>1. L \in 0..L /\ (L <= n => L = n)
    BY <1>2
  <2>2. w[L] = z[L] /\ w[L] = Words(f[L], "/")
    BY <2>1, <1>24, <1>26
  <2>3. z[L] = up[n]
    BY <2>1, <1>25
  <2> QED BY <2>2, <2>3
<1>28. f[L] \in CleanPath /\ up[n] \in Seq(PlainName)
  <2>1. L \in 0..L /\ n \in 0..n
    BY <1>2
  <2> QED BY <2>1, <1>14, <1>22
<1> QED BY <1>20, <1>23, <1>27, <1>28

----------------------------------------------------------------------------
(* The table of the built-in commands.                                      *)

LEMMA ModLemma ==
    ASSUME NEW a \in Nat, NEW b \in Nat \ {0}
    PROVE  a % b \in 0..(b - 1) /\ a % b \in Nat
OBVIOUS

HashLoop(h, word) ==
    h = [n \in 0..Len(word) |-> IF n = 0 THEN 0 ELSE (31 * h[n - 1] + Code[word[n]]) % HashMod]

LEMMA string_hashLemma ==
    ASSUME NEW word \in Text
    PROVE  string_hash(word) \in 0..(capacity - 1)
<1>0. PICK L \in Nat : L = Len(word)
  BY DEF Text
<1>1. \A k \in 1..L : Code[word[k]] \in Nat
  <2>1. \A k \in 1..L : word[k] \in Char
    BY <1>0 DEF Text
  <2> QED BY <2>1, CharAssumption
<1>2. HashMod \in Nat \ {0} /\ capacity \in Nat \ {0}
  BY ShellAssumption
<1>3. PICK c : c = [k \in 1..L |-> Code[word[k]]]
  OBVIOUS
<1>4. c \in [1..L -> Nat] /\ \A k \in 1..L : c[k] = Code[word[k]]
  BY <1>1, <1>3
<1>5. \A v \in Nat : \A k \in 1..L : (31 * v + c[k]) % HashMod \in Nat
  <2> SUFFICES ASSUME NEW v \in Nat, NEW k \in 1..L PROVE (31 * v + c[k]) % HashMod \in Nat
    OBVIOUS
  <2>1. c[k] \in Nat
    BY <1>4
  <2>2. PICK a \in Nat : a = 31 * v + c[k]
    BY <2>1
  <2>3. a % HashMod \in Nat
    BY <1>2, ModLemma
  <2> QED BY <2>2, <2>3
<1>6. PICK step : step = [x \in Nat \X (1..L) |-> (31 * x[1] + c[x[2]]) % HashMod]
  OBVIOUS
<1>7. Steps(step, Nat, L)
  <2>1. ASSUME NEW x \in Nat \X (1..L) PROVE (31 * x[1] + c[x[2]]) % HashMod \in Nat
    <3>1. x[1] \in Nat /\ x[2] \in 1..L
      OBVIOUS
    <3> QED BY <3>1, <1>5
  <2> QED BY <2>1, <1>6 DEF Steps
<1>8. PICK f : Loop(f, Nat, 0, L, step)
  <2>1. 0 \in Nat
    OBVIOUS
  <2> QED BY <2>1, <1>7, LoopExists
<1>9. f \in [0..L -> Nat] /\ f[0] = 0
  BY <1>8 DEF Loop
<1>10. \A k \in 1..L : f[k] = (31 * f[k - 1] + c[k]) % HashMod
  <2> SUFFICES ASSUME NEW k \in 1..L PROVE f[k] = (31 * f[k - 1] + c[k]) % HashMod
    OBVIOUS
  <2>1. k - 1 \in 0..L
    OBVIOUS
  <2>2. PICK v \in Nat : v = f[k - 1]
    BY <2>1, <1>9
  <2>3. f[k] = step[<<v, k>>]
    BY <2>2, <1>8 DEF Loop
  <2>4. <<v, k>> \in Nat \X (1..L) /\ <<v, k>>[1] = v /\ <<v, k>>[2] = k
    OBVIOUS
  <2>5. step[<<v, k>>] = (31 * v + c[k]) % HashMod
    BY <2>4, <1>6
  <2> QED BY <2>2, <2>3, <2>5
<1>11. HashLoop(f, word)
  <2>1. \A k \in 0..L : k # 0 => k \in 1..L
    OBVIOUS
  <2>2. f = [k \in 0..L |-> f[k]]
    BY <1>9
  <2> QED BY <2>1, <2>2, <1>0, <1>4, <1>9, <1>10 DEF HashLoop
<1>12. PICK g : g = CHOOSE h : HashLoop(h, word)
  OBVIOUS
<1>13. HashLoop(g, word)
  BY <1>11, <1>12
<1>14. string_hash(word) = g[Len(word)] % capacity
  BY <1>12 DEF string_hash, HashLoop
<1>15. SameSteps(g, f, L)
  <2>0. 0 \in 0..L /\ \A k \in 1..L : k \in 0..L /\ k # 0
    OBVIOUS
  <2>1. g[0] = f[0]
    BY <2>0, <1>0, <1>9, <1>13 DEF HashLoop
  <2>2. ASSUME NEW k \in 1..L, g[k - 1] = f[k - 1] PROVE g[k] = f[k]
    <3>1. g[k] = (31 * g[k - 1] + Code[word[k]]) % HashMod
      BY <2>0, <1>0, <1>13 DEF HashLoop
    <3> QED BY <2>2, <3>1, <1>4, <1>10
  <2> QED BY <2>1, <2>2 DEF SameSteps
<1>16. g[L] = f[L] /\ f[L] \in Nat
  <2>1. SameValues(g, f, L)
    BY <1>15, LoopSame
  <2>2. L \in 0..L
    OBVIOUS
  <2> QED BY <2>1, <2>2, <1>9 DEF SameValues
<1>17. PICK a \in Nat : a = g[L]
  BY <1>16
<1>18. a % capacity \in 0..(capacity - 1)
  BY <1>2, ModLemma
<1> QED BY <1>0, <1>14, <1>17, <1>18

\* A key is in the chain of its hash value.
Tables == [0..(capacity - 1) -> Seq(Text)]
InTable(nodes, key) == \E j \in 1..Len(nodes[string_hash(key)]) : nodes[string_hash(key)][j] = key

LEMMA hash_insertLemma ==
    ASSUME NEW nodes \in Tables, NEW key \in Text
    PROVE  /\ hash_insert(nodes, key) \in Tables
           /\ InTable(hash_insert(nodes, key), key)
           /\ \A other \in Text : InTable(nodes, other) => InTable(hash_insert(nodes, key), other)
<1>1. PICK h \in 0..(capacity - 1) : h = string_hash(key)
  BY string_hashLemma
<1>2. PICK chain \in Seq(Text) : chain = nodes[h]
  BY DEF Tables
<1>3. PICK C \in Nat : C = Len(chain)
  OBVIOUS
<1>4. PICK known \in BOOLEAN : known = \E i \in 1..(C - 1) : chain[i] = key
  OBVIOUS
<1>5. hash_insert(nodes, key) = IF known THEN nodes ELSE [nodes EXCEPT ![h] = Append(@, key)]
  BY <1>1, <1>2, <1>3, <1>4 DEF hash_insert
<1>6. CASE known
  <2>1. PICK i \in 1..(C - 1) : chain[i] = key
    BY <1>4, <1>6
  <2>2. i \in 1..C
    OBVIOUS
  <2>3. InTable(nodes, key)
    BY <2>1, <2>2, <1>1, <1>2, <1>3 DEF InTable
  <2> QED BY <2>3, <1>5, <1>6
<1>7. CASE ~ known
  <2>1. PICK new : new = [nodes EXCEPT ![h] = Append(@, key)]
    OBVIOUS
  <2>2. PICK longer : longer = Append(chain, key)
    OBVIOUS
  <2>3. longer \in Seq(Text) /\ Len(longer) = C + 1 /\ (\A i \in 1..C : longer[i] = chain[i]) /\ longer[C + 1] = key
    BY <2>2, <1>3, AppendProperties
  <2>4. new \in Tables /\ new[h] = longer /\ \A k \in 0..(capacity - 1) : k # h => new[k] = nodes[k]
    BY <2>1, <2>2, <2>3, <1>2 DEF Tables
  <2>5. hash_insert(nodes, key) = new
    BY <2>1, <1>5, <1>7
  <2>6. InTable(new, key)
    <3>1. C + 1 \in 1..Len(longer)
      BY <2>3
    <3> QED BY <3>1, <2>3, <2>4, <1>1 DEF InTable
  <2>7. ASSUME NEW other \in Text, InTable(nodes, other) PROVE InTable(new, other)
    <3>1. PICK k \in 0..(capacity - 1) : k = string_hash(other)
      BY string_hashLemma
    <3>2. PICK j \in 1..Len(nodes[k]) : nodes[k][j] = other
      BY <2>7, <3>1 DEF InTable
    <3>3. CASE k = h
      <4>1. j \in 1..C /\ j \in 1..(C + 1) /\ longer[j] = other
        BY <3>2, <3>3, <2>3, <1>2, <1>3
      <4> QED BY <3>1, <3>3, <4>1, <2>3, <2>4 DEF InTable
    <3>4. CASE k # h
      BY <3>1, <3>2, <3>4, <2>4 DEF InTable
    <3> QED BY <3>3, <3>4
  <2> QED BY <2>4, <2>5, <2>6, <2>7
<1> QED BY <1>6, <1>7

TableLoop(f) ==
    f = [n \in 0..Len(cmds) |-> IF n = 0 THEN [i \in 0..(capacity - 1) |-> <<>>]
                                ELSE hash_insert(f[n - 1], cmds[n])]

\* Every built-in command is in the table.
LEMMA cmd_listLemma ==
    ASSUME NEW i \in 1..Len(cmds)
    PROVE  InTable(cmd_list, cmds[i])
<1>0. PICK L \in Nat : L = Len(cmds)
  BY CharAssumption
<1>1. \A k \in 1..L : cmds[k] \in Text
  BY <1>0, CharAssumption DEF Text
<1>2. PICK step : step = [x \in Tables \X (1..L) |-> hash_insert(x[1], cmds[x[2]])]
  OBVIOUS
<1>3. Steps(step, Tables, L)
  <2>1. ASSUME NEW x \in Tables \X (1..L) PROVE hash_insert(x[1], cmds[x[2]]) \in Tables
    <3>1. x[1] \in Tables /\ x[2] \in 1..L
      OBVIOUS
    <3> QED BY <3>1, <1>1, hash_insertLemma
  <2> QED BY <2>1, <1>2 DEF Steps
<1>4. PICK base \in Tables : base = [k \in 0..(capacity - 1) |-> <<>>]
  <2>1. <<>> \in Seq(Text)
    OBVIOUS
  <2> QED BY <2>1 DEF Tables
<1>5. PICK f : Loop(f, Tables, base, L, step)
  BY <1>3, LoopExists
<1>6. f \in [0..L -> Tables] /\ f[0] = base
  BY <1>5 DEF Loop
<1>7. \A k \in 1..L : f[k] = hash_insert(f[k - 1], cmds[k]) /\ f[k - 1] \in Tables
  <2> SUFFICES ASSUME NEW k \in 1..L PROVE f[k] = hash_insert(f[k - 1], cmds[k]) /\ f[k - 1] \in Tables
    OBVIOUS
  <2>1. k - 1 \in 0..L
    OBVIOUS
  <2>2. PICK v \in Tables : v = f[k - 1]
    BY <2>1, <1>6
  <2>3. f[k] = step[<<v, k>>]
    BY <2>2, <1>5 DEF Loop
  <2>4. <<v, k>> \in Tables \X (1..L) /\ <<v, k>>[1] = v /\ <<v, k>>[2] = k
    OBVIOUS
  <2>5. step[<<v, k>>] = hash_insert(v, cmds[k])
    BY <2>4, <1>2
  <2> QED BY <2>2, <2>3, <2>5
<1>8. TableLoop(f)
  <2>1. \A k \in 0..L : k # 0 => k \in 1..L
    OBVIOUS
  <2>2. f = [k \in 0..L |-> f[k]]
    BY <1>6
  <2> QED BY <2>1, <2>2, <1>0, <1>4, <1>6, <1>7 DEF TableLoop
<1>9. PICK g : g = CHOOSE h : TableLoop(h)
  OBVIOUS
<1>10. TableLoop(g)
  BY <1>8, <1>9
<1>11. cmd_list = g[Len(cmds)]
  BY <1>9 DEF cmd_list, TableLoop
<1>12. SameSteps(g, f, L)
  <2>0. 0 \in 0..L /\ \A k \in 1..L : k \in 0..L /\ k # 0
    OBVIOUS
  <2>1. g[0] = f[0]
    BY <2>0, <1>0, <1>4, <1>6, <1>10 DEF TableLoop
  <2>2. ASSUME NEW k \in 1..L, g[k - 1] = f[k - 1] PROVE g[k] = f[k]
    <3>1. g[k] = hash_insert(g[k - 1], cmds[k])
      BY <2>0, <1>0, <1>10 DEF TableLoop
    <3> QED BY <2>2, <3>1, <1>7
  <2> QED BY <2>1, <2>2 DEF SameSteps
<1>13. cmd_list = f[L]
  <2>1. SameValues(g, f, L)
    BY <1>12, LoopSame
  <2>2. L \in 0..L
    OBVIOUS
  <2> QED BY <2>1, <2>2, <1>0, <1>11 DEF SameValues
<1>14. PICK T : T = {k \in Nat : k <= L /\ i <= k /\ ~ InTable(f[k], cmds[i])}
  OBVIOUS
<1>15. T = {}
  <2> SUFFICES ASSUME T # {} PROVE FALSE
    OBVIOUS
  <2>1. T \in SUBSET Nat
    BY <1>14
  <2>2. PICK m \in T : \A k \in T : m <= k
    BY <2>1, LeastIn
  <2>3. m \in 1..L /\ i <= m /\ ~ InTable(f[m], cmds[i])
    BY <2>2, <1>0, <1>14
  <2>4. f[m] = hash_insert(f[m - 1], cmds[m]) /\ f[m - 1] \in Tables /\ cmds[m] \in Text /\ cmds[i] \in Text
    BY <2>3, <1>0, <1>1, <1>7
  <2>5. CASE i = m
    BY <2>3, <2>4, <2>5, hash_insertLemma
  <2>6. CASE i # m
    <3>1. m - 1 \in Nat /\ m - 1 <= L /\ i <= m - 1 /\ ~ m <= m - 1
      BY <2>3, <2>6
    <3>2. InTable(f[m - 1], cmds[i])
      BY <3>1, <2>2, <1>14
    <3> QED BY <3>2, <2>3, <2>4, hash_insertLemma
  <2> QED BY <2>5, <2>6
<1>16. L \in Nat /\ L <= L /\ i <= L
  BY <1>0
<1> QED BY <1>13, <1>14, <1>15, <1>16

\* cmd2func (cmd_hash.c:19, hash_get of hash.c:70) finds every built-in command, for any capacity of the table
\* and any chains, although hash_insert does not compare the last node of a chain
\* with the key and so may link a name twice.
THEOREM cmd2funcTheorem ==
    ASSUME NEW i \in 1..Len(cmds)
    PROVE  cmd2func(cmds[i]) = cmds[i]
<1>1. PICK word, chain : word = cmds[i] /\ chain = cmd_list[string_hash(word)]
  OBVIOUS
<1>2. PICK I : I = {j \in 1..Len(chain) : chain[j] = word}
  OBVIOUS
<1>3. I # {}
  BY <1>1, <1>2, cmd_listLemma DEF InTable
<1>4. I \in SUBSET Nat
  BY <1>2
<1>5. PICK m \in I : \A j \in I : m <= j
  BY <1>3, <1>4, LeastIn
<1>6. Min(I) = m
  BY <1>4, <1>5, MinIs
<1>7. SelectInSeq(chain, LAMBDA key : key = word) = m
  BY <1>2, <1>3, <1>6 DEF SelectInSeq
<1>8. m # 0 /\ chain[m] = word
  BY <1>2, <1>5
<1> QED BY <1>1, <1>7, <1>8 DEF cmd2func

----------------------------------------------------------------------------
(* The commands of a line.                                                  *)

BarSet(s, i) == {j \in 1..i : s[j] = "|"}

LEMMA BarSetFinite ==
    ASSUME NEW s, NEW i \in Nat
    PROVE  IsFiniteSet(BarSet(s, i)) /\ Bars(s, i) = Cardinality(BarSet(s, i)) /\ Bars(s, i) \in Nat
<1>1. IsFiniteSet(1..i)
  BY FS_Interval
<1>2. BarSet(s, i) \subseteq 1..i
  BY DEF BarSet
<1>3. IsFiniteSet(BarSet(s, i))
  BY <1>1, <1>2, FS_Subset
<1>4. Cardinality(BarSet(s, i)) \in Nat
  BY <1>3, FS_CardinalityType
<1>5. Bars(s, i) = Cardinality(BarSet(s, i))
  BY DEF Bars, BarSet
<1> QED BY <1>3, <1>4, <1>5

LEMMA BarsUpTo ==
    ASSUME NEW s, NEW i \in Nat, NEW j \in Nat, i <= j
    PROVE  Bars(s, i) <= Bars(s, j)
<1>1. BarSet(s, i) \subseteq BarSet(s, j)
  BY DEF BarSet
<1> QED BY <1>1, BarSetFinite, FS_Subset

LEMMA BarsNone ==
    ASSUME NEW s, NEW i \in Nat, NEW j \in Nat, i <= j, \A k \in (i + 1)..j : s[k] # "|"
    PROVE  Bars(s, i) = Bars(s, j)
<1>1. BarSet(s, i) = BarSet(s, j)
  BY DEF BarSet
<1> QED BY <1>1, BarSetFinite

LEMMA BarsNext ==
    ASSUME NEW s, NEW i \in Nat, s[i + 1] = "|"
    PROVE  Bars(s, i + 1) = Bars(s, i) + 1
<1>1. BarSet(s, i + 1) = BarSet(s, i) \cup {i + 1} /\ i + 1 \notin BarSet(s, i)
  BY DEF BarSet
<1>2. i + 1 \in Nat
  OBVIOUS
<1>3. Cardinality(BarSet(s, i) \cup {i + 1}) = Cardinality(BarSet(s, i)) + 1
  BY <1>1, BarSetFinite, FS_AddElement
<1> QED BY <1>1, <1>2, <1>3, BarSetFinite

LEMMA BarsZero == ASSUME NEW s PROVE Bars(s, 0) = 0
<1>1. BarSet(s, 0) = {}
  BY DEF BarSet
<1> QED BY <1>1, BarSetFinite, FS_EmptySet

\* The command after a bar, or at the beginning of the line, up to a bar or the end.
CommandFrom(s, st, e) ==
    /\ st \in 1..(Len(s) + 1) /\ e \in (st - 1)..Len(s)
    /\ st = 1 \/ s[st - 1] = "|"
    /\ \A j \in st..e : s[j] # "|"
    /\ e = Len(s) \/ s[e + 1] = "|"

LEMMA CommandIs ==
    ASSUME NEW s \in Text, NEW st \in Nat, NEW e \in Nat, CommandFrom(s, st, e)
    PROVE  Command(s, Bars(s, st - 1) + 1) = SubSeq(s, st, e)
<1>0. PICK L \in Nat : L = Len(s)
  BY DEF Text
<1>1. st \in 1..(L + 1) /\ e \in (st - 1)..L
  BY <1>0 DEF CommandFrom
<1>2. st = 1 \/ s[st - 1] = "|"
  BY DEF CommandFrom
<1>3. \A j \in st..e : s[j] # "|"
  BY DEF CommandFrom
<1>4. e = L \/ s[e + 1] = "|"
  BY <1>0 DEF CommandFrom
<1>5. PICK a \in Nat : a = st - 1
  BY <1>1
<1>6. PICK b \in Nat : b = Bars(s, a)
  BY BarSetFinite
<1>7. PICK in : in = {i \in 1..L : s[i] # "|" /\ Bars(s, i) = b}
  OBVIOUS
<1>8. ASSUME NEW i \in 1..L, i < st, s[i] # "|" PROVE Bars(s, i) # b
  <2>1. st # 1 /\ s[a] = "|" /\ a # 0
    BY <1>1, <1>2, <1>5, <1>8
  <2>2. i <= a - 1 /\ a - 1 \in Nat /\ i \in Nat /\ (a - 1) + 1 = a
    BY <1>5, <1>8, <2>1
  <2>3. Bars(s, i) <= Bars(s, a - 1)
    BY <2>2, BarsUpTo
  <2>4. Bars(s, (a - 1) + 1) = Bars(s, a - 1) + 1
    BY <2>1, <2>2, BarsNext
  <2>5. Bars(s, i) \in Nat /\ Bars(s, a - 1) \in Nat
    BY <2>2, BarSetFinite
  <2> QED BY <2>2, <2>3, <2>4, <2>5, <1>6
<1>9. ASSUME NEW i \in st..e PROVE i \in 1..L /\ s[i] # "|" /\ Bars(s, i) = b
  <2>1. i \in 1..L /\ i \in Nat /\ a <= i /\ \A k \in (a + 1)..i : k \in st..e
    BY <1>1, <1>5
  <2>2. Bars(s, a) = Bars(s, i)
    BY <2>1, <1>3, BarsNone
  <2> QED BY <2>1, <2>2, <1>3, <1>6
<1>10. ASSUME NEW i \in 1..L, e < i PROVE Bars(s, i) # b
  <2>1. s[e + 1] = "|" /\ e + 1 <= i /\ e + 1 \in Nat /\ i \in Nat
    BY <1>1, <1>4, <1>10
  <2>2. Bars(s, e + 1) = Bars(s, e) + 1
    BY <2>1, BarsNext
  <2>3. Bars(s, e + 1) <= Bars(s, i)
    BY <2>1, BarsUpTo
  <2>4. Bars(s, a) = Bars(s, e)
    <3>1. a <= e /\ \A k \in (a + 1)..e : k \in st..e
      BY <1>1, <1>5
    <3> QED BY <3>1, <1>3, BarsNone
  <2>5. Bars(s, i) \in Nat /\ Bars(s, e) \in Nat
    BY <2>1, BarSetFinite
  <2> QED BY <2>2, <2>3, <2>4, <2>5, <1>6
<1>11. in = st..e
  <2>1. ASSUME NEW i \in in PROVE i \in st..e
    <3>1. i \in 1..L /\ s[i] # "|" /\ Bars(s, i) = b
      BY <1>7
    <3>2. ~ i < st /\ ~ e < i
      BY <3>1, <1>8, <1>10
    <3> QED BY <3>1, <3>2
  <2>2. ASSUME NEW i \in st..e PROVE i \in in
    BY <1>7, <1>9
  <2> QED BY <2>1, <2>2
<1>12. Command(s, b + 1) = IF in = {} THEN <<>> ELSE SubSeq(s, Min(in), Max(in))
  <2>1. (b + 1) - 1 = b
    OBVIOUS
  <2> QED BY <2>1, <1>0, <1>7 DEF Command
<1>13. CASE e < st
  <2>1. in = {} /\ e = st - 1
    BY <1>1, <1>11, <1>13
  <2>2. SubSeq(s, st, e) = <<>>
    BY <1>13
  <2> QED BY <2>1, <2>2, <1>5, <1>6, <1>12
<1>14. CASE ~ e < st
  <2>1. st \in in /\ e \in in /\ in \in SUBSET Nat /\ (\A x \in in : st <= x) /\ (\A x \in in : x <= e)
    BY <1>11, <1>14
  <2>2. Min(in) = st
    BY <2>1, MinIs
  <2>3. Max(in) = e
    BY <2>1, MaxIs
  <2>4. in # {}
    BY <2>1
  <2> QED BY <2>2, <2>3, <2>4, <1>5, <1>6, <1>12
<1> QED BY <1>13, <1>14

\* A piece of the line: where it ends, and that it is the command.
LEMMA PieceLemma ==
    ASSUME NEW s \in Text, NEW st \in 1..(Len(s) + 1), st = 1 \/ s[st - 1] = "|",
           NEW t, t = From(s, st)
    PROVE  /\ Piece(t) \in Text
           /\ Piece(t) = Command(s, Bars(s, st - 1) + 1)
           /\ Contains(t, "|") =>
                 \E c \in st..Len(s) : /\ s[c] = "|" /\ Bars(s, c) = Bars(s, st - 1) + 1
                                       /\ Behind(t) = From(s, c + 1)
           /\ ~ Contains(t, "|") => Piece(t) = t /\ Bars(s, Len(s)) = Bars(s, st - 1)
<1>0. PICK L \in Nat : L = Len(s)
  BY DEF Text
<1>1. t \in Text /\ Len(t) = L - st + 1 /\ \A j \in 1..(L - st + 1) : t[j] = s[st + j - 1]
  BY <1>0, FromIn
<1>2. PICK m : m = Span(t, Key \ {"|"})
  OBVIOUS
<1>3. m \in 0..Len(t) /\ (\A i \in 1..m : t[i] \in Key \ {"|"}) /\ (m = Len(t) \/ t[m + 1] \notin Key \ {"|"})
  BY <1>1, <1>2, SpanLemma
<1>4. m \in Nat /\ m <= L - st + 1 /\ st \in Nat /\ st >= 1 /\ st <= L + 1
  BY <1>0, <1>1, <1>3
<1>5. m # Len(t) => t[m + 1] = "|"
  <2> SUFFICES ASSUME m # Len(t) PROVE t[m + 1] = "|"
    OBVIOUS
  <2>1. m + 1 \in 1..Len(t)
    BY <1>1, <1>3, <1>4
  <2>2. t[m + 1] \in Char
    BY <2>1, <1>1 DEF Text
  <2> QED BY <2>2, <1>3, CharLemma
<1>6. PICK e \in Nat : e = st + m - 1
  BY <1>4
<1>7. e \in (st - 1)..L /\ e - st + 1 = m
  BY <1>4, <1>6
<1>8. \A j \in st..e : s[j] # "|"
  <2> SUFFICES ASSUME NEW j \in st..e PROVE s[j] # "|"
    OBVIOUS
  <2>1. j - st + 1 \in 1..m /\ j - st + 1 \in 1..(L - st + 1) /\ st + (j - st + 1) - 1 = j
    BY <1>4, <1>6
  <2>2. t[j - st + 1] = s[j]
    BY <2>1, <1>1
  <2> QED BY <2>1, <2>2, <1>3
<1>9. e # L => s[e + 1] = "|" /\ m # Len(t)
  <2> SUFFICES ASSUME e # L PROVE s[e + 1] = "|" /\ m # Len(t)
    OBVIOUS
  <2>1. m + 1 \in 1..(L - st + 1) /\ st + (m + 1) - 1 = e + 1 /\ m # L - st + 1
    BY <1>4, <1>6
  <2>2. t[m + 1] = s[e + 1]
    BY <2>1, <1>1
  <2> QED BY <2>1, <2>2, <1>1, <1>5
<1>10. CommandFrom(s, st, e)
  BY <1>0, <1>7, <1>8, <1>9 DEF CommandFrom
<1>11. Command(s, Bars(s, st - 1) + 1) = SubSeq(s, st, e)
  BY <1>4, <1>10, CommandIs
<1>12. PICK u, w : u = SubSeq(t, 1, m) /\ w = SubSeq(s, st, e)
  OBVIOUS
<1>13. u \in Text /\ Len(u) = m /\ \A j \in 1..m : u[j] = t[j]
  <2>1. t \in Seq(Char) /\ m \in 0..Len(t)
    BY <1>1, <1>3 DEF Text
  <2> QED BY <2>1, <1>12 DEF Text
<1>14. w \in Text /\ Len(w) = m /\ \A j \in 1..m : w[j] = s[st + j - 1]
  <2>1. s \in Seq(Char) /\ st \in 1..(L + 1) /\ e \in (st - 1)..L /\ L = Len(s)
    BY <1>0, <1>7 DEF Text
  <2>2. w \in Seq(Char) /\ Len(w) = e - st + 1 /\ \A j \in 1..(e - st + 1) : w[j] = s[st + j - 1]
    BY <2>1, <1>12, SubSeqProperties
  <2> QED BY <2>2, <1>7 DEF Text
<1>15. u = w
  <2>1. Len(u) = Len(w) /\ \A j \in 1..Len(u) : u[j] = w[j]
    BY <1>1, <1>4, <1>13, <1>14
  <2> QED BY <2>1, <1>13, <1>14, SameText
<1>16. Piece(t) = u
  BY <1>2, <1>12 DEF Piece
<1>17. ASSUME Contains(t, "|")
       PROVE  \E c \in st..Len(s) : /\ s[c] = "|" /\ Bars(s, c) = Bars(s, st - 1) + 1
                                    /\ Behind(t) = From(s, c + 1)
  <2>1. m # Len(t)
    BY <1>3, <1>17 DEF Contains
  <2>2. e # L
    BY <2>1, <1>1, <1>4, <1>6
  <2>3. s[e + 1] = "|" /\ e + 1 \in st..Len(s)
    BY <2>2, <1>0, <1>4, <1>6, <1>7, <1>9
  <2>4. Bars(s, e + 1) = Bars(s, e) + 1
    BY <2>3, BarsNext
  <2>5. Bars(s, st - 1) = Bars(s, e)
    <3>1. st - 1 \in Nat /\ st - 1 <= e /\ \A k \in (st - 1 + 1)..e : k \in st..e
      BY <1>4, <1>6
    <3> QED BY <3>1, <1>8, BarsNone
  <2>6. Behind(t) = From(s, (e + 1) + 1)
    <3>1. st \in Nat \ {0} /\ m + 2 \in Nat \ {0} /\ st + (m + 2) - 1 = (e + 1) + 1
      BY <1>4, <1>6
    <3>2. Behind(t) = From(t, m + 2)
      BY <1>2 DEF Behind
    <3> QED BY <3>1, <3>2, FromFrom
  <2> QED BY <2>3, <2>4, <2>5, <2>6
<1>18. ASSUME ~ Contains(t, "|") PROVE Piece(t) = t /\ Bars(s, Len(s)) = Bars(s, st - 1)
  <2>1. m = Len(t)
    <3> SUFFICES ASSUME m # Len(t) PROVE FALSE
      OBVIOUS
    <3>1. m + 1 \in 1..Len(t)
      BY <1>1, <1>3, <1>4
    <3> QED BY <3>1, <1>5, <1>18 DEF Contains
  <2>2. e = L
    BY <2>1, <1>1, <1>4, <1>6
  <2>3. Bars(s, st - 1) = Bars(s, L)
    <3>1. st - 1 \in Nat /\ st - 1 <= L /\ \A k \in (st - 1 + 1)..L : k \in st..e
      BY <2>2, <1>4
    <3> QED BY <3>1, <1>8, BarsNone
  <2>4. u = t
    BY <2>1, <1>12, <1>1, FromAll DEF From
  <2> QED BY <2>3, <2>4, <1>0, <1>16
<1> QED BY <1>11, <1>12, <1>13, <1>15, <1>16, <1>17, <1>18

----------------------------------------------------------------------------
(* The path that is cleared.                                                *)

ClearOK(c) ==
    LET goal == Resolved(IF c.given[1] = "/" THEN c.given
                         ELSE c.cwd \o <<"/">> \o c.given)
        to == c.to
    IN  /\ Words(to, "/") = goal
        /\ \A k \in 1..Len(goal) : goal[k] \notin {<<".">>, <<".", ".">>}
        /\ to # <<>> /\ to[1] = "/"
        /\ \A i \in 1..(Len(to) - 1) : to[i] = "/" => to[i + 1] # "/"
        /\ to[Len(to)] = "/" => Len(to) = 1

LEMMA ClearIs ==
    ASSUME NEW c, NEW x \in Text, NEW y,
           y = IF c.given[1] = "/" THEN c.given ELSE c.cwd \o <<"/">> \o c.given,
           c.to = wash_path(x), Resolved(x) = Resolved(y)
    PROVE  ClearOK(c) /\ c.to \in CleanPath
<1>1. PICK g : g = Resolved(y)
  OBVIOUS
<1>2. c.to \in CleanPath /\ Words(c.to, "/") = g /\ g \in Seq(PlainName)
  BY <1>1, wash_pathTheorem
<1>3. \A k \in 1..Len(g) : g[k] \in PlainName
  BY <1>2
<1>4. \A k \in 1..Len(g) : g[k] \notin {<<".">>, <<".", ".">>}
  BY <1>3 DEF PlainName
<1> QED BY <1>1, <1>2, <1>4 DEF ClearOK, CleanPath

\* Two strings with the same names lead to the same place.
LEMMA SameWords ==
    ASSUME NEW x, NEW y, Words(x, "/") = Words(y, "/")
    PROVE  Resolved(x) = Resolved(y)
BY ResolvedIs

\* A path from the root, and what PathClear compares it with.
LEMMA RootTwice ==
    ASSUME NEW path \in Text, NEW x, x = <<"/">> \o path, NEW y, y = <<"/">> \o <<"/">> \o path
    PROVE  x \in Text /\ Words(x, "/") = Words(y, "/")
<1>1. <<>> \in Text /\ <<"/">> \in Text /\ "/" \in Char /\ <<>> \o <<"/">> = <<"/">>
  BY RootPath, SlashChar DEF Text
<1>2. x = <<>> \o <<"/">> \o path
  BY <1>1
<1>3. x \in Text /\ Joined(x, <<>>, "/", path)
  BY <1>1, <1>2, JoinIs
<1>4. y \in Text /\ Joined(y, <<"/">>, "/", path)
  BY <1>1, JoinIs
<1>5. PICK e, r, sep : e = <<>> /\ r = <<"/">> /\ sep = "/"
  OBVIOUS
<1>6. Words(x, sep) = Words(e, sep) \o Words(path, sep)
  BY <1>1, <1>3, <1>5, WordsJoined
<1>7. Words(y, sep) = Words(r, sep) \o Words(path, sep)
  BY <1>1, <1>4, <1>5, WordsJoined
<1>8. Words(e, sep) = Words(r, sep)
  BY <1>5, WordsNone, RootPath
<1> QED BY <1>3, <1>5, <1>6, <1>7, <1>8

\* What make_clear_abs_path returns, wherever the shell is.
LEMMA ClearLemma ==
    ASSUME cwd \in CleanPath, NEW path \in Text, NEW c, c = Cleaned(path)
    PROVE  ClearOK(c) /\ c.to \in CleanPath
<1>1. PICK x : x = IF path[1] = "/" THEN path
                   ELSE IF cwd = <<"/">> THEN cwd \o path ELSE cwd \o <<"/">> \o path
  OBVIOUS
<1>2. c.cwd = cwd /\ c.given = path /\ c.to = wash_path(x)
  BY <1>1 DEF Cleaned, make_clear_abs_path
<1>3. PICK y : y = IF path[1] = "/" THEN path ELSE cwd \o <<"/">> \o path
  OBVIOUS
<1>4. cwd \in Text /\ "/" \in Char
  BY SlashChar DEF CleanPath
<1>5. x \in Text /\ Resolved(x) = Resolved(y)
  <2>1. CASE path[1] = "/"
    BY <2>1, <1>1, <1>3
  <2>2. CASE path[1] # "/" /\ cwd = <<"/">>
    BY <2>2, <1>1, <1>3, RootTwice, SameWords
  <2>3. CASE path[1] # "/" /\ cwd # <<"/">>
    <3>1. x = cwd \o <<"/">> \o path /\ y = cwd \o <<"/">> \o path
      BY <2>3, <1>1, <1>3
    <3>2. x \in Text
      BY <3>1, <1>4, JoinIs
    <3> QED BY <3>1, <3>2
  <2> QED BY <2>1, <2>2, <2>3
<1>6. y = IF c.given[1] = "/" THEN c.given ELSE c.cwd \o <<"/">> \o c.given
  BY <1>2, <1>3
<1> QED BY <1>2, <1>5, <1>6, ClearIs

LEMMA NoPathClear == ClearOK(NoPath)
<1>1. PICK c : c = NoPath
  OBVIOUS
<1>2. c.given = <<"/">> /\ c.to = <<"/">> /\ c.given[1] = "/"
  BY <1>1 DEF NoPath
<1>3. <<"/">> \in CleanPath /\ Words(<<"/">>, "/") = <<>>
  BY RootPath
<1>4. Resolved(<<"/">>) = <<>>
  <2>1. Resolved(<<"/">>) = UpNames(<<>>)[0]
    BY <1>3, ResolvedIs
  <2>2. Len(<<>>) = 0 /\ 0 \in Nat /\ \A k \in 1..0 : <<>>[k] \in PathName
    OBVIOUS
  <2>3. UpNames(<<>>)[0] = <<>>
    BY <2>2, UpNamesLemma
  <2> QED BY <2>1, <2>3
<1>5. ClearOK(c)
  BY <1>2, <1>3, <1>4 DEF ClearOK, CleanPath
<1> QED BY <1>1, <1>5

----------------------------------------------------------------------------
(* The pipe.                                                                *)

\* The descriptors fork, exit and close count.
LEMMA SharedLemma ==
    ASSUME NEW fds
    PROVE  /\ fds[3] = Slot /\ fds[4] = Slot => Shared(fds) = 2
           /\ fds[3] # Slot /\ fds[4] = Slot => Shared(fds) = 1
           /\ fds[3] # Slot /\ fds[4] # Slot => Shared(fds) = 0
<1> DEFINE S == {fd \in Fd : fd >= 3 /\ fds[fd] = Slot}
<1>0. \A fd : fd \in Fd /\ fd >= 3 <=> fd = 3 \/ fd = 4
  BY DEF Fd
<1>1. ASSUME fds[3] = Slot, fds[4] = Slot PROVE Cardinality(S) = 2
  <2>1. S = {3, 4}
    BY <1>0, <1>1
  <2>2. IsFiniteSet({}) /\ Cardinality({}) = 0
    BY FS_EmptySet
  <2>3. IsFiniteSet({} \cup {3}) /\ Cardinality({} \cup {3}) = 1
    BY <2>2, FS_AddElement
  <2>4. Cardinality({3} \cup {4}) = 2
    <3>1. {} \cup {3} = {3}
      OBVIOUS
    <3> QED BY <3>1, <2>3, FS_AddElement
  <2>5. {3} \cup {4} = {3, 4}
    OBVIOUS
  <2> QED BY <2>1, <2>4, <2>5
<1>2. ASSUME fds[3] # Slot, fds[4] = Slot PROVE Cardinality(S) = 1
  <2>1. S = {4}
    BY <1>0, <1>2
  <2> QED BY <2>1, FS_Singleton
<1>3. ASSUME fds[3] # Slot, fds[4] # Slot PROVE Cardinality(S) = 0
  <2>1. S = {}
    BY <1>0, <1>3
  <2> QED BY <2>1, FS_EmptySet
<1> QED BY <1>1, <1>2, <1>3 DEF Shared

Idle(fds) == fds[0] # Slot /\ fds[1] # Slot /\ fds[3] # Slot /\ fds[4] # Slot
Piped(fds) == fds[3] = Slot /\ fds[4] = Slot

\* Which descriptors are on the pipe, at each place of my_shell.
PipeInv ==
    /\ fd_table \in [Fd -> Int]
    /\ at = "read" => then = "read"
    /\ at \in {"first", "second", "middle"} => then \in {"first", "second", "middle"}
    /\ at \in {"close", "closed"} => then = "close"
    /\ then \in {"read", "first", "second", "middle", "close"}
    /\ at # "stopped" =>
          /\ child_fds # <<>> => at \in {"child", "blocked"} /\ child_fds = fd_table
          /\ at = "child" => child_fds = fd_table
          /\ then = "read" => Idle(fd_table)
          /\ then # "read" /\ at # "closed" => Piped(fd_table)
          /\ at = "closed" => fd_table[3] # Slot /\ fd_table[4] = Slot
          /\ PipeCounted

LEMMA PipeInit == Init => PipeInv
<1> SUFFICES ASSUME Init PROVE PipeInv
  OBVIOUS
<1>1. /\ at = "read" /\ then = "read" /\ child_fds = <<>> /\ count = 0
      /\ fd_table = [fd \in Fd |-> IF fd < 3 THEN fd ELSE -1]
  BY DEF Init
<1>2. fd_table \in [Fd -> Int] /\ Idle(fd_table)
  BY <1>1 DEF Idle, Fd, Slot
<1>3. Shared(fd_table) = 0
  BY <1>2, SharedLemma DEF Idle
<1> QED BY <1>1, <1>2, <1>3 DEF PipeInv, PipeCounted, Idle

LEMMA TableNonempty ==
    ASSUME NEW fds \in [Fd -> Int]
    PROVE  fds # <<>>
<1>1. 0 \in DOMAIN fds /\ 0 \notin DOMAIN <<>>
  BY DEF Fd
<1> QED BY <1>1

LEMMA PipeStep == PipeInv /\ [Next]_shellVars => PipeInv'
<1> SUFFICES ASSUME PipeInv, [Next]_shellVars PROVE PipeInv'
  OBVIOUS
<1>0. fd_table \in [Fd -> Int]
  BY DEF PipeInv
<1>a. {0, 1, 3, 4} \subseteq Fd /\ Slot \in Int /\ -1 # Slot /\ Slot = 3
  BY DEF Fd, Slot
<1>s. ASSUME UNCHANGED <<pipeVars, then>>, at' = at PROVE PipeInv'
  BY <1>s DEF PipeInv, PipeCounted, pipeVars, Idle, Piped, Shared
<1>r. ASSUME UNCHANGED <<fd_table, child_fds, count>>, then' = then, 
             at' = at \/ (at' = "blocked" /\ at \in {"child", "printing"}) \/ at' = "stopped"
      PROVE  PipeInv'
  BY <1>r DEF PipeInv, PipeCounted, Idle, Piped, Shared
<1>1. ASSUME NEW c \in Char, ReadChar(c) PROVE PipeInv'
  BY <1>1, <1>s DEF ReadChar, runVars
<1>2. CASE ReadBackspace
  BY <1>2, <1>s DEF ReadBackspace, runVars
<1>3. CASE ReadCtrlL
  BY <1>3, <1>s DEF ReadCtrlL, runVars
<1>4. CASE ReadCtrlU
  BY <1>4, <1>s DEF ReadCtrlU, runVars
<1>5. CASE ReadTooMuch
  BY <1>5, <1>r DEF ReadTooMuch, runVars, pipeVars
<1>6. CASE ReadNothing
  BY <1>6, <1>s DEF ReadNothing, runVars
<1>7. CASE ReadCommand
  BY <1>7 DEF ReadCommand, Read, pipeVars, PipeInv, PipeCounted, Idle, Piped, Shared
<1>8. CASE ReadPipeline
  <2>1. /\ at = "read" /\ at' = "first" /\ then' = "first" /\ count' = 2 /\ child_fds' = child_fds
        /\ fd_table' = fd_redirect(sys_pipe(fd_table), 1, 4)
    BY <1>8 DEF ReadPipeline, Read
  <2>2. fd_table' \in [Fd -> Int] /\ Piped(fd_table')
    BY <1>0, <1>a, <2>1 DEF fd_redirect, sys_pipe, Piped
  <2>3. Shared(fd_table') = 2
    BY <2>2, SharedLemma DEF Piped
  <2>4. child_fds = <<>>
    BY <2>1 DEF PipeInv
  <2> QED BY <2>1, <2>2, <2>3, <2>4, <1>a DEF PipeInv, PipeCounted, Piped, Shared
<1>9. CASE ParseNext
  BY <1>9 DEF ParseNext, pipeVars, PipeInv, PipeCounted, Idle, Piped, Shared
<1>10. CASE RedirectStdin
  <2>1. /\ at = "second" /\ at' = "middle" /\ then' = then /\ UNCHANGED <<child_fds, count>>
        /\ fd_table' = fd_redirect(fd_table, 0, 3)
    BY <1>10 DEF RedirectStdin
  <2>2. Piped(fd_table) /\ child_fds = <<>> /\ count = Shared(fd_table) + 0
    BY <2>1 DEF PipeInv, PipeCounted
  <2>3. fd_table' \in [Fd -> Int] /\ Piped(fd_table')
    BY <1>0, <1>a, <2>1, <2>2 DEF fd_redirect, Piped
  <2>4. Shared(fd_table) = 2 /\ Shared(fd_table') = 2
    BY <2>2, <2>3, SharedLemma DEF Piped
  <2> QED BY <2>1, <2>2, <2>3, <2>4, <1>a DEF PipeInv, PipeCounted, Piped, Shared
<1>11. CASE RecoverStdout
  <2>1. /\ at = "middle" /\ at' = "last" /\ then' = "close" /\ UNCHANGED <<child_fds, count>>
        /\ fd_table' = fd_redirect(fd_table, 1, 1)
    BY <1>11 DEF RecoverStdout
  <2>2. Piped(fd_table) /\ child_fds = <<>> /\ count = Shared(fd_table) + 0
    BY <2>1 DEF PipeInv, PipeCounted
  <2>3. fd_table' \in [Fd -> Int] /\ Piped(fd_table')
    BY <1>0, <1>a, <2>1, <2>2 DEF fd_redirect, Piped
  <2>4. Shared(fd_table) = 2 /\ Shared(fd_table') = 2
    BY <2>2, <2>3, SharedLemma DEF Piped
  <2> QED BY <2>1, <2>2, <2>3, <2>4, <1>a DEF PipeInv, PipeCounted, Piped, Shared
<1>12. CASE ParseLast
  BY <1>12 DEF ParseLast, pipeVars, PipeInv, PipeCounted, Idle, Piped, Shared
<1>13. CASE ExecuteBad
  BY <1>13, <1>r DEF ExecuteBad, pipeVars
<1>14. CASE ExecutePlain
  BY <1>14 DEF ExecutePlain, Execute, pipeVars, PipeInv, PipeCounted, Idle, Piped, Shared
<1>15. CASE ExecutePath
  BY <1>15 DEF ExecutePath, Execute, pipeVars, PipeInv, PipeCounted, Idle, Piped, Shared
<1>16. CASE builtin_cd
  BY <1>16 DEF builtin_cd, Execute, pipeVars, PipeInv, PipeCounted, Idle, Piped, Shared
<1>17. CASE ExecuteOther
  <2>1. /\ at = "execute" /\ at' = "child" /\ UNCHANGED <<then, fd_table>>
        /\ child_fds' = fd_table /\ count' = count + Shared(fd_table)
    BY <1>17 DEF ExecuteOther, Execute, Forked
  <2>2. child_fds = <<>> /\ count = Shared(fd_table) + 0 /\ fd_table # <<>>
    BY <2>1, <1>0, TableNonempty DEF PipeInv, PipeCounted
  <2>3. Shared(fd_table) \in Nat /\ (then # "read" => Shared(fd_table) = 2)
    <3>1. Idle(fd_table) \/ Piped(fd_table)
      BY <2>1 DEF PipeInv
    <3> QED BY <3>1, <2>1, SharedLemma DEF Idle, Piped, PipeInv
  <2>4. PipeCounted'
    BY <2>1, <2>2, <2>3 DEF PipeInv, PipeCounted, Idle, Shared
  <2> QED BY <2>1, <2>4 DEF PipeInv, Idle, Piped
<1>18. ASSUME NEW n \in Outputs, ChildWrites(n) PROVE PipeInv'
  BY <1>18, <1>r DEF ChildWrites, sys_write
<1>19. ASSUME NEW n \in Outputs, ChildReads(n) PROVE PipeInv'
  BY <1>19, <1>r DEF ChildReads
<1>20. ASSUME NEW n \in Outputs, Prints(n) PROVE PipeInv'
  BY <1>20, <1>r DEF Prints, sys_write
<1>21. CASE ChildExits
  <2>1. /\ at = "child" /\ at' = "printing" /\ UNCHANGED <<then, fd_table>>
        /\ child_fds' = <<>> /\ count' = count - Shared(child_fds)
    BY <1>21 DEF ChildExits
  <2>2. child_fds = fd_table /\ fd_table # <<>>
    BY <2>1, <1>0, TableNonempty DEF PipeInv
  <2>3. Shared(fd_table) \in Nat /\ (then # "read" => Shared(fd_table) = 2)
    <3>1. Idle(fd_table) \/ Piped(fd_table)
      BY <2>1 DEF PipeInv
    <3> QED BY <3>1, <2>1, SharedLemma DEF Idle, Piped, PipeInv
  <2>4. count = Shared(fd_table) + Shared(fd_table)
    BY <2>1, <2>2 DEF PipeInv, PipeCounted
  <2>5. count' = Shared(fd_table)
    BY <2>1, <2>2, <2>3, <2>4
  <2>6. PipeCounted'
    BY <2>1, <2>3, <2>5 DEF PipeInv, PipeCounted, Idle, Shared
  <2> QED BY <2>1, <2>6 DEF PipeInv, Idle, Piped
<1>22. CASE CommandOver
  BY <1>22 DEF CommandOver, pipeVars, PipeInv, PipeCounted, Idle, Piped, Shared
<1>23. CASE CloseRead
  <2>1. PICK fds : fds = fd_redirect(fd_table, 0, 0)
    OBVIOUS
  <2>2. /\ at = "close" /\ at' = IF count' = 0 THEN "stopped" ELSE "closed"
        /\ UNCHANGED <<then, child_fds>> /\ count' = count - 1
        /\ fd_table' = IF count' = 0 THEN fds ELSE [fds EXCEPT ![3] = -1]
    BY <1>23, <2>1 DEF CloseRead, sys_close
  <2>3. then = "close" /\ Piped(fd_table) /\ child_fds = <<>> /\ count = Shared(fd_table) + 0
    BY <2>2 DEF PipeInv, PipeCounted
  <2>4. Shared(fd_table) = 2
    BY <2>3, SharedLemma DEF Piped
  <2>5. count' = 1 /\ at' = "closed" /\ fd_table' = [fds EXCEPT ![3] = -1]
    BY <2>2, <2>3, <2>4
  <2>6. fds \in [Fd -> Int] /\ fds[4] = Slot
    BY <1>0, <1>a, <2>1, <2>3 DEF fd_redirect, Piped
  <2>7. fd_table' \in [Fd -> Int] /\ fd_table'[3] # Slot /\ fd_table'[4] = Slot
    BY <1>a, <2>5, <2>6
  <2>8. Shared(fd_table') = 1
    BY <2>7, SharedLemma
  <2>9. PipeCounted'
    BY <2>2, <2>3, <2>5, <2>8 DEF PipeCounted, Shared
  <2> QED BY <2>2, <2>3, <2>5, <2>7, <2>9 DEF PipeInv
<1>24. CASE CloseWrite
  <2>1. /\ at = "closed" /\ at' = IF count' = 0 THEN "stopped" ELSE "read"
        /\ then' = then /\ count' = count - 1
        /\ fd_table' = IF count' = 0 THEN fd_table ELSE [fd_table EXCEPT ![4] = -1]
    BY <1>24 DEF CloseWrite, sys_close
  <2>2. then = "close" /\ fd_table[3] # Slot /\ fd_table[4] = Slot /\ count = Shared(fd_table) + 0
    BY <2>1 DEF PipeInv, PipeCounted
  <2>3. Shared(fd_table) = 1
    BY <2>2, SharedLemma
  <2>4. at' = "stopped" /\ fd_table' = fd_table
    BY <2>1, <2>2, <2>3
  <2> QED BY <1>0, <2>1, <2>2, <2>4 DEF PipeInv
<1>25. CASE UNCHANGED shellVars
  BY <1>25, <1>s DEF shellVars
<1> QED
  BY <1>1, <1>2, <1>3, <1>4, <1>5, <1>6, <1>7, <1>8, <1>9, <1>10, <1>11, <1>12, <1>13, <1>14,
     <1>15, <1>16, <1>17, <1>18, <1>19, <1>20, <1>21, <1>22, <1>23, <1>24, <1>25 DEF Next

\* As long as the kernel runs, fd_pos of the pipe's slot is the number of
\* descriptors on it, through fork (fork.c:97), exit (wait_exit.c:53) and close
\* (fs.c:360), and while stdin or stdout goes to the pipe that number is not 0.
THEOREM PipeCountedTheorem == ShellSpec => []PipeCounted
<1>1. Init => PipeInv
  BY PipeInit
<1>2. PipeInv /\ [Next]_shellVars => PipeInv'
  BY PipeStep
<1>3. PipeInv => PipeCounted
  BY DEF PipeInv, PipeCounted
<1> QED BY <1>1, <1>2, <1>3, PTL DEF ShellSpec

----------------------------------------------------------------------------
(* The line that is read, and its commands.                                 *)

Running == {"execute", "printing", "child", "blocked"}

\* While a line is read, cmd_line holds what the user means up to pos.
InputInv ==
    /\ line \in Text
    /\ buf \in [0..(cmd_len - 1) -> Key \cup {NUL}]
    /\ at = "read" => /\ nr = 0 /\ pos = Len(line) /\ pos <= cmd_len
                      /\ \A i \in 0..(pos - 1) : buf[i] = line[i + 1]
    /\ at \notin {"read", "stopped"} => pos = 0

\* What is left of the line begins behind the bar of the last command executed.
RestIs ==
    \E st \in 1..(Len(line) + 1) :
        /\ rest = From(line, st)
        /\ Bars(line, st - 1) = nr
        /\ st = 1 \/ line[st - 1] = "|"

\* It is a string in any case, and nothing is left of it once a cd has cleared it.
Left ==
    /\ rest \in Text /\ each_cmd \in Nat
    /\ erased = "no" => RestIs
    /\ erased = "all" => rest = <<>>

LineInv ==
    /\ at \in Running \cup {"read", "first", "second", "middle", "last", "close", "closed", "stopped"}
    /\ at = "read" => erased = "no"
    /\ at = "last" => /\ then \in {"read", "close"} /\ ~ Contains(rest, "|")
                      /\ then = "read" => erased = "no"
    /\ at \in Running => then \in {"read", "second", "middle", "close"}
    /\ at \in {"first", "second", "middle", "last"} => Left
    /\ at \in Running /\ then \in {"second", "middle"} => Left
    /\ at = "execute" => /\ argv \in Seq(Text)
                         /\ \A k \in 1..Len(argv) : argv[k] # <<>>

\* The working directory, and the last path that was looked up, are clean.
PathInv == cwd \in CleanPath /\ ClearOK(clear)

TypedInv == PipeInv /\ InputInv /\ LineInv /\ ExecutesWhatWasTyped

\* What enter hands over is the line the user means, and nothing behind it.
LEMMA CmdLineIs ==
    ASSUME InputInv, Read
    PROVE  CmdLine = line
<1>1. PICK L \in Nat, N \in Nat : L = Len(line) /\ N = cmd_len
  BY ShellAssumption DEF InputInv, Text
<1>2. /\ line \in Seq(Char) /\ pos = L /\ L < N
      /\ buf \in [0..(N - 1) -> Key \cup {NUL}]
      /\ \A i \in 0..(L - 1) : buf[i] = line[i + 1]
  BY <1>1 DEF InputInv, Read, Text
<1>3. PICK T : T = [buf EXCEPT ![L] = NUL]
  OBVIOUS
<1>4. Terminated = T
  BY <1>2, <1>3 DEF Terminated, Stored
<1>5. T[L] = NUL
  BY <1>2, <1>3
<1>6. \A i \in 0..(L - 1) : T[i] = line[i + 1] /\ T[i] # NUL
  <2> TAKE i \in 0..(L - 1)
  <2>1. T[i] = buf[i]
    BY <1>2, <1>3
  <2>2. i + 1 \in 1..L
    OBVIOUS
  <2>3. line[i + 1] \in Char
    BY <1>1, <1>2, <2>2
  <2> QED BY <1>2, <2>1, <2>3, CharLemma
<1>7. PICK end : end = CHOOSE i \in 0..N : /\ i < N => T[i] = NUL
                                           /\ \A j \in 0..(i - 1) : T[j] # NUL
  OBVIOUS
<1>8. end \in 0..N /\ (end < N => T[end] = NUL) /\ \A j \in 0..(end - 1) : T[j] # NUL
  <2>1. L \in 0..N /\ (L < N => T[L] = NUL) /\ \A j \in 0..(L - 1) : T[j] # NUL
    BY <1>2, <1>5, <1>6
  <2> QED BY <1>7, <2>1
<1>9. end = L
  <2>1. ~ end < L
    BY <1>2, <1>6, <1>8
  <2>2. ~ L < end
    BY <1>5, <1>8
  <2> QED BY <2>1, <2>2, <1>8
<1>10. CmdLine = [i \in 1..L |-> T[i - 1]]
  BY <1>1, <1>4, <1>7, <1>9 DEF CmdLine
<1>11. \A i \in 1..L : T[i - 1] = line[i]
  <2> TAKE i \in 1..L
  <2>1. i - 1 \in 0..(L - 1) /\ (i - 1) + 1 = i
    OBVIOUS
  <2> QED BY <2>1, <1>6
<1>12. line = [i \in 1..L |-> line[i]]
  BY <1>1, <1>2
<1> QED BY <1>10, <1>11, <1>12

LEMMA TypedInit == Init => TypedInv
<1> SUFFICES ASSUME Init PROVE TypedInv
  OBVIOUS
<1>1. PipeInv
  BY PipeInit
<1>2. <<>> \in Text /\ Len(<<>>) = 0 /\ cmd_len \in Nat
  BY ShellAssumption DEF Text
<1>3. InputInv
  BY <1>2 DEF Init, InputInv
<1>4. LineInv /\ ExecutesWhatWasTyped
  BY DEF Init, LineInv, Running, ExecutesWhatWasTyped
<1> QED BY <1>1, <1>3, <1>4 DEF TypedInv

\* The line is empty again: ctrl + u, or the next one.
LEMMA EmptyLine ==
    ASSUME buf' \in [0..(cmd_len - 1) -> Key \cup {NUL}], pos' = 0, line' = <<>>,
           at' = "read" => nr' = 0
    PROVE  InputInv'
<1>1. <<>> \in Text /\ Len(<<>>) = 0 /\ cmd_len \in Nat
  BY ShellAssumption DEF Text
<1> QED BY <1>1 DEF InputInv

\* A key that is read, and the keys that delete.
LEMMA ReadCharStep ==
    ASSUME InputInv, NEW c \in Char, ReadChar(c)
    PROVE  InputInv'
<1>1. PICK L \in Nat, N \in Nat : L = Len(line) /\ N = cmd_len
  BY ShellAssumption DEF InputInv, Text
<1>2. /\ line \in Seq(Char) /\ at = "read" /\ nr = 0 /\ pos = L /\ L < N
      /\ buf \in [0..(N - 1) -> Key \cup {NUL}]
      /\ \A i \in 0..(L - 1) : buf[i] = line[i + 1]
  BY <1>1 DEF InputInv, Read, Text, ReadChar
<1>3. /\ buf' = [buf EXCEPT ![L] = c] /\ pos' = L + 1 /\ line' = Append(line, c)
      /\ at' = "read" /\ nr' = 0
  BY <1>2 DEF ReadChar, Stored, runVars
<1>4. /\ line' \in Seq(Char) /\ Len(line') = L + 1 /\ line'[L + 1] = c
      /\ \A i \in 1..L : line'[i] = line[i]
  BY <1>1, <1>2, <1>3, AppendProperties
<1>5. buf' \in [0..(N - 1) -> Key \cup {NUL}]
  BY <1>2, <1>3, CharLemma
<1>6. \A i \in 0..((L + 1) - 1) : buf'[i] = line'[i + 1]
  <2> TAKE i \in 0..((L + 1) - 1)
  <2>1. CASE i = L
    BY <2>1, <1>2, <1>3, <1>4
  <2>2. CASE i # L
    <3>1. i \in 0..(L - 1) /\ i + 1 \in 1..L /\ i \in 0..(N - 1)
      BY <2>2, <1>2
    <3> QED BY <2>2, <3>1, <1>2, <1>3, <1>4
  <2> QED BY <2>1, <2>2
<1>7. L + 1 <= N
  BY <1>2
<1> QED BY <1>1, <1>3, <1>4, <1>5, <1>6, <1>7 DEF InputInv, Text

LEMMA ReadBackspaceStep ==
    ASSUME InputInv, ReadBackspace
    PROVE  InputInv'
<1>1. PICK L \in Nat, N \in Nat : L = Len(line) /\ N = cmd_len
  BY ShellAssumption DEF InputInv, Text
<1>2. /\ line \in Seq(Char) /\ at = "read" /\ nr = 0 /\ pos = L /\ L < N
      /\ buf \in [0..(N - 1) -> Key \cup {NUL}]
      /\ \A i \in 0..(L - 1) : buf[i] = line[i + 1]
  BY <1>1 DEF InputInv, Read, Text, ReadBackspace
<1>3. /\ buf' = [buf EXCEPT ![L] = BS] /\ pos' = Backspaced(L)
      /\ line' = IF line = <<>> THEN line ELSE Front(line)
      /\ at' = "read" /\ nr' = 0
  BY <1>2 DEF ReadBackspace, Stored, runVars
<1>4. buf' \in [0..(N - 1) -> Key \cup {NUL}]
  BY <1>2, <1>3 DEF Key
<1>5. Backspaced(L) = IF buf'[0] # BS THEN L - 1 ELSE L
  BY <1>2, <1>3 DEF Backspaced, Stored
<1>6. CASE L = 0
  <2>1. L \in 0..(N - 1)
    BY <1>2
  <2>2. buf'[L] = BS
    BY <1>2, <1>3, <2>1
  <2>3. line = <<>>
    BY <1>1, <1>2, <1>6, EmptySeq
  <2>4. pos' = 0 /\ line' = <<>>
    BY <1>3, <1>5, <1>6, <2>2, <2>3
  <2> QED BY <1>1, <1>3, <1>4, <2>4, EmptyLine
<1>7. CASE L # 0
  <2>1. L - 1 \in Nat /\ L - 1 <= N /\ line # <<>> /\ 0 \in 0..(L - 1) /\ 1 \in 1..L
    BY <1>1, <1>2, <1>7
  <2>2. line[1] \in Char
    BY <1>1, <1>2, <2>1
  <2>3. buf'[0] = line[1]
    BY <1>2, <1>3, <1>7, <2>1
  <2>4. pos' = L - 1
    BY <1>3, <1>5, <2>2, <2>3, CharLemma
  <2>5. line' = SubSeq(line, 1, L - 1)
    BY <1>1, <1>3, <2>1 DEF Front
  <2>6. /\ line' \in Seq(Char) /\ Len(line') = L - 1
        /\ \A i \in 1..(L - 1) : line'[i] = line[i]
    BY <1>1, <1>2, <2>1, <2>5
  <2>7. \A i \in 0..((L - 1) - 1) : buf'[i] = line'[i + 1]
    <3> TAKE i \in 0..((L - 1) - 1)
    <3>1. i \in 0..(L - 1) /\ i + 1 \in 1..(L - 1) /\ i \in 0..(N - 1) /\ i # L
      BY <1>2, <1>7
    <3> QED BY <3>1, <1>2, <1>3, <2>6
  <2> QED BY <1>1, <1>3, <1>4, <2>1, <2>4, <2>6, <2>7 DEF InputInv, Text
<1> QED BY <1>6, <1>7

LEMMA ReadCtrlLStep ==
    ASSUME InputInv, ReadCtrlL
    PROVE  InputInv'
<1>1. PICK L \in Nat, N \in Nat : L = Len(line) /\ N = cmd_len
  BY ShellAssumption DEF InputInv, Text
<1>2. /\ at = "read" /\ nr = 0 /\ pos = L /\ L < N
      /\ buf \in [0..(N - 1) -> Key \cup {NUL}]
      /\ \A i \in 0..(L - 1) : buf[i] = line[i + 1]
  BY <1>1 DEF InputInv, Read, ReadCtrlL
<1>3. buf' = [buf EXCEPT ![L] = NUL] /\ UNCHANGED <<pos, line, at, nr>>
  BY <1>2 DEF ReadCtrlL, Stored, runVars
<1>4. buf' \in [0..(N - 1) -> Key \cup {NUL}]
  BY <1>2, <1>3
<1>5. \A i \in 0..(L - 1) : buf'[i] = line[i + 1]
  BY <1>2, <1>3
<1> QED BY <1>1, <1>2, <1>3, <1>4, <1>5 DEF InputInv

LEMMA ReadCtrlUStep ==
    ASSUME InputInv, ReadCtrlU
    PROVE  InputInv'
<1>1. cmd_len \in Nat /\ buf \in [0..(cmd_len - 1) -> Key \cup {NUL}] /\ nr = 0
  BY ShellAssumption DEF InputInv, ReadCtrlU, Read
<1>2. \A i \in 0..(cmd_len - 1) : (IF i \in 1..pos THEN NUL ELSE IF i = pos THEN CtrlU ELSE buf[i]) \in Key \cup {NUL}
  BY <1>1 DEF Key
<1>3. buf' \in [0..(cmd_len - 1) -> Key \cup {NUL}]
  BY <1>2 DEF ReadCtrlU
<1>4. pos' = 0 /\ line' = <<>> /\ nr' = 0
  BY <1>1 DEF ReadCtrlU, runVars
<1> QED BY <1>3, <1>4, EmptyLine

LEMMA ClearedBuf ==
    ASSUME Cleared
    PROVE  buf' \in [0..(cmd_len - 1) -> Key \cup {NUL}] /\ pos' = 0
BY DEF Cleared

\* The whole line is what is left when enter has been read.
LEMMA WholeLine ==
    ASSUME InputInv, Read
    PROVE  \E st \in 1..(Len(line) + 1) :
               line = From(line, st) /\ Bars(line, st - 1) = nr /\ (st = 1 \/ line[st - 1] = "|")
<1>1. Len(line) \in Nat /\ line \in Text /\ nr = 0
  BY DEF InputInv, Read, Text
<1>2. line = From(line, 1)
  BY <1>1, FromAll
<1>3. Bars(line, 1 - 1) = nr
  BY <1>1, BarsZero
<1>4. 1 \in 1..(Len(line) + 1)
  BY <1>1
<1> QED BY <1>2, <1>3, <1>4

\* One command is cut off the line, and the others are left.
LEMMA ParseNextStep ==
    ASSUME line \in Text, RestIs, ParseNext
    PROVE  /\ RestIs'
           /\ argv' = Words(Command(line, nr + 1), Blank)
           /\ argv' \in Seq(Text) /\ \A k \in 1..Len(argv') : argv'[k] # <<>>
           /\ nr + 1 <= Bars(line, Len(line))
<1>0. PICK L \in Nat : L = Len(line)
  BY DEF Text
<1>1. PICK st \in 1..(Len(line) + 1) : /\ rest = From(line, st)
                                       /\ Bars(line, st - 1) = nr
                                       /\ st = 1 \/ line[st - 1] = "|"
  BY DEF RestIs
<1>2. /\ Contains(rest, "|") /\ argv' = cmd_parse(Piece(rest)) /\ rest' = Behind(rest)
      /\ nr' = nr + 1 /\ line' = line
  BY DEF ParseNext
<1>3. Piece(rest) \in Text /\ Piece(rest) = Command(line, nr + 1)
  BY <1>1, PieceLemma
<1>4. PICK c \in st..Len(line) : /\ line[c] = "|" /\ Bars(line, c) = nr + 1
                                 /\ Behind(rest) = From(line, c + 1)
  BY <1>1, <1>2, PieceLemma
<1>5. c \in Nat /\ c <= L /\ c + 1 \in 1..(L + 1) /\ (c + 1) - 1 = c
  BY <1>0, <1>1, <1>4
<1>6. RestIs'
  <2>1. /\ rest' = From(line', c + 1)
        /\ Bars(line', (c + 1) - 1) = nr'
        /\ line'[(c + 1) - 1] = "|"
        /\ c + 1 \in 1..(Len(line') + 1)
    BY <1>0, <1>2, <1>4, <1>5
  <2> QED BY <2>1 DEF RestIs
<1>7. nr + 1 <= Bars(line, Len(line))
  BY <1>0, <1>4, <1>5, BarsUpTo
<1>8. argv' = Words(Piece(rest), Blank)
  BY <1>2, <1>3, cmd_parseTheorem
<1>9. argv' \in Seq(Text) /\ \A k \in 1..Len(argv') : argv'[k] # <<>>
  BY <1>3, <1>8, WordsAre
<1> QED BY <1>3, <1>6, <1>7, <1>8, <1>9

\* Whatever is left of the line, its words are strings.
LEMMA ParseNextText ==
    ASSUME rest \in Text, each_cmd \in Nat, ParseNext
    PROVE  /\ rest' \in Text /\ each_cmd' \in Nat
           /\ argv' \in Seq(Text) /\ \A k \in 1..Len(argv') : argv'[k] # <<>>
           /\ rest # <<>>
<1>1. /\ Contains(rest, "|") /\ argv' = cmd_parse(Piece(rest)) /\ rest' = Behind(rest)
      /\ each_cmd' = each_cmd + Len(Piece(rest)) + 1
  BY DEF ParseNext
<1>2. PICK n \in Nat : n = Span(rest, Key \ {"|"}) /\ n <= Len(rest)
  BY SpanLemma DEF Text
<1>3. Piece(rest) \in Text
  <2>1. \A i \in 1..n : rest[i] \in Char
    BY <1>2 DEF Text
  <2>2. SubSeq(rest, 1, n) \in Seq(Char)
    BY <2>1, SubSeqProperties
  <2> QED BY <1>2, <2>2 DEF Piece, Text
<1>4. Behind(rest) \in Text
  <2>1. n + 2 \in Nat /\ Len(rest) \in Nat
    BY DEF Text
  <2>2. PICK m \in Nat : m = n + 2 /\ m > 1
    BY <2>1
  <2>3. Behind(rest) = From(rest, m)
    BY <1>2, <2>2 DEF Behind
  <2>4. CASE m > Len(rest)
    <3>1. From(rest, m) = <<>>
      BY <2>4, FromOut
    <3>2. <<>> \in Text
      BY DEF Text
    <3> QED BY <2>3, <3>1, <3>2
  <2>5. CASE m <= Len(rest)
    <3>1. m \in 1..(Len(rest) + 1)
      BY <2>1, <2>2, <2>5
    <3> QED BY <2>3, <3>1, FromIn
  <2> QED BY <2>1, <2>4, <2>5
<1>5. argv' = Words(Piece(rest), Blank)
  BY <1>1, <1>3, cmd_parseTheorem
<1>6. argv' \in Seq(Text) /\ \A k \in 1..Len(argv') : argv'[k] # <<>>
  BY <1>3, <1>5, WordsAre
<1>7. rest # <<>>
  BY <1>1 DEF Contains
<1>8. Len(Piece(rest)) \in Nat
  BY <1>3 DEF Text
<1>9. each_cmd' \in Nat
  BY <1>1, <1>8
<1> QED BY <1>1, <1>4, <1>6, <1>7, <1>9

LEMMA ParseLastText ==
    ASSUME rest \in Text, ParseLast
    PROVE  /\ argv' \in Seq(Text) /\ \A k \in 1..Len(argv') : argv'[k] # <<>>
           /\ rest = <<>> => argv' = <<>>
<1>1. argv' = Words(rest, Blank)
  BY cmd_parseTheorem DEF ParseLast
<1> QED BY <1>1, WordsAre, WordsNone

\* What a cd puts in place of the rest of the line is a string, or nothing.
LEMMA OverwrittenText ==
    ASSUME NEW path \in Text, each_cmd \in Nat
    PROVE  Overwritten(path) \in Text
<1>1. PICK m \in Nat : m = cache_len + each_cmd + 1 /\ m >= 1
  BY ShellAssumption
<1>2. Len(path) \in Nat
  BY DEF Text
<1>3. CASE m > Len(path)
  <2>1. From(path, m) = <<>>
    BY <1>3, FromOut
  <2>2. <<>> \in Text
    BY DEF Text
  <2> QED BY <1>1, <2>1, <2>2 DEF Overwritten
<1>4. CASE m <= Len(path)
  <2>1. m \in 1..(Len(path) + 1)
    BY <1>1, <1>2, <1>4
  <2> QED BY <1>1, <2>1, FromIn DEF Overwritten
<1> QED BY <1>1, <1>2, <1>3, <1>4

LEMMA ParseLastStep ==
    ASSUME line \in Text, RestIs, ~ Contains(rest, "|"), ParseLast
    PROVE  /\ argv' = Words(Command(line, nr + 1), Blank)
           /\ argv' \in Seq(Text) /\ \A k \in 1..Len(argv') : argv'[k] # <<>>
           /\ nr = Bars(line, Len(line))
<1>1. PICK st \in 1..(Len(line) + 1) : /\ rest = From(line, st)
                                       /\ Bars(line, st - 1) = nr
                                       /\ st = 1 \/ line[st - 1] = "|"
  BY DEF RestIs
<1>2. argv' = cmd_parse(rest)
  BY DEF ParseLast
<1>3. Piece(rest) \in Text /\ Piece(rest) = Command(line, nr + 1)
  BY <1>1, PieceLemma
<1>4. Piece(rest) = rest /\ Bars(line, Len(line)) = nr
  BY <1>1, PieceLemma
<1>5. argv' = Words(rest, Blank)
  BY <1>2, <1>3, <1>4, cmd_parseTheorem
<1>6. argv' \in Seq(Text) /\ \A k \in 1..Len(argv') : argv'[k] # <<>>
  BY <1>3, <1>4, <1>5, WordsAre
<1> QED BY <1>3, <1>4, <1>5, <1>6

\* Only what cmds[] does not name is forked.
LEMMA ExecuteOtherStep ==
    ASSUME LineInv, ExecuteOther
    PROVE  \A i \in 1..Len(cmds) : cmds[i] # argv[1]
<1>1. at = "execute" /\ Len(argv) \in 1..MAX_ARG_NR
  BY DEF ExecuteOther, Execute
<1>2. argv[1] # <<>>
  <2>1. argv \in Seq(Text) /\ \A k \in 1..Len(argv) : argv[k] # <<>>
    BY <1>1 DEF LineInv
  <2>2. 1 \in 1..Len(argv)
    BY <1>1, <2>1
  <2> QED BY <2>1, <2>2
<1> SUFFICES ASSUME NEW i \in 1..Len(cmds), cmds[i] = argv[1] PROVE FALSE
  OBVIOUS
<1>3. PICK func : func = cmd2func(argv[1])
  OBVIOUS
<1>4. func = argv[1]
  BY <1>3, cmd2funcTheorem
<1>5. "other" = Kind[func]
  BY <1>2, <1>3, <1>4 DEF ExecuteOther, Execute
<1>6. Kind[cmds[i]] \in {"cd", "path", "plain"}
  BY CharAssumption
<1> QED BY <1>4, <1>5, <1>6

\* An argument of a command is a string.
LEMMA ArgIn ==
    ASSUME LineInv, at = "execute", NEW k \in 1..Len(argv)
    PROVE  argv[k] \in Text
<1>1. argv \in Seq(Text)
  BY DEF LineInv
<1> QED BY <1>1

\* cd leads to a clean path.
LEMMA CdClear ==
    ASSUME LineInv, cwd \in CleanPath, builtin_cd
    PROVE  ClearOK(clear') /\ clear'.to \in CleanPath
<1>1. PICK path : path = IF Len(argv) = 1 THEN <<"/">> ELSE argv[2]
  OBVIOUS
<1>2. /\ at = "execute" /\ Len(argv) \in 1..MAX_ARG_NR /\ Len(argv) <= 2
      /\ clear' = Cleaned(path)
  BY <1>1 DEF builtin_cd, Execute
<1>3. path \in Text
  <2>1. CASE Len(argv) = 1
    BY <1>1, <2>1, RootPath
  <2>2. CASE Len(argv) # 1
    <3>1. Len(argv) \in Nat /\ Len(argv) >= 1
      BY <1>2, ShellAssumption
    <3>2. PICK n \in Nat : n = Len(argv) /\ n >= 1 /\ n <= 2 /\ n # 1
      BY <1>2, <2>2, <3>1
    <3>3. n = 2 /\ 2 \in 1..n
      BY <3>2
    <3> QED BY <1>1, <1>2, <2>2, <3>2, <3>3, ArgIn
  <2> QED BY <2>1, <2>2
<1> QED BY <1>2, <1>3, ClearLemma

\* One case for each step of the shell.
LEMMA TypedStep == TypedInv /\ PathInv /\ [Next]_shellVars => TypedInv'
<1> SUFFICES ASSUME TypedInv, PathInv, [Next]_shellVars PROVE TypedInv'
  OBVIOUS
<1>0. PipeInv /\ InputInv /\ LineInv /\ ExecutesWhatWasTyped /\ PipeInv'
  BY PipeStep DEF TypedInv
<1> SUFFICES InputInv' /\ LineInv' /\ ExecutesWhatWasTyped'
  BY <1>0 DEF TypedInv
<1>a. line \in Text
  BY <1>0 DEF InputInv
\* The input is not touched by what follows readline.
<1>i. ASSUME UNCHANGED <<inputVars, line>>,
             at' = "stopped" \/ (at \notin {"read", "stopped"} /\ at' # "read")
      PROVE  InputInv'
  BY <1>0, <1>i DEF InputInv, inputVars
\* Where nothing is promised of the commands.
<1>r. ASSUME at' \in {"read", "stopped", "close", "closed"}, at' = "read" => erased' = "no"
      PROVE  LineInv' /\ ExecutesWhatWasTyped'
  BY <1>r DEF LineInv, ExecutesWhatWasTyped, Running
\* A command that goes on.
<1>k. ASSUME at \in Running, at' \in Running \ {"execute"},
             UNCHANGED <<then, rest, each_cmd, line, nr, erased>>
      PROVE  LineInv'
  BY <1>0, <1>k DEF LineInv, Left, RestIs, Running
<1>b. ASSUME at' \in {"printing", "blocked"} PROVE ExecutesWhatWasTyped'
  BY <1>b DEF ExecutesWhatWasTyped
<1>s. ASSUME UNCHANGED <<at, then, inputVars, rest, each_cmd, argv, line, nr, erased>>
      PROVE  InputInv' /\ LineInv' /\ ExecutesWhatWasTyped'
  <2>1. InputInv'
    BY <1>0, <1>s DEF InputInv, inputVars
  <2>2. LineInv'
    BY <1>0, <1>s DEF LineInv, Left, RestIs
  <2>3. ExecutesWhatWasTyped'
    BY <1>0, <1>s DEF ExecutesWhatWasTyped
  <2> QED BY <2>1, <2>2, <2>3
<1>1. ASSUME NEW c \in Char, ReadChar(c) PROVE InputInv' /\ LineInv' /\ ExecutesWhatWasTyped'
  <2>1. at' = "read" /\ erased' = "no"
    BY <1>0, <1>1 DEF ReadChar, Read, runVars, LineInv
  <2> QED BY <1>0, <1>1, <2>1, <1>r, ReadCharStep
<1>2. CASE ReadBackspace
  <2>1. at' = "read" /\ erased' = "no"
    BY <1>0, <1>2 DEF ReadBackspace, Read, runVars, LineInv
  <2> QED BY <1>0, <1>2, <2>1, <1>r, ReadBackspaceStep
<1>3. CASE ReadCtrlL
  <2>1. at' = "read" /\ erased' = "no"
    BY <1>0, <1>3 DEF ReadCtrlL, Read, runVars, LineInv
  <2> QED BY <1>0, <1>3, <2>1, <1>r, ReadCtrlLStep
<1>4. CASE ReadCtrlU
  <2>1. at' = "read" /\ erased' = "no"
    BY <1>0, <1>4 DEF ReadCtrlU, Read, runVars, LineInv
  <2> QED BY <1>0, <1>4, <2>1, <1>r, ReadCtrlUStep
<1>5. CASE ReadTooMuch
  <2>1. at' = "stopped" /\ UNCHANGED <<inputVars, line>>
    BY <1>5 DEF ReadTooMuch
  <2> QED BY <2>1, <1>i, <1>r
<1>6. CASE ReadNothing
  <2>1. at' = "read" /\ line' = <<>> /\ Cleared /\ nr' = nr /\ nr = 0 /\ erased' = "no"
    BY <1>0, <1>6 DEF ReadNothing, Read, runVars, InputInv, LineInv
  <2> QED BY <2>1, <1>r, ClearedBuf, EmptyLine
<1>7. CASE ReadCommand
  <2>1. /\ Read /\ at' = "last" /\ then' = "read" /\ rest' = line /\ Cleared
        /\ UNCHANGED <<line, nr, erased>> /\ ~ Contains(line, "|") /\ each_cmd' = 0
        /\ erased = "no"
    BY <1>0, <1>7, CmdLineIs DEF ReadCommand, Read, LineInv
  <2>2. InputInv'
    BY <1>a, <2>1, ClearedBuf DEF InputInv
  <2>3. RestIs'
    BY <1>0, <2>1, WholeLine DEF RestIs
  <2>4. LineInv'
    BY <1>a, <2>1, <2>3 DEF LineInv, Left, Running
  <2> QED BY <2>1, <2>2, <2>4 DEF ExecutesWhatWasTyped
<1>8. CASE ReadPipeline
  <2>1. /\ Read /\ at' = "first" /\ rest' = line /\ Cleared /\ UNCHANGED <<line, nr, erased>>
        /\ each_cmd' = 0 /\ erased = "no"
    BY <1>0, <1>8, CmdLineIs DEF ReadPipeline, Read, LineInv
  <2>2. InputInv'
    BY <1>a, <2>1, ClearedBuf DEF InputInv
  <2>3. RestIs'
    BY <1>0, <2>1, WholeLine DEF RestIs
  <2>4. LineInv'
    BY <1>a, <2>1, <2>3 DEF LineInv, Left, Running
  <2> QED BY <2>1, <2>2, <2>4 DEF ExecutesWhatWasTyped
<1>9. CASE ParseNext
  <2>1. /\ at \in {"first", "middle"} /\ at' = "execute" /\ then' \in {"second", "middle"}
        /\ nr' = nr + 1 /\ UNCHANGED <<inputVars, line, erased>>
    BY <1>9 DEF ParseNext
  <2>2. Left
    BY <1>0, <2>1 DEF LineInv
  <2>3. /\ rest' \in Text /\ each_cmd' \in Nat
        /\ argv' \in Seq(Text) /\ \A k \in 1..Len(argv') : argv'[k] # <<>>
        /\ rest # <<>>
    BY <1>9, <2>2, ParseNextText DEF Left
  <2>4. InputInv'
    BY <1>i, <2>1
  <2>5. CASE erased = "no"
    <3>1. RestIs
      BY <2>2, <2>5 DEF Left
    <3>2. /\ RestIs'
          /\ argv' = Words(Command(line, nr + 1), Blank)
          /\ nr + 1 <= Bars(line, Len(line))
      BY <1>a, <1>9, <3>1, ParseNextStep
    <3>3. LineInv'
      BY <2>1, <2>3, <2>5, <3>2 DEF LineInv, Left, Running
    <3>4. PICK m \in Nat, b \in Nat : m = nr + 1 /\ b = Bars(line, Len(line)) /\ m <= b
      <4>1. Len(line) \in Nat
        BY <1>a DEF Text
      <4>2. PICK st \in 1..(Len(line) + 1) : Bars(line, st - 1) = nr
        BY <3>1 DEF RestIs
      <4>3. st - 1 \in Nat
        BY <4>1
      <4>4. nr \in Nat /\ Bars(line, Len(line)) \in Nat
        BY <4>1, <4>2, <4>3, BarSetFinite
      <4>5. nr + 1 \in Nat
        BY <4>4
      <4> QED BY <3>2, <4>4, <4>5
    <3>5. m <= b + 1 /\ m # b + 1
      BY <3>4
    <3>6. nr' <= Bars(line', Len(line')) + 1 /\ nr' # Bars(line', Len(line')) + 1
      BY <2>1, <3>4, <3>5
    <3>7. ExecutesWhatWasTyped'
      BY <2>1, <2>5, <3>2, <3>6 DEF ExecutesWhatWasTyped
    <3> QED BY <2>4, <3>3, <3>7
  <2>6. CASE erased # "no"
    <3>1. erased' # "no" /\ erased' # "all"
      BY <2>1, <2>2, <2>3, <2>6 DEF Left
    <3>2. LineInv'
      BY <2>1, <2>3, <3>1 DEF LineInv, Left, Running
    <3>3. ExecutesWhatWasTyped'
      BY <2>1, <3>1 DEF ExecutesWhatWasTyped
    <3> QED BY <2>4, <3>2, <3>3
  <2> QED BY <2>5, <2>6
<1>10. CASE RedirectStdin
  <2>1. /\ at = "second" /\ at' = "middle"
        /\ UNCHANGED <<inputVars, line, rest, each_cmd, nr, erased>>
    BY <1>10 DEF RedirectStdin
  <2>2. LineInv'
    BY <1>0, <2>1 DEF LineInv, Left, Running, RestIs
  <2> QED BY <1>i, <2>1, <2>2 DEF ExecutesWhatWasTyped
<1>11. CASE RecoverStdout
  <2>1. /\ at = "middle" /\ at' = "last" /\ then' = "close" /\ ~ Contains(rest, "|")
        /\ UNCHANGED <<inputVars, line, rest, each_cmd, nr, erased>>
    BY <1>11 DEF RecoverStdout
  <2>2. LineInv'
    BY <1>0, <2>1 DEF LineInv, Left, Running, RestIs
  <2> QED BY <1>i, <2>1, <2>2 DEF ExecutesWhatWasTyped
<1>12. CASE ParseLast
  <2>1. /\ at = "last" /\ at' = "execute" /\ nr' = nr + 1
        /\ UNCHANGED <<then, inputVars, line, erased>>
    BY <1>12 DEF ParseLast
  <2>2. /\ Left /\ ~ Contains(rest, "|") /\ then \in {"read", "close"}
        /\ then = "read" => erased = "no"
    BY <1>0, <2>1 DEF LineInv
  <2>3. /\ argv' \in Seq(Text) /\ \A k \in 1..Len(argv') : argv'[k] # <<>>
        /\ rest = <<>> => argv' = <<>>
    BY <1>12, <2>2, ParseLastText DEF Left
  <2>4. InputInv'
    BY <1>i, <2>1
  <2>5. LineInv'
    BY <2>1, <2>2, <2>3 DEF LineInv, Running
  <2>6. CASE erased = "no"
    <3>1. /\ argv' = Words(Command(line, nr + 1), Blank)
          /\ nr = Bars(line, Len(line))
      BY <1>a, <1>12, <2>2, <2>6, ParseLastStep DEF Left
    <3>2. nr' <= Bars(line', Len(line')) + 1 /\ nr' = Bars(line', Len(line')) + 1
      <4>1. Len(line) \in Nat
        BY <1>a DEF Text
      <4>2. PICK b \in Nat : b = Bars(line, Len(line))
        BY <4>1, BarSetFinite
      <4>3. b + 1 <= b + 1
        OBVIOUS
      <4> QED BY <2>1, <3>1, <4>2, <4>3
    <3>3. ExecutesWhatWasTyped'
      BY <2>1, <2>2, <2>6, <3>1, <3>2 DEF ExecutesWhatWasTyped
    <3> QED BY <2>4, <2>5, <3>3
  <2>7. CASE erased # "no"
    <3>1. ExecutesWhatWasTyped'
      BY <2>1, <2>2, <2>3, <2>7 DEF ExecutesWhatWasTyped, Left
    <3> QED BY <2>4, <2>5, <3>1
  <2> QED BY <2>6, <2>7
<1>13. CASE ExecuteBad
  <2>1. at' = "stopped" /\ UNCHANGED <<inputVars, line>>
    BY <1>13 DEF ExecuteBad
  <2> QED BY <2>1, <1>i, <1>r
<1>14. CASE ExecutePlain \/ ExecutePath
  <2>1. /\ at = "execute" /\ at' = "printing"
        /\ UNCHANGED <<then, inputVars, rest, each_cmd, line, nr, erased>>
    BY <1>14 DEF ExecutePlain, ExecutePath, Execute
  <2> QED BY <2>1, <1>i, <1>k, <1>b DEF Running
<1>15. CASE builtin_cd
  <2>1. /\ at = "execute" /\ at' = "printing" /\ UNCHANGED <<then, inputVars, each_cmd, line, nr>>
    BY <1>15 DEF builtin_cd, Execute
  <2>2. \/ UNCHANGED <<rest, erased>>
        \/ /\ rest' = Overwritten(clear'.to)
           /\ erased' = IF rest' = <<>> THEN "all" ELSE "path"
    BY <1>15 DEF builtin_cd
  <2>3. CASE UNCHANGED <<rest, erased>>
    BY <2>1, <2>3, <1>i, <1>k, <1>b DEF Running
  <2>4. CASE /\ rest' = Overwritten(clear'.to)
             /\ erased' = IF rest' = <<>> THEN "all" ELSE "path"
    <3>1. clear'.to \in Text
      BY <1>0, <1>15, CdClear DEF PathInv, CleanPath
    <3>2. each_cmd \in Nat => Left'
      BY <2>1, <2>4, <3>1, OverwrittenText DEF Left
    <3>3. then \in {"second", "middle"} => each_cmd \in Nat
      BY <1>0, <2>1 DEF LineInv, Left, Running
    <3>4. LineInv'
      BY <1>0, <2>1, <3>2, <3>3 DEF LineInv, Running
    <3> QED BY <1>i, <1>b, <2>1, <3>4
  <2> QED BY <2>2, <2>3, <2>4
<1>17. CASE ExecuteOther
  <2>1. /\ at = "execute" /\ at' = "child"
        /\ UNCHANGED <<then, inputVars, rest, each_cmd, argv, line, nr, erased>>
    BY <1>17 DEF ExecuteOther, Execute
  <2>2. ExecutesWhatWasTyped'
    BY <1>0, <1>17, <2>1, ExecuteOtherStep DEF ExecutesWhatWasTyped
  <2> QED BY <2>1, <2>2, <1>i, <1>k DEF Running
<1>18. ASSUME NEW n \in Outputs, ChildWrites(n) \/ ChildReads(n) \/ Prints(n)
       PROVE  InputInv' /\ LineInv' /\ ExecutesWhatWasTyped'
  <2>1. /\ at \in {"child", "printing"} /\ (at' = at \/ at' = "blocked")
        /\ UNCHANGED <<then, inputVars, rest, each_cmd, argv, line, nr, erased>>
    BY <1>18 DEF ChildWrites, ChildReads, Prints, sys_write
  <2>2. CASE at' = at
    BY <1>s, <2>1, <2>2
  <2>3. CASE at' = "blocked"
    BY <1>i, <1>k, <1>b, <2>1, <2>3 DEF Running
  <2> QED BY <2>1, <2>2, <2>3
<1>21. CASE ChildExits
  <2>1. /\ at = "child" /\ at' = "printing"
        /\ UNCHANGED <<then, inputVars, rest, each_cmd, line, nr, erased>>
    BY <1>21 DEF ChildExits
  <2> QED BY <2>1, <1>i, <1>k, <1>b DEF Running
<1>22. CASE CommandOver
  <2>1. /\ at = "printing" /\ at' = then /\ UNCHANGED <<then, inputVars>>
        /\ then \in {"read", "second", "middle", "close"}
    BY <1>0, <1>22 DEF CommandOver, LineInv, Running
  <2>2. CASE then = "read"
    <3>1. line' = <<>> /\ nr' = 0 /\ pos' = 0 /\ buf' = buf /\ erased' = "no"
      BY <1>0, <1>22, <2>1, <2>2 DEF CommandOver, NextLine, InputInv, inputVars
    <3>2. buf' \in [0..(cmd_len - 1) -> Key \cup {NUL}]
      BY <1>0, <3>1 DEF InputInv
    <3> QED BY <1>r, <2>1, <2>2, <3>1, <3>2, EmptyLine
  <2>3. CASE then # "read"
    <3>1. UNCHANGED <<line, nr, rest, each_cmd, erased>>
      BY <1>22, <2>3 DEF CommandOver
    <3>2. InputInv'
      BY <1>i, <2>1, <2>3, <3>1
    <3>3. LineInv'
      BY <1>0, <2>1, <2>3, <3>1 DEF LineInv, Left, Running, RestIs
    <3> QED BY <2>1, <3>2, <3>3 DEF ExecutesWhatWasTyped
  <2> QED BY <2>2, <2>3
<1>23. CASE CloseRead
  <2>1. at = "close" /\ at' \in {"stopped", "closed"} /\ UNCHANGED <<inputVars, line>>
    BY <1>23 DEF CloseRead
  <2> QED BY <2>1, <1>i, <1>r
<1>24. CASE CloseWrite
  <2>1. /\ at = "closed" /\ at' \in {"stopped", "read"} /\ UNCHANGED inputVars
        /\ line' = <<>> /\ nr' = 0 /\ erased' = "no"
    BY <1>24 DEF CloseWrite, NextLine
  <2>2. pos' = 0 /\ buf' \in [0..(cmd_len - 1) -> Key \cup {NUL}]
    BY <1>0, <2>1 DEF InputInv, inputVars
  <2> QED BY <1>r, <2>1, <2>2, EmptyLine
<1>25. CASE UNCHANGED shellVars
  BY <1>25, <1>s DEF shellVars
<1> QED
  BY <1>1, <1>2, <1>3, <1>4, <1>5, <1>6, <1>7, <1>8, <1>9, <1>10, <1>11, <1>12, <1>13, <1>14,
     <1>15, <1>17, <1>18, <1>21, <1>22, <1>23, <1>24, <1>25 DEF Next

----------------------------------------------------------------------------
(* The working directory stays a clean path.                                *)

LEMMA PathInit == Init => PathInv
BY RootPath, NoPathClear DEF Init, PathInv

LEMMA PathStep == TypedInv /\ PathInv /\ [Next]_shellVars => PathInv'
<1> SUFFICES ASSUME TypedInv, PathInv, [Next]_shellVars PROVE PathInv'
  OBVIOUS
<1>0. LineInv /\ cwd \in CleanPath /\ ClearOK(clear)
  BY DEF TypedInv, PathInv
<1>s. ASSUME UNCHANGED <<cwd, clear>> PROVE PathInv'
  BY <1>0, <1>s DEF PathInv
<1>n. ASSUME NextLine, cwd' = cwd PROVE PathInv'
  BY <1>0, <1>n, NoPathClear DEF PathInv, NextLine
<1>1. ASSUME NEW c \in Char, ReadChar(c) PROVE PathInv'
  BY <1>1, <1>s DEF ReadChar, runVars
<1>2. CASE \/ ReadBackspace \/ ReadCtrlL \/ ReadCtrlU \/ ReadTooMuch
           \/ ReadNothing \/ ReadCommand \/ ReadPipeline
  BY <1>2, <1>s DEF ReadBackspace, ReadCtrlL, ReadCtrlU, ReadTooMuch,
                    ReadNothing, ReadCommand, ReadPipeline, runVars
<1>3. CASE ParseNext \/ RedirectStdin \/ RecoverStdout \/ ParseLast \/ ExecuteBad \/ ExecutePlain
  BY <1>3, <1>s DEF ParseNext, RedirectStdin, RecoverStdout, ParseLast, ExecuteBad, ExecutePlain
<1>4. CASE ExecutePath
  <2>1. at = "execute" /\ Len(argv) = 2 /\ clear' = Cleaned(argv[2]) /\ cwd' = cwd
    BY <1>4 DEF ExecutePath, Execute
  <2>2. argv[2] \in Text
    BY <1>0, <2>1, ArgIn
  <2>3. ClearOK(clear')
    BY <1>0, <2>1, <2>2, ClearLemma
  <2> QED BY <1>0, <2>1, <2>3 DEF PathInv
<1>5. CASE builtin_cd
  <2>1. ClearOK(clear') /\ clear'.to \in CleanPath
    BY <1>0, <1>5, CdClear
  <2>2. cwd' = clear'.to \/ cwd' = cwd
    BY <1>5 DEF builtin_cd
  <2> QED BY <1>0, <2>1, <2>2 DEF PathInv
<1>6. CASE ExecuteOther
  <2>1. at = "execute" /\ Len(argv) \in 1..MAX_ARG_NR /\ clear' = Cleaned(argv[1]) /\ cwd' = cwd
    BY <1>6 DEF ExecuteOther, Execute
  <2>2. 1 \in 1..Len(argv)
    BY <2>1, ShellAssumption
  <2>3. argv[1] \in Text
    BY <1>0, <2>1, <2>2, ArgIn
  <2>4. ClearOK(clear')
    BY <1>0, <2>1, <2>3, ClearLemma
  <2> QED BY <1>0, <2>1, <2>4 DEF PathInv
<1>7. ASSUME NEW n \in Outputs, ChildWrites(n) \/ ChildReads(n) \/ Prints(n) PROVE PathInv'
  BY <1>7, <1>s DEF ChildWrites, ChildReads, Prints
<1>8. CASE ChildExits \/ CloseRead
  BY <1>8, <1>s DEF ChildExits, CloseRead
<1>9. CASE CommandOver
  BY <1>9, <1>s, <1>n DEF CommandOver
<1>10. CASE CloseWrite
  BY <1>10, <1>n DEF CloseWrite
<1>11. CASE UNCHANGED shellVars
  BY <1>11, <1>s DEF shellVars
<1> QED
  BY <1>1, <1>2, <1>3, <1>4, <1>5, <1>6, <1>7, <1>8, <1>9, <1>10, <1>11 DEF Next

\* What is executed is what was typed, for every line, every set of built-in
\* commands and every size of the buffers (shell.c:24 readline, shell.c:66
\* cmd_parse, shell.c:99 cmd_execute, hash.c): the keys left in cmd_line are
\* never part of a command, no built-in command is forked, and where a cd has
\* cleared the rest of the line (builtin_cmd.c:93) the next command has no words.
THEOREM ExecutesWhatWasTypedTheorem == ShellSpec => []ExecutesWhatWasTyped
<1>1. Init => TypedInv /\ PathInv
  BY TypedInit, PathInit
<1>2. (TypedInv /\ PathInv) /\ [Next]_shellVars => (TypedInv /\ PathInv)'
  BY TypedStep, PathStep
<1>3. TypedInv => ExecutesWhatWasTyped
  BY DEF TypedInv
<1> QED BY <1>1, <1>2, <1>3, PTL DEF ShellSpec

\* Whatever cd has been given before, make_clear_abs_path (builtin_cmd.c:45) leads
\* where the path leads from the working directory, and what it returns, so the
\* next working directory, is written with nothing but names.
THEOREM PathClearTheorem == ShellSpec => []PathClear
<1>1. Init => TypedInv /\ PathInv
  BY TypedInit, PathInit
<1>2. (TypedInv /\ PathInv) /\ [Next]_shellVars => (TypedInv /\ PathInv)'
  BY TypedStep, PathStep
<1>3. PathInv => PathClear
  BY DEF PathInv, PathClear, ClearOK
<1> QED BY <1>1, <1>2, <1>3, PTL DEF ShellSpec
=============================================================================
