----------------------------- MODULE HeapProofs -----------------------------
(***************************************************************************)
(* Theorems about the two heaps of the kernel: the binary heap of timers   *)
(* (TimerHeap, with Tasklets, whose steps change it), and the memory that  *)
(* Malloc hands out.  The first part is for every number of timers, the    *)
(* second for every pool and header size, and all calls of all processes.  *)
(***************************************************************************)
EXTENDS Tasklets, Malloc, FiniteSetTheorems, SequenceTheorems, NaturalsInduction,
        WellFoundedInduction, TLAPS

(* How often t is in array f, and whether x is t. *)
CountOf(f, t) == Cardinality({p \in DOMAIN f : f[p] = t})
One(x, t) == IF x = t THEN 1 ELSE 0

(* Leaving out one place. *)
LEMMA CountWithout ==
  ASSUME NEW n \in Nat, NEW f \in [1..n -> Int], NEW a \in 1..n, NEW t \in Int
  PROVE  /\ CountOf(f, t) \in Nat
         /\ CountOf(f, t) = Cardinality({p \in 1..n : p # a /\ f[p] = t}) + One(f[a], t)
<1> DEFINE A == {p \in 1..n : f[p] = t}
           B == {p \in 1..n : p # a /\ f[p] = t}
<1>1. IsFiniteSet(1..n)
  BY FS_Interval
<1>2. IsFiniteSet(A) /\ IsFiniteSet(B)
  BY <1>1, FS_Subset
<1>3. Cardinality(A) \in Nat /\ Cardinality(B) \in Nat
  BY <1>2, FS_CardinalityType
<1>4. CountOf(f, t) = Cardinality(A)
  BY DEF CountOf
<1>5. CASE f[a] = t
  <2>1. A = B \cup {a} /\ a \notin B
    BY <1>5
  <2>2. Cardinality(A) = Cardinality(B) + 1
    <3> HIDE DEF A, B
    <3> QED
      BY <1>2, <2>1, FS_AddElement
  <2> QED
    BY <1>3, <1>4, <1>5, <2>2 DEF One
<1>6. CASE f[a] # t
  <2>1. A = B
    BY <1>6
  <2> HIDE DEF A
  <2> QED
    BY <1>3, <1>4, <1>6, <2>1 DEF One
<1> QED
  BY <1>5, <1>6

(* Writing x at place a. *)
LEMMA CountExcept ==
  ASSUME NEW n \in Nat, NEW f \in [1..n -> Int], NEW a \in 1..n, NEW x \in Int, NEW t \in Int
  PROVE  /\ CountOf(f, t) \in Nat
         /\ CountOf([f EXCEPT ![a] = x], t) \in Nat
         /\ CountOf([f EXCEPT ![a] = x], t) + One(f[a], t) = CountOf(f, t) + One(x, t)
<1> DEFINE g == [f EXCEPT ![a] = x]
           B == {p \in 1..n : p # a /\ f[p] = t}
           C == {p \in 1..n : p # a /\ g[p] = t}
<1>1. g \in [1..n -> Int] /\ g[a] = x
  OBVIOUS
<1>2. B = C
  OBVIOUS
<1> HIDE DEF g
<1>3. CountOf(f, t) \in Nat /\ CountOf(f, t) = Cardinality(B) + One(f[a], t)
  BY CountWithout
<1>4. CountOf(g, t) \in Nat /\ CountOf(g, t) = Cardinality(C) + One(g[a], t)
  BY <1>1, CountWithout
<1>5. IsFiniteSet(B)
  <2>1. IsFiniteSet(1..n)
    BY FS_Interval
  <2> QED
    BY <2>1, FS_Subset
<1>6. Cardinality(B) \in Nat
  BY <1>5, FS_CardinalityType
<1> HIDE DEF B, C
<1>7. CountOf(g, t) + One(f[a], t) = CountOf(f, t) + One(x, t)
  BY <1>1, <1>2, <1>3, <1>4, <1>6 DEF One
<1> QED
  BY <1>3, <1>4, <1>7 DEF g

(* An array is a sequence; its front, and what is appended to it. *)
LEMMA FrontOf ==
  ASSUME NEW n \in Nat \ {0}, NEW S, NEW f \in [1..n -> S]
  PROVE  /\ f \in Seq(S) /\ Len(f) = n
         /\ SubSeq(f, 1, n - 1) \in Seq(S) /\ Len(SubSeq(f, 1, n - 1)) = n - 1
         /\ SubSeq(f, 1, n - 1) \in [1..n - 1 -> S]
         /\ \A p \in 1..n - 1 : SubSeq(f, 1, n - 1)[p] = f[p]
<1> DEFINE g == SubSeq(f, 1, n - 1)
<1>1. f \in Seq(S) /\ Len(f) = n
  OBVIOUS
<1>2. \A p \in 1..n - 1 : f[p] \in S
  OBVIOUS
<1>3. /\ g \in Seq(S)
      /\ Len(g) = IF 1 <= n - 1 THEN n - 1 - 1 + 1 ELSE 0
      /\ \A p \in 1..n - 1 - 1 + 1 : g[p] = f[1 + p - 1]
  BY <1>2, SubSeqProperties
<1> HIDE DEF g
<1>4. Len(g) = n - 1 /\ \A p \in 1..n - 1 : g[p] = f[p]
  BY <1>3
<1>5. g \in [1..n - 1 -> S]
  BY <1>3, <1>4
<1> QED
  BY <1>1, <1>3, <1>4, <1>5 DEF g

LEMMA ArrayOf ==
  ASSUME NEW T, T \subseteq Int, NEW h \in Seq(T), NEW a \in 1..Len(h)
  PROVE  /\ Len(h) \in Nat \ {0} /\ h \in [1..Len(h) -> T] /\ h \in [1..Len(h) -> Int]
         /\ a \in 1..Len(h)
<1>1. Len(h) \in Nat /\ h \in [1..Len(h) -> T]
  OBVIOUS
<1> DEFINE n == Len(h)
<1>2. n \in Nat /\ h \in [1..n -> T] /\ a \in 1..n
  BY <1>1
<1> HIDE DEF n
<1>3. n \in Nat \ {0}
  BY <1>2
<1>4. h \in [1..n -> Int]
  BY <1>2
<1> QED
  BY <1>2, <1>3, <1>4 DEF n

LEMMA AppendedTo ==
  ASSUME NEW S, NEW h \in Seq(S), NEW x \in S
  PROVE  /\ Len(h) \in Nat /\ h \in [1..Len(h) -> S]
         /\ Append(h, x) \in Seq(S) /\ Len(Append(h, x)) = Len(h) + 1
         /\ Append(h, x) \in [1..Len(h) + 1 -> S]
         /\ \A p \in 1..Len(h) : Append(h, x)[p] = h[p]
         /\ Append(h, x)[Len(h) + 1] = x
<1> DEFINE f == Append(h, x)
<1>1. Len(h) \in Nat /\ h \in [1..Len(h) -> S]
  OBVIOUS
<1>2. f \in Seq(S) /\ Len(f) = Len(h) + 1
  BY AppendProperties
<1>3. (\A p \in 1..Len(h) : f[p] = h[p]) /\ f[Len(h) + 1] = x
  BY AppendProperties
<1>4. f \in [1..Len(h) + 1 -> S]
  <2> HIDE DEF f
  <2> QED
    BY <1>2
<1> QED
  BY <1>1, <1>2, <1>3, <1>4

(* Without the last element. *)
LEMMA CountFront ==
  ASSUME NEW T, T \subseteq Int, NEW n \in Nat \ {0}, NEW f \in [1..n -> T], NEW t \in Int
  PROVE  /\ CountOf(f, t) \in Nat /\ CountOf(SubSeq(f, 1, n - 1), t) \in Nat
         /\ CountOf(f, t) = CountOf(SubSeq(f, 1, n - 1), t) + One(f[n], t)
<1> DEFINE g == SubSeq(f, 1, n - 1)
<1>1. g \in [1..n - 1 -> T]
  BY FrontOf
<1>2. \A p \in 1..n - 1 : g[p] = f[p]
  BY FrontOf
<1> HIDE DEF g
<1> DEFINE B == {p \in 1..n : p # n /\ f[p] = t}
           C == {p \in DOMAIN g : g[p] = t}
<1>3. B = C
  BY <1>1, <1>2
<1>4. CountOf(f, t) \in Nat /\ CountOf(f, t) = Cardinality(B) + One(f[n], t)
  <2> HIDE DEF B, C
  <2>1. f \in [1..n -> Int]
    OBVIOUS
  <2>2. n \in Nat /\ n \in 1..n
    OBVIOUS
  <2> QED
    BY <2>1, <2>2, CountWithout DEF B
<1>5. IsFiniteSet(B)
  <2>1. IsFiniteSet(1..n)
    BY FS_Interval
  <2> QED
    BY <2>1, FS_Subset
<1>6. Cardinality(B) \in Nat /\ CountOf(g, t) = Cardinality(B)
  BY <1>3, <1>5, FS_CardinalityType, Zenon DEF CountOf
<1> QED
  BY <1>4, <1>6 DEF g

(* With an element appended. *)
LEMMA CountAppend ==
  ASSUME NEW T, T \subseteq Int, NEW h \in Seq(T), NEW x \in T, NEW t \in Int
  PROVE  CountOf(Append(h, x), t) = CountOf(h, t) + One(x, t)
<1> DEFINE n == Len(h) + 1
           f == Append(h, x)
<1>1. /\ n \in Nat \ {0} /\ f \in [1..n -> T] /\ f[n] = x
      /\ \A p \in 1..n - 1 : f[p] = h[p]
  BY AppendedTo
<1>2. h \in Seq(T) /\ Len(h) = n - 1
  BY AppendedTo
<1> HIDE DEF n, f
<1>3. /\ SubSeq(f, 1, n - 1) \in Seq(T) /\ Len(SubSeq(f, 1, n - 1)) = n - 1
      /\ \A p \in 1..n - 1 : SubSeq(f, 1, n - 1)[p] = f[p]
  BY <1>1, FrontOf
<1>4. SubSeq(f, 1, n - 1) = h
  <2> DEFINE g == SubSeq(f, 1, n - 1)
  <2>1. g \in Seq(T) /\ Len(g) = Len(h) /\ \A p \in 1..Len(h) : g[p] = h[p]
    BY <1>1, <1>2, <1>3
  <2> HIDE DEF g
  <2>2. g = h
    BY <1>2, <2>1, SeqEqual
  <2> QED
    BY <2>2 DEF g
<1>5. CountOf(f, t) = CountOf(h, t) + One(x, t)
  BY <1>1, <1>4, CountFront
<1> QED
  BY <1>5 DEF f
-----------------------------------------------------------------------------
LEMMA MinExists ==
  ASSUME NEW S \in SUBSET Nat, S # {}
  PROVE  \E x \in S : \A y \in S : x <= y
<1>1. PICK x \in S : \A y \in S : ~(<<y, x>> \in OpToRel(<, Nat))
  BY NatLessThanWellFounded, WFMin
<1>2. ASSUME NEW y \in S PROVE ~(y < x)
  <2>1. SUFFICES ASSUME y < x PROVE FALSE
    OBVIOUS
  <2>2. <<y, x>> \in Nat \X Nat
    OBVIOUS
  <2>3. <<y, x>>[1] < <<y, x>>[2]
    BY <2>1
  <2>4. <<y, x>> \in OpToRel(<, Nat)
    BY <2>2, <2>3, Zenon DEF OpToRel
  <2> QED
    BY <1>1, <2>4, Zenon
<1> QED
  BY <1>2

(* Parents and children. *)
LEMMA Parent ==
  ASSUME NEW a \in Nat, a > 1
  PROVE  a \div 2 \in Nat /\ 1 <= a \div 2 /\ a \div 2 < a
OBVIOUS

LEMMA Children ==
  ASSUME NEW a \in Nat, NEW p \in Nat
  PROVE  a \div 2 = p <=> a = 2 * p \/ a = 2 * p + 1
OBVIOUS

(* Every element stays behind its parent. *)
Ordered(h) == \A j \in 2..Len(h) : h[j \div 2] <= h[j]
-----------------------------------------------------------------------------
(* The loop of heap_insert at place a. *)
UpAt(h, el, f, a) ==
  IF a > 1 /\ h[a \div 2] > el
  THEN [f[a \div 2] EXCEPT ![a] = h[a \div 2]]
  ELSE [Append(h, el) EXCEPT ![a] = el]

LEMMA UpExists ==
  ASSUME NEW h, NEW el, NEW k \in Nat
  PROVE  \E f : f = [a \in 1..k |-> UpAt(h, el, f, a)]
<1> DEFINE Loop(n, f) == f = [a \in 1..n |-> UpAt(h, el, f, a)]
           none == {n \in Nat : \A f : ~Loop(n, f)}
<1> SUFFICES ASSUME none # {} PROVE FALSE
  OBVIOUS
<1>1. PICK n \in none : \A m \in none : n <= m
  BY MinExists
<1>2. n # 0
  <2> DEFINE f == [a \in 1..0 |-> el]
  <2>1. f = [a \in 1..0 |-> UpAt(h, el, f, a)]
    OBVIOUS
  <2> HIDE DEF f
  <2> QED
    BY <1>1, <2>1
<1>3. n - 1 \in Nat \ none
  <2> HIDE DEF none
  <2>1. n \in Nat
    BY <1>1 DEF none
  <2> QED
    BY <1>1, <1>2, <2>1
<1>4. PICK f : Loop(n - 1, f)
  BY <1>3
<1> DEFINE g == [a \in 1..n |-> IF a < n THEN f[a] ELSE UpAt(h, el, f, n)]
<1>5. ASSUME NEW a \in 1..n PROVE g[a] = UpAt(h, el, g, a)
  <2>1. UpAt(h, el, g, a) = UpAt(h, el, f, a)
    <3>1. CASE a > 1
      <4>1. a \div 2 \in 1..n - 1
        BY <1>1, <3>1, Parent
      <4>2. g[a \div 2] = f[a \div 2]
        BY <1>1, <4>1
      <4> HIDE DEF g
      <4> QED
        BY <4>2, Zenon DEF UpAt
    <3>2. CASE ~(a > 1)
      BY <3>2, Zenon DEF UpAt
    <3> QED
      BY <3>1, <3>2
  <2>2. CASE a = n
    BY <2>1, <2>2
  <2>3. CASE a # n
    <3>1. a \in 1..n - 1 /\ g[a] = f[a]
      BY <1>1, <2>3
    <3>2. f[a] = UpAt(h, el, f, a)
      BY <1>4, <3>1
    <3> QED
      BY <2>1, <3>1, <3>2
  <2> QED
    BY <2>2, <2>3
<1>6. Loop(n, g)
  <2>1. g = [a \in 1..n |-> g[a]]
    OBVIOUS
  <2> HIDE DEF g
  <2> QED
    BY <1>5, <2>1
<1> QED
  BY <1>1, <1>6

(* What the array is when the loop has come to place a. *)
Risen(h, el, u, a, T) ==
  /\ u \in [1..Len(h) + 1 -> T]
  /\ \A j \in 1..Len(h) + 1 : j > a => u[j] = Append(h, el)[j]
  /\ Ordered(h) /\ a <= Len(h) /\ h[a] > el => u[a] <= h[a]
  /\ Ordered(h) =>
       \A j \in 2..Len(h) + 1 :
         j \div 2 # a /\ (j = Len(h) + 1 => a = j) => u[j \div 2] <= u[j]
  /\ \A t \in Int : CountOf(u, t) + One(Append(h, el)[a], t)
                      = CountOf(Append(h, el), t) + One(el, t)

LEMMA RisenTop ==
  ASSUME NEW T, T \subseteq Int, NEW h \in Seq(T), NEW el \in T,
         NEW a \in 1..Len(h) + 1, ~(a > 1 /\ h[a \div 2] > el)
  PROVE  Risen(h, el, [Append(h, el) EXCEPT ![a] = el], a, T)
<1> DEFINE n == Len(h) + 1
           A == Append(h, el)
           u == [A EXCEPT ![a] = el]
<1>1. /\ n \in Nat \ {0} /\ h \in [1..n - 1 -> T] /\ A \in [1..n -> T]
      /\ \A j \in 1..n - 1 : A[j] = h[j]
      /\ A[n] = el
      /\ h \in [1..n - 1 -> Int] /\ A \in [1..n -> Int] /\ el \in Int
  <2>1. n - 1 = Len(h)
    BY AppendedTo
  <2>2. /\ n \in Nat \ {0} /\ h \in [1..n - 1 -> T] /\ A \in [1..n -> T]
        /\ \A j \in 1..n - 1 : A[j] = h[j]
        /\ A[n] = el
    BY <2>1, AppendedTo
  <2> HIDE DEF n, A
  <2> QED
    BY <2>2
<1>2. Ordered(h) => \A j \in 2..n - 1 : h[j \div 2] <= h[j]
  BY DEF Ordered
<1>3. a \in 1..n /\ Len(h) = n - 1
  BY <1>1
<1> HIDE DEF n, A
<1>4. u \in [1..n -> T] /\ u[a] = el /\ \A j \in 1..n : j # a => u[j] = A[j]
  BY <1>1, <1>3
<1>5. \A t \in Int : CountOf(u, t) + One(A[a], t) = CountOf(A, t) + One(el, t)
  <2> SUFFICES ASSUME NEW t \in Int
               PROVE  CountOf(u, t) + One(A[a], t) = CountOf(A, t) + One(el, t)
    OBVIOUS
  <2>1. n \in Nat /\ A \in [1..n -> Int] /\ el \in Int
    BY <1>1
  <2> QED
    BY <1>3, <2>1, CountExcept
<1> HIDE DEF u
<1>6. ASSUME Ordered(h), NEW j \in 2..n, j \div 2 # a, j = n => a = j
      PROVE  u[j \div 2] <= u[j]
  <2>1. j \div 2 \in 1..n - 1 /\ j \div 2 < j
    BY <1>1, Parent
  <2>2. u[j \div 2] = h[j \div 2]
    BY <1>1, <1>4, <1>6, <2>1
  <2>3. CASE j = a
    <3>1. a > 1 /\ ~(h[j \div 2] > el)
      BY <1>1, <2>3
    <3> QED
      BY <1>1, <1>4, <2>1, <2>2, <2>3, <3>1
  <2>4. CASE j # a
    <3>1. j \in 2..n - 1
      BY <1>1, <1>6, <2>4
    <3>2. u[j] = h[j]
      BY <1>1, <1>4, <2>4, <3>1
    <3> QED
      BY <1>2, <1>6, <2>2, <3>1, <3>2
  <2> QED
    BY <2>3, <2>4
<1>7. a <= Len(h) /\ h[a] > el => u[a] <= h[a]
  <2> SUFFICES ASSUME a <= n - 1 /\ h[a] > el PROVE el <= h[a]
    BY <1>3, <1>4
  <2>1. h[a] \in Int /\ el \in Int
    BY <1>1, <1>3
  <2> QED
    BY <2>1
<1>8. Risen(h, el, u, a, T)
  BY <1>3, <1>4, <1>5, <1>6, <1>7 DEF Risen, n, A
<1> QED
  BY <1>8 DEF u, A

(* One turn of the loop: the parent of place a moves down to it. *)
LEMMA RisenStep ==
  ASSUME NEW T, T \subseteq Int, NEW h \in Seq(T), NEW el \in T,
         NEW a \in 2..Len(h) + 1, h[a \div 2] > el,
         NEW v, Risen(h, el, v, a \div 2, T)
  PROVE  Risen(h, el, [v EXCEPT ![a] = h[a \div 2]], a, T)
<1> DEFINE n == Len(h) + 1
           A == Append(h, el)
           b == a \div 2
           u == [v EXCEPT ![a] = h[b]]
<1>1. /\ n \in Nat \ {0} /\ h \in [1..n - 1 -> T] /\ A \in [1..n -> T]
      /\ \A j \in 1..n - 1 : A[j] = h[j]
      /\ h \in [1..n - 1 -> Int] /\ A \in [1..n -> Int] /\ el \in Int
  <2>1. n - 1 = Len(h)
    BY AppendedTo
  <2>2. /\ n \in Nat \ {0} /\ h \in [1..n - 1 -> T] /\ A \in [1..n -> T]
        /\ \A j \in 1..n - 1 : A[j] = h[j]
    BY <2>1, AppendedTo
  <2> HIDE DEF n, A
  <2> QED
    BY <2>2
<1>2. Ordered(h) => \A j \in 2..n - 1 : h[j \div 2] <= h[j]
  BY DEF Ordered
<1>3. a \in 2..n /\ Len(h) = n - 1
  BY <1>1
<1>4. b \in 1..n - 1 /\ b < a /\ a \div 2 = b
  BY <1>1, <1>3, Parent
<1>5. /\ v \in [1..n -> T]
      /\ \A j \in 1..n : j > b => v[j] = A[j]
      /\ Ordered(h) /\ b <= Len(h) /\ h[b] > el => v[b] <= h[b]
      /\ Ordered(h) => \A j \in 2..n : j \div 2 # b /\ (j = n => b = j) => v[j \div 2] <= v[j]
      /\ \A t \in Int : CountOf(v, t) + One(A[b], t) = CountOf(A, t) + One(el, t)
  BY DEF Risen
<1>6. h[b] > el
  OBVIOUS
<1> HIDE DEF n, A, b
<1>7. (Ordered(h) => v[b] <= h[b]) /\ h[b] \in T /\ h[b] \in Int
  BY <1>1, <1>3, <1>4, <1>5, <1>6
<1>8. u \in [1..n -> T] /\ u[a] = h[b] /\ \A j \in 1..n : j # a => u[j] = v[j]
  BY <1>3, <1>5, <1>7
<1>9. u \in [1..n -> Int] /\ v \in [1..n -> Int]
  BY <1>5, <1>8
<1>10. v[a] = A[a] /\ A[b] = h[b]
  BY <1>1, <1>3, <1>4, <1>5
<1>11. ASSUME NEW t \in Int PROVE CountOf(u, t) + One(A[a], t) = CountOf(A, t) + One(el, t)
  <2>1. CountOf(v, t) + One(h[b], t) = CountOf(A, t) + One(el, t)
    BY <1>5, <1>10
  <2>2. n \in Nat /\ a \in 1..n
    BY <1>1, <1>3
  <2>3. /\ CountOf(v, t) \in Nat /\ CountOf(u, t) \in Nat
        /\ CountOf(u, t) + One(v[a], t) = CountOf(v, t) + One(h[b], t)
    <3> DEFINE x == h[b]
    <3>1. n \in Nat /\ v \in [1..n -> Int] /\ a \in 1..n /\ x \in Int
      BY <1>7, <1>9, <2>2
    <3> HIDE DEF x
    <3>2. CountOf(v, t) \in Nat
      BY <3>1, CountExcept
    <3>3. CountOf([v EXCEPT ![a] = x], t) \in Nat
      BY <3>1, CountExcept
    <3>4. CountOf([v EXCEPT ![a] = x], t) + One(v[a], t) = CountOf(v, t) + One(x, t)
      BY <3>1, CountExcept, ZenonT(60)
    <3> QED
      BY <3>2, <3>3, <3>4 DEF x
  <2> HIDE DEF u
  <2>4. CountOf(A, t) \in Nat
    BY <1>1, <2>2, CountExcept
  <2> QED
    BY <1>10, <2>1, <2>3, <2>4 DEF One
<1> HIDE DEF u
<1>12. ASSUME Ordered(h), NEW j \in 2..n, j \div 2 # a, j = n => a = j
       PROVE  u[j \div 2] <= u[j]
  <2>1. j \div 2 \in 1..n - 1 /\ j \div 2 < j
    BY <1>1, Parent
  <2>2. u[j \div 2] = v[j \div 2]
    BY <1>1, <1>8, <1>12, <2>1
  <2>3. CASE j = a
    <3>1. u[j \div 2] = v[b] /\ u[j] = h[b]
      BY <1>4, <1>8, <2>2, <2>3
    <3> QED
      BY <1>7, <1>12, <3>1
  <2>4. CASE j # a
    <3>1. j \in 2..n - 1 /\ u[j] = v[j]
      BY <1>1, <1>8, <1>12, <2>4
    <3>2. CASE j \div 2 = b
      <4>1. v[j] = h[j]
        <5>1. j \in 1..n /\ j \in 1..n - 1 /\ j > b
          BY <1>1, <2>1, <3>1, <3>2
        <5>2. v[j] = A[j]
          BY <1>5, <5>1, Zenon
        <5> QED
          BY <1>1, <5>1, <5>2, Zenon
      <4>2. h[b] <= h[j]
        BY <1>2, <1>12, <3>1, <3>2
      <4>3. h[j] \in Int
        BY <1>1, <3>1
      <4>4. v[b] \in Int
        BY <1>1, <1>4, <1>9
      <4> QED
        <5>1. u[j \div 2] = v[b] /\ u[j] = h[j] /\ v[b] <= h[b] /\ h[b] \in Int
          BY <1>7, <1>12, <2>2, <3>1, <3>2, <4>1, <4>2
        <5> QED
          BY <4>2, <4>3, <4>4, <5>1
    <3>3. CASE j \div 2 # b
      BY <1>5, <1>12, <2>2, <3>1, <3>3
    <3> QED
      BY <3>2, <3>3
  <2> QED
    BY <2>3, <2>4
<1>13. Ordered(h) /\ a <= Len(h) /\ h[a] > el => u[a] <= h[a]
  <2> SUFFICES ASSUME Ordered(h), a <= n - 1 PROVE h[b] <= h[a]
    BY <1>3, <1>8
  <2> QED
    BY <1>2, <1>3, <1>4
<1>14. \A j \in 1..n : j > a => u[j] = A[j]
  BY <1>3, <1>4, <1>5, <1>8
<1>15. Risen(h, el, u, a, T)
  BY <1>3, <1>8, <1>11, <1>12, <1>13, <1>14 DEF Risen, n, A
<1> QED
  BY <1>15 DEF u, b

(* heap_insert adds el, and keeps the order, in a heap of any size. *)
LEMMA Inserted ==
  ASSUME NEW T, T \subseteq Int, NEW h \in Seq(T), NEW el \in T
  PROVE  /\ heap_insert(h, el) \in Seq(T) /\ Len(heap_insert(h, el)) = Len(h) + 1
         /\ Ordered(h) => Ordered(heap_insert(h, el))
         /\ \A t \in Int : CountOf(heap_insert(h, el), t) = CountOf(h, t) + One(el, t)
<1> DEFINE n == Len(h) + 1
           up == CHOOSE up : up = [i \in 1..n |->
                   IF i > 1 /\ h[i \div 2] > el
                   THEN [up[i \div 2] EXCEPT ![i] = h[i \div 2]]
                   ELSE [Append(h, el) EXCEPT ![i] = el]]
<1>1. heap_insert(h, el) = up[n]
  BY DEF heap_insert
<1>2. n \in Nat \ {0} /\ n - 1 = Len(h)
  BY AppendedTo
<1>3. up = [i \in 1..n |-> UpAt(h, el, up, i)]
  <2> HIDE DEF n
  <2>1. \E f : f = [i \in 1..n |-> UpAt(h, el, f, i)]
    BY <1>2, UpExists
  <2>2. \E f : f = [i \in 1..n |->
                   IF i > 1 /\ h[i \div 2] > el
                   THEN [f[i \div 2] EXCEPT ![i] = h[i \div 2]]
                   ELSE [Append(h, el) EXCEPT ![i] = el]]
    BY <2>1, Zenon DEF UpAt
  <2>3. up = [i \in 1..n |->
                   IF i > 1 /\ h[i \div 2] > el
                   THEN [up[i \div 2] EXCEPT ![i] = h[i \div 2]]
                   ELSE [Append(h, el) EXCEPT ![i] = el]]
    BY <2>2, Zenon
  <2> HIDE DEF up
  <2> QED
    BY <2>3, Zenon DEF UpAt
<1> HIDE DEF up, n
<1> DEFINE bad == {a \in Nat : a \in 1..n /\ ~Risen(h, el, up[a], a, T)}
<1>4. bad = {}
  <2> SUFFICES ASSUME bad # {} PROVE FALSE
    OBVIOUS
  <2>1. PICK a \in bad : \A m \in bad : a <= m
    BY MinExists
  <2>2. a \in 1..n /\ up[a] = UpAt(h, el, up, a) /\ a \in Nat
    BY <1>3, <2>1
  <2>3. CASE a > 1 /\ h[a \div 2] > el
    <3>1. a \div 2 \in 1..n /\ a \div 2 < a /\ a \div 2 \in Nat /\ a \in 2..n
      <4> HIDE DEF bad
      <4> QED
        BY <1>2, <2>2, <2>3, Parent
    <3>2. Risen(h, el, up[a \div 2], a \div 2, T)
      BY <2>1, <3>1
    <3>3. up[a] = [up[a \div 2] EXCEPT ![a] = h[a \div 2]]
      BY <2>2, <2>3, Zenon DEF UpAt
    <3> HIDE DEF bad
    <3>4. a \in 2..Len(h) + 1 /\ h[a \div 2] > el
      BY <2>3, <3>1 DEF n
    <3>5. Risen(h, el, [up[a \div 2] EXCEPT ![a] = h[a \div 2]], a, T)
      BY <3>2, <3>4, RisenStep
    <3> QED
      BY <2>1, <3>3, <3>5 DEF bad
  <2>4. CASE ~(a > 1 /\ h[a \div 2] > el)
    <3>1. up[a] = [Append(h, el) EXCEPT ![a] = el]
      BY <2>2, <2>4, Zenon DEF UpAt
    <3> HIDE DEF bad
    <3>2. a \in 1..Len(h) + 1
      BY <2>2 DEF n
    <3>3. Risen(h, el, [Append(h, el) EXCEPT ![a] = el], a, T)
      BY <2>4, <3>2, RisenTop
    <3> QED
      BY <2>1, <3>1, <3>3 DEF bad
  <2> QED
    BY <2>3, <2>4
<1>5. Risen(h, el, up[n], n, T)
  BY <1>2, <1>4
<1> HIDE DEF bad
<1> DEFINE g == up[n]
<1>6. /\ g \in [1..n -> T]
      /\ Ordered(h) => \A j \in 2..n : j \div 2 # n => g[j \div 2] <= g[j]
      /\ \A t \in Int : CountOf(g, t) + One(Append(h, el)[n], t)
                          = CountOf(Append(h, el), t) + One(el, t)
  BY <1>2, <1>5 DEF Risen, n
<1> HIDE DEF g
<1>7. g \in Seq(T) /\ Len(g) = n
  BY <1>2, <1>6, FrontOf
<1>8. ASSUME Ordered(h) PROVE Ordered(g)
  <2> SUFFICES ASSUME NEW j \in 2..n PROVE g[j \div 2] <= g[j]
    BY <1>7 DEF Ordered
  <2>1. j \div 2 < j
    BY <1>2, Parent
  <2> QED
    BY <1>2, <1>6, <1>8, <2>1
<1>9. ASSUME NEW t \in Int PROVE CountOf(g, t) = CountOf(h, t) + One(el, t)
  <2>1. Append(h, el)[n] = el
    BY <1>2, AppendedTo
  <2>2. CountOf(g, t) + One(el, t) = CountOf(Append(h, el), t) + One(el, t)
    BY <1>6, <2>1
  <2>3. CountOf(Append(h, el), t) = CountOf(h, t) + One(el, t)
    BY CountAppend
  <2>4. CountOf(g, t) \in Nat
    BY <1>2, <1>7, <1>6, CountFront
  <2>5. CountOf(Append(h, el), t) \in Nat
    <3>1. Append(h, el) \in [1..n -> T]
      BY <1>2, AppendedTo
    <3> QED
      BY <1>2, <3>1, CountFront
  <2> QED
    BY <2>2, <2>3, <2>4, <2>5 DEF One
<1> QED
  BY <1>1, <1>2, <1>7, <1>8, <1>9 DEF g, n
-----------------------------------------------------------------------------
(* The smaller child is below its parent and not larger than its sibling. *)
LEMMA SmallerChild ==
  ASSUME NEW n \in Nat, NEW h \in [1..n + 1 -> Int], NEW a \in Nat, 1 <= a, 2 * a <= n
  PROVE  /\ Child(h, n, a) \in 2..n /\ a < Child(h, n, a) /\ Child(h, n, a) \div 2 = a
         /\ \A j \in 2..n : j \div 2 = a => h[Child(h, n, a)] <= h[j]
<1> DEFINE c == Child(h, n, a)
<1>1. CASE 2 * a # n /\ h[2 * a + 1] < h[2 * a]
  <2>1. c = 2 * a + 1
    BY <1>1 DEF Child
  <2> HIDE DEF c
  <2>2. c \in 2..n /\ a < c /\ c \div 2 = a
    BY <1>1, <2>1
  <2>3. ASSUME NEW j \in 2..n, j \div 2 = a PROVE h[c] <= h[j]
    <3>1. j = 2 * a \/ j = 2 * a + 1
      BY <2>3, Children
    <3>2. h[2 * a] \in Int /\ h[2 * a + 1] \in Int
      BY <1>1
    <3> QED
      BY <1>1, <2>1, <3>1, <3>2
  <2> QED
    BY <2>2, <2>3 DEF c
<1>2. CASE ~(2 * a # n /\ h[2 * a + 1] < h[2 * a])
  <2>1. c = 2 * a
    BY <1>2, Zenon DEF Child
  <2> HIDE DEF c
  <2>2. c \in 2..n /\ a < c /\ c \div 2 = a
    BY <2>1
  <2>3. ASSUME NEW j \in 2..n, j \div 2 = a PROVE h[c] <= h[j]
    <3>1. j = 2 * a \/ j = 2 * a + 1
      BY <2>3, Children
    <3>2. h[2 * a] \in Int /\ (j = 2 * a + 1 => 2 * a # n /\ h[2 * a + 1] \in Int)
      BY <3>1
    <3> QED
      BY <1>2, <2>1, <3>1, <3>2
  <2> QED
    BY <2>2, <2>3 DEF c
<1> QED
  BY <1>1, <1>2

(* The loop of heap_peek at place a. *)
DownAt(h, f, a) ==
  IF 2 * a <= Len(h) - 1 /\ h[Len(h)] > h[Child(h, Len(h) - 1, a)]
  THEN [f[Child(h, Len(h) - 1, a)] EXCEPT ![a] = h[Child(h, Len(h) - 1, a)]]
  ELSE [h EXCEPT ![a] = h[Len(h)]]

LEMMA DownExists ==
  ASSUME NEW h \in Seq(Int), NEW k \in Nat, k <= Len(h)
  PROVE  \E f : f = [a \in (Len(h) + 1 - k)..Len(h) |-> DownAt(h, f, a)]
<1> DEFINE N == Len(h)
           Loop(n, f) == f = [a \in (N + 1 - n)..N |-> DownAt(h, f, a)]
           none == {n \in Nat : n <= N /\ \A f : ~Loop(n, f)}
<1> SUFFICES ASSUME none # {} PROVE FALSE
  OBVIOUS
<1>1. PICK n \in none : \A m \in none : n <= m
  BY MinExists
<1>2. n # 0
  <2> DEFINE f == [a \in (N + 1)..N |-> 0]
  <2>1. f = [a \in (N + 1)..N |-> DownAt(h, f, a)]
    OBVIOUS
  <2> HIDE DEF f
  <2> QED
    BY <1>1, <2>1
<1>3. n \in Nat /\ n <= N /\ n - 1 \in Nat \ none /\ N \in Nat
  <2> HIDE DEF none
  <2>1. n \in Nat /\ n <= N
    BY <1>1 DEF none
  <2> QED
    BY <1>1, <1>2, <2>1
<1>4. PICK f : Loop(n - 1, f)
  BY <1>3
<1> DEFINE b == N + 1 - n
           g == [a \in b..N |-> IF a > b THEN f[a] ELSE DownAt(h, f, b)]
<1>5. ASSUME NEW a \in b..N PROVE g[a] = DownAt(h, g, a)
  <2>1. DownAt(h, g, a) = DownAt(h, f, a)
    <3>1. CASE 2 * a <= N - 1
      <4> DEFINE c == Child(h, N - 1, a)
      <4>1. c \in 2..N - 1 /\ a < c
        <5>1. N - 1 \in Nat /\ a \in Nat /\ 1 <= a
          BY <1>3, <3>1
        <5>2. h \in [1..N - 1 + 1 -> Int]
          OBVIOUS
        <5> HIDE DEF N
        <5> QED
          BY <3>1, <5>1, <5>2, SmallerChild
      <4> HIDE DEF c
      <4>2. c \in b..N /\ c > b
        BY <1>3, <4>1
      <4>3. g[c] = f[c]
        BY <4>2
      <4> HIDE DEF g
      <4> QED
        BY <4>3, Zenon DEF DownAt, c
    <3>2. CASE ~(2 * a <= N - 1)
      BY <3>2, Zenon DEF DownAt
    <3> QED
      BY <3>1, <3>2
  <2>2. CASE a = b
    BY <2>1, <2>2
  <2>3. CASE a # b
    <3>1. a \in (N + 1 - (n - 1))..N /\ a > b
      <4>1. b \in Int /\ N + 1 - (n - 1) = b + 1 /\ N \in Int
        BY <1>3
      <4> HIDE DEF b, N
      <4> QED
        BY <2>3, <4>1
    <3>2. g[a] = f[a]
      BY <3>1
    <3>3. f[a] = DownAt(h, f, a)
      BY <1>4, <3>1
    <3> QED
      BY <2>1, <3>2, <3>3
  <2> QED
    BY <2>2, <2>3
<1>6. Loop(n, g)
  <2>1. g = [a \in b..N |-> g[a]]
    OBVIOUS
  <2> HIDE DEF g
  <2> QED
    BY <1>5, <2>1
<1> QED
  BY <1>1, <1>6

(* What the array is when the loop has come to place a. *)
Sunk(h, d, a, T) ==
  /\ d \in [1..Len(h) -> T]
  /\ d[Len(h)] = h[Len(h)]
  /\ \A j \in 1..Len(h) : j < a => d[j] = h[j]
  /\ Ordered(h) => /\ \A j \in 1..Len(h) : d[j] = h[Len(h)] \/ h[j] <= d[j]
                   /\ \A j \in 2..Len(h) - 1 : j # a => d[j \div 2] <= d[j]
  /\ \A t \in Int : CountOf(d, t) + One(h[a], t) = CountOf(h, t) + One(h[Len(h)], t)

LEMMA SunkEnd ==
  ASSUME NEW T, T \subseteq Int, NEW h \in Seq(T), NEW a \in 1..Len(h),
         ~(2 * a <= Len(h) - 1 /\ h[Len(h)] > h[Child(h, Len(h) - 1, a)])
  PROVE  Sunk(h, [h EXCEPT ![a] = h[Len(h)]], a, T)
<1> DEFINE n == Len(h)
           x == h[n]
           d == [h EXCEPT ![a] = x]
<1>1. n \in Nat \ {0} /\ h \in [1..n -> T] /\ h \in [1..n -> Int] /\ a \in 1..n
  BY ArrayOf
<1>2. Ordered(h) => \A j \in 2..n : h[j \div 2] <= h[j]
  BY DEF Ordered
<1>3. ~(2 * a <= n - 1 /\ x > h[Child(h, n - 1, a)])
  OBVIOUS
<1>4. x = h[n]
  OBVIOUS
<1> HIDE DEF n
<1>5. x \in T /\ x \in Int
  BY <1>1, <1>4
<1> HIDE DEF x
<1>6. d \in [1..n -> T] /\ d[a] = x /\ \A j \in 1..n : j # a => d[j] = h[j]
  BY <1>1, <1>5
<1>7. ASSUME NEW t \in Int PROVE CountOf(d, t) + One(h[a], t) = CountOf(h, t) + One(x, t)
  <2>1. n \in Nat /\ h \in [1..n -> Int] /\ a \in 1..n /\ x \in Int
    BY <1>1, <1>5
  <2> QED
    BY <2>1, CountExcept
<1> HIDE DEF d
<1>8. d[n] = x
  BY <1>1, <1>4, <1>6
<1>9. ASSUME NEW j \in 1..n PROVE (j < a => d[j] = h[j]) /\ (d[j] = x \/ h[j] <= d[j])
  BY <1>1, <1>6
<1>10. ASSUME Ordered(h), NEW j \in 2..n - 1, j # a PROVE d[j \div 2] <= d[j]
  <2>1. j \div 2 \in 1..n /\ d[j] = h[j] /\ j \in Nat /\ j \in 2..n
    BY <1>1, <1>6, <1>10, Parent
  <2>2. CASE j \div 2 = a
    <3>1. 2 * a <= n - 1
      BY <1>1, <1>10, <2>1, <2>2, Children
    <3>2. n - 1 \in Nat /\ a \in Nat /\ 1 <= a
      BY <1>1
    <3>3. h \in [1..n - 1 + 1 -> Int]
      BY <1>1
    <3>4. /\ h[Child(h, n - 1, a)] <= h[j]
          /\ Child(h, n - 1, a) \in 2..n - 1
      BY <1>10, <2>2, <3>1, <3>2, <3>3, SmallerChild
    <3>5. h[Child(h, n - 1, a)] \in Int /\ h[j] \in Int
      BY <1>1, <2>1, <3>4
    <3>6. x <= h[j]
      BY <1>3, <1>5, <3>1, <3>4, <3>5
    <3> QED
      BY <1>6, <2>1, <2>2, <3>6
  <2>3. CASE j \div 2 # a
    BY <1>2, <1>6, <1>10, <2>1, <2>3
  <2> QED
    BY <2>2, <2>3
<1>11. Sunk(h, d, a, T)
  BY <1>6, <1>7, <1>8, <1>9, <1>10 DEF Sunk, n, x
<1> QED
  BY <1>11 DEF d, x, n

(* One turn of the loop: the smaller child of place a moves up to it. *)
LEMMA SunkStep ==
  ASSUME NEW T, T \subseteq Int, NEW h \in Seq(T), NEW a \in 1..Len(h),
         2 * a <= Len(h) - 1, h[Len(h)] > h[Child(h, Len(h) - 1, a)],
         NEW v, Sunk(h, v, Child(h, Len(h) - 1, a), T)
  PROVE  Sunk(h, [v EXCEPT ![a] = h[Child(h, Len(h) - 1, a)]], a, T)
<1> DEFINE n == Len(h)
           c == Child(h, n - 1, a)
           x == h[c]
           d == [v EXCEPT ![a] = x]
<1>1. n \in Nat \ {0} /\ h \in [1..n -> T] /\ h \in [1..n -> Int] /\ a \in 1..n
  BY ArrayOf
<1>2. Ordered(h) => \A j \in 2..n : h[j \div 2] <= h[j]
  BY DEF Ordered
<1>3. h[n] > h[c] /\ 2 * a <= n - 1
  OBVIOUS
<1>4. /\ v \in [1..n -> T]
      /\ v[n] = h[n]
      /\ \A j \in 1..n : j < c => v[j] = h[j]
      /\ Ordered(h) => /\ \A j \in 1..n : v[j] = h[n] \/ h[j] <= v[j]
                       /\ \A j \in 2..n - 1 : j # c => v[j \div 2] <= v[j]
      /\ \A t \in Int : CountOf(v, t) + One(h[c], t) = CountOf(h, t) + One(h[n], t)
  BY DEF Sunk
<1> HIDE DEF n
<1>5. /\ c \in 2..n - 1 /\ a < c /\ c \div 2 = a
      /\ \A j \in 2..n - 1 : j \div 2 = a => h[c] <= h[j]
  <2>1. n - 1 \in Nat /\ a \in Nat /\ 1 <= a
    BY <1>1
  <2>2. h \in [1..n - 1 + 1 -> Int]
    BY <1>1
  <2> QED
    BY <1>3, <2>1, <2>2, SmallerChild
<1> HIDE DEF c
<1>6. x \in T /\ x \in Int /\ h[c] = x
  BY <1>1, <1>5
<1>7. h[n] > x
  BY <1>3
<1> HIDE DEF x
<1>8. /\ d \in [1..n -> T] /\ d[a] = x /\ \A j \in 1..n : j # a => d[j] = v[j]
  BY <1>1, <1>4, <1>6
<1>9. v[a] = h[a]
  BY <1>1, <1>4, <1>5
<1>10. ASSUME NEW t \in Int PROVE CountOf(d, t) + One(h[a], t) = CountOf(h, t) + One(h[n], t)
  <2>1. CountOf(v, t) + One(x, t) = CountOf(h, t) + One(h[n], t)
    BY <1>4, <1>6
  <2>2. n \in Nat /\ a \in 1..n /\ x \in Int /\ v \in [1..n -> Int]
    BY <1>1, <1>4, <1>6
  <2>3. /\ CountOf(v, t) \in Nat /\ CountOf([v EXCEPT ![a] = x], t) \in Nat
        /\ CountOf([v EXCEPT ![a] = x], t) + One(v[a], t) = CountOf(v, t) + One(x, t)
    BY <2>2, CountExcept
  <2>4. CountOf(h, t) \in Nat
    <3>1. n \in Nat /\ h \in [1..n -> Int] /\ a \in 1..n
      BY <1>1
    <3> QED
      BY <3>1, CountWithout
  <2> QED
    BY <1>9, <2>1, <2>3, <2>4 DEF One
<1> HIDE DEF d
<1>11. d[n] = h[n]
  BY <1>1, <1>3, <1>4, <1>8
<1>12. ASSUME NEW j \in 1..n, j < a PROVE d[j] = h[j]
  BY <1>1, <1>4, <1>5, <1>8, <1>12
<1>13. ASSUME Ordered(h), NEW j \in 1..n PROVE d[j] = h[n] \/ h[j] <= d[j]
  <2>1. CASE j = a
    <3>1. h[a] <= h[c]
      <4>1. c \in 2..n /\ c \div 2 = a
        BY <1>1, <1>5
      <4>2. h[c \div 2] <= h[c]
        BY <1>2, <1>13, <4>1
      <4> QED
        BY <4>1, <4>2
    <3> QED
      BY <1>6, <1>8, <2>1, <3>1
  <2>2. CASE j # a
    BY <1>1, <1>4, <1>5, <1>8, <1>13, <2>2
  <2> QED
    BY <2>1, <2>2
<1>14. ASSUME Ordered(h), NEW j \in 2..n - 1, j # a PROVE d[j \div 2] <= d[j]
  <2>1. j \div 2 \in 1..n /\ d[j] = v[j] /\ j \in 1..n /\ j \in Nat
    BY <1>1, <1>8, <1>14, Parent
  <2>2. CASE j \div 2 = a
    <3>1. h[c] <= h[j] /\ (v[j] = h[n] \/ h[j] <= v[j])
      BY <1>4, <1>5, <1>14, <2>1, <2>2
    <3>2. h[j] \in Int /\ v[j] \in Int /\ h[n] \in Int
      <4>1. v[j] \in T
        BY <1>4, <2>1
      <4>2. v[j] \in Int
        BY <4>1
      <4>3. h[j] \in Int
        BY <1>1, <2>1
      <4>4. h[n] \in Int
        BY <1>1
      <4> QED
        BY <4>2, <4>3, <4>4
    <3>3. x <= v[j]
      BY <1>6, <1>7, <3>1, <3>2
    <3> QED
      BY <1>8, <2>1, <2>2, <3>3
  <2>3. CASE j \div 2 # a
    <3>1. j # c /\ d[j \div 2] = v[j \div 2]
      BY <1>5, <1>8, <2>1, <2>3
    <3> QED
      BY <1>4, <1>14, <2>1, <3>1
  <2> QED
    BY <2>2, <2>3
<1>15. Sunk(h, d, a, T)
  BY <1>8, <1>10, <1>11, <1>12, <1>13, <1>14 DEF Sunk, n
<1> QED
  BY <1>15 DEF d, x, c, n

(* heap_peek removes the first element, and keeps the order, in a heap of  *)
(* any size.                                                               *)
LEMMA Peeked ==
  ASSUME NEW T, T \subseteq Int, NEW h \in Seq(T), 1 <= Len(h)
  PROVE  /\ heap_peek(h) \in Seq(T) /\ Len(heap_peek(h)) = Len(h) - 1
         /\ Ordered(h) => Ordered(heap_peek(h))
         /\ \A t \in Int : CountOf(h, t) = CountOf(heap_peek(h), t) + One(h[1], t)
<1> DEFINE N == Len(h)
           n == N - 1
           down == CHOOSE down : down = [i \in 1..N |->
                     IF 2 * i <= n /\ h[N] > h[Child(h, n, i)]
                     THEN [down[Child(h, n, i)] EXCEPT ![i] = h[Child(h, n, i)]]
                     ELSE [h EXCEPT ![i] = h[N]]]
<1>1. heap_peek(h) = SubSeq(down[1], 1, n)
  BY DEF heap_peek
<1>2. /\ N \in Nat \ {0} /\ h \in [1..N -> T] /\ h \in [1..N -> Int] /\ 1 \in 1..N
      /\ n \in Nat
  <2>1. 1 \in 1..Len(h)
    OBVIOUS
  <2>2. /\ N \in Nat \ {0} /\ h \in [1..N -> T] /\ h \in [1..N -> Int] /\ 1 \in 1..N
    BY <2>1, ArrayOf
  <2> HIDE DEF N
  <2> QED
    BY <2>2
<1>3. down = [i \in 1..N |-> DownAt(h, down, i)]
  <2>1. \E f : f = [a \in 1..N |-> DownAt(h, f, a)]
    <3>1. h \in Seq(Int) /\ N \in Nat /\ N <= Len(h)
      BY <1>2
    <3>2. \E f : f = [a \in (Len(h) + 1 - N)..Len(h) |-> DownAt(h, f, a)]
      BY <3>1, DownExists
    <3>3. (Len(h) + 1 - N)..Len(h) = 1..N
      OBVIOUS
    <3> QED
      BY <3>2, <3>3, Zenon
  <2>2. \E f : f = [i \in 1..N |->
                     IF 2 * i <= n /\ h[N] > h[Child(h, n, i)]
                     THEN [f[Child(h, n, i)] EXCEPT ![i] = h[Child(h, n, i)]]
                     ELSE [h EXCEPT ![i] = h[N]]]
    BY <2>1, Zenon DEF DownAt
  <2>3. down = [i \in 1..N |->
                     IF 2 * i <= n /\ h[N] > h[Child(h, n, i)]
                     THEN [down[Child(h, n, i)] EXCEPT ![i] = h[Child(h, n, i)]]
                     ELSE [h EXCEPT ![i] = h[N]]]
    BY <2>2, Zenon
  <2> HIDE DEF down
  <2> QED
    BY <2>3, Zenon DEF DownAt
<1> HIDE DEF down
<1> DEFINE bad == {m \in Nat : m < N /\ ~Sunk(h, down[N - m], N - m, T)}
<1>4. bad = {}
  <2> SUFFICES ASSUME bad # {} PROVE FALSE
    OBVIOUS
  <2>1. PICK m \in bad : \A k \in bad : m <= k
    BY MinExists
  <2> DEFINE a == N - m
             c == Child(h, n, a)
  <2>2. m \in Nat /\ m < N /\ ~Sunk(h, down[a], a, T)
    BY <2>1
  <2> HIDE DEF bad, N
  <2>3. a \in 1..N /\ a \in Nat /\ 1 <= a
    BY <1>2, <2>2
  <2> HIDE DEF a
  <2>4. a \in 1..N /\ down[a] = DownAt(h, down, a) /\ a \in Nat /\ 1 <= a
    BY <1>3, <2>3
  <2>5. CASE 2 * a <= n /\ h[N] > h[c]
    <3>1. c \in 2..n /\ a < c
      <4>1. h \in [1..n + 1 -> Int]
        BY <1>2
      <4> QED
        BY <1>2, <2>4, <2>5, <4>1, SmallerChild
    <3> HIDE DEF c
    <3>2. Sunk(h, down[c], c, T)
      <4>1. N - c \in Nat /\ N - c < m /\ N - (N - c) = c /\ N - c < N
        BY <1>2, <2>2, <2>4, <3>1 DEF a
      <4>2. N - c \notin bad
        BY <2>1, <2>2, <4>1
      <4> QED
        BY <4>1, <4>2 DEF bad
    <3>3. down[a] = [down[c] EXCEPT ![a] = h[c]]
      BY <2>4, <2>5, Zenon DEF DownAt, N, c
    <3>4. Sunk(h, [down[c] EXCEPT ![a] = h[c]], a, T)
      BY <2>4, <2>5, <3>2, SunkStep DEF N, c
    <3> QED
      BY <2>2, <3>3, <3>4
  <2>6. CASE ~(2 * a <= n /\ h[N] > h[c])
    <3>1. down[a] = [h EXCEPT ![a] = h[N]]
      BY <2>4, <2>6, Zenon DEF DownAt, N
    <3>2. Sunk(h, [h EXCEPT ![a] = h[N]], a, T)
      BY <2>4, <2>6, SunkEnd DEF N
    <3> QED
      BY <2>2, <3>1, <3>2
  <2> QED
    BY <2>5, <2>6
<1> HIDE DEF N
<1>5. Sunk(h, down[1], 1, T)
  <2> HIDE DEF bad
  <2>1. N - 1 \in Nat /\ N - 1 < N /\ N - (N - 1) = 1 /\ N - 1 \notin bad
    BY <1>2, <1>4
  <2> QED
    BY <2>1 DEF bad
<1> HIDE DEF bad
<1> DEFINE d == down[1]
           g == SubSeq(d, 1, N - 1)
<1>6. /\ d \in [1..N -> T]
      /\ d[N] = h[N]
      /\ Ordered(h) => \A j \in 2..N - 1 : j # 1 => d[j \div 2] <= d[j]
      /\ \A t \in Int : CountOf(d, t) + One(h[1], t) = CountOf(h, t) + One(h[N], t)
  BY <1>5 DEF Sunk, N
<1> HIDE DEF d
<1>7. /\ g \in Seq(T) /\ Len(g) = N - 1
      /\ \A p \in 1..N - 1 : g[p] = d[p]
  BY <1>2, <1>6, FrontOf
<1>8. ASSUME NEW t \in Int PROVE CountOf(h, t) = CountOf(g, t) + One(h[1], t)
  <2>1. /\ CountOf(d, t) \in Nat /\ CountOf(g, t) \in Nat
        /\ CountOf(d, t) = CountOf(g, t) + One(h[N], t)
    <3>1. d \in [1..N -> T] /\ N \in Nat \ {0} /\ d[N] = h[N]
      BY <1>2, <1>6
    <3>2. /\ CountOf(d, t) \in Nat /\ CountOf(g, t) \in Nat
          /\ CountOf(d, t) = CountOf(g, t) + One(d[N], t)
      BY <3>1, CountFront, Zenon
    <3> QED
      BY <3>1, <3>2, Zenon
  <2>2. CountOf(h, t) \in Nat
    <3>1. N \in Nat /\ h \in [1..N -> Int] /\ 1 \in 1..N
      BY <1>2
    <3> QED
      BY <3>1, CountWithout
  <2>3. CountOf(d, t) + One(h[1], t) = CountOf(h, t) + One(h[N], t)
    BY <1>6
  <2>4. One(h[1], t) \in Nat /\ One(h[N], t) \in Nat
    BY DEF One
  <2> DEFINE ch == CountOf(h, t)
             cd == CountOf(d, t)
             cg == CountOf(g, t)
             o1 == One(h[1], t)
             oN == One(h[N], t)
  <2>5. /\ ch \in Nat /\ cd \in Nat /\ cg \in Nat /\ o1 \in Nat /\ oN \in Nat
        /\ cd = cg + oN /\ cd + o1 = ch + oN
    BY <2>1, <2>2, <2>3, <2>4
  <2> HIDE DEF ch, cd, cg, o1, oN
  <2>6. ch = cg + o1
    BY <2>5
  <2> QED
    BY <2>6 DEF ch, cg, o1
<1> HIDE DEF g
<1>9. ASSUME Ordered(h) PROVE Ordered(g)
  <2> SUFFICES ASSUME NEW j \in 2..N - 1 PROVE g[j \div 2] <= g[j]
    BY <1>7 DEF Ordered
  <2>1. j \div 2 \in 1..N - 1
    BY <1>2, Parent
  <2> QED
    BY <1>2, <1>6, <1>7, <1>9, <2>1
<1>10. heap_peek(h) = g
  BY <1>1 DEF g, d
<1> QED
  BY <1>7, <1>8, <1>9, <1>10 DEF N
-----------------------------------------------------------------------------
(* The root is the least element. *)
LEMMA RootLeast ==
  ASSUME NEW T, T \subseteq Int, NEW h \in Seq(T), Ordered(h), NEW a \in 1..Len(h)
  PROVE  h[1] <= h[a]
<1> DEFINE N == Len(h)
           bad == {j \in Nat : j \in 1..N /\ ~(h[1] <= h[j])}
<1>1. N \in Nat \ {0} /\ h \in [1..N -> Int] /\ a \in 1..N
  BY ArrayOf
<1>2. \A j \in 2..N : h[j \div 2] <= h[j]
  BY DEF Ordered
<1> HIDE DEF N
<1>3. SUFFICES ASSUME bad # {} PROVE FALSE
  BY <1>1
<1>4. PICK j \in bad : \A m \in bad : j <= m
  <2>1. bad \in SUBSET Nat
    OBVIOUS
  <2> HIDE DEF bad
  <2> QED
    BY <1>3, <2>1, MinExists
<1>5. j \in 1..N /\ ~(h[1] <= h[j])
  BY <1>4
<1>6. h[1] \in Int /\ h[j] \in Int /\ 1 \in 1..N
  BY <1>1, <1>5
<1>7. j \in 2..N
  <2>1. j # 1
    BY <1>5, <1>6
  <2> QED
    BY <1>1, <1>5, <2>1
<1>8. j \div 2 \in 1..N /\ j \div 2 < j /\ j \div 2 \in Nat
  BY <1>1, <1>7, Parent
<1>9. h[1] <= h[j \div 2]
  BY <1>4, <1>8
<1>10. h[j \div 2] <= h[j] /\ h[j \div 2] \in Int
  BY <1>1, <1>2, <1>7, <1>8
<1> HIDE DEF bad
<1> QED
  BY <1>5, <1>6, <1>9, <1>10

(* Swapping neighbours: s is g with a - 1 and a in order. *)
InOrder(g, s, a, n, T) ==
  /\ s \in [1..n -> T]
  /\ \A j \in 1..n : j # a /\ j # a - 1 => s[j] = g[j]
  /\ s[a - 1] <= s[a]
  /\ \/ s[a - 1] = g[a - 1] /\ s[a] = g[a]
     \/ s[a - 1] = g[a] /\ s[a] = g[a - 1]
  /\ \A t \in Int : CountOf(s, t) = CountOf(g, t)

LEMMA Swapped ==
  ASSUME NEW T, T \subseteq Int, NEW n \in Nat, NEW g \in [1..n -> T], NEW a \in 2..n
  PROVE  InOrder(g, Swap(g, a), a, n, T)
<1>1. /\ g[a] \in T /\ g[a - 1] \in T
      /\ a \in 1..n /\ a - 1 \in 1..n /\ a # a - 1
  OBVIOUS
<1>2. g[a] \in Int /\ g[a - 1] \in Int
  BY <1>1
<1>3. g \in [1..n -> Int]
  OBVIOUS
<1>4. CASE g[a - 1] > g[a]
  <2> DEFINE x == g[a]
             y == g[a - 1]
             f == [g EXCEPT ![a - 1] = x]
             k == [f EXCEPT ![a] = y]
  <2>1. Swap(g, a) = k
    BY <1>4, Zenon DEF Swap
  <2>2. x \in T /\ y \in T /\ x \in Int /\ y \in Int /\ y > x
    BY <1>1, <1>2, <1>4
  <2>3. x = g[a] /\ y = g[a - 1]
    OBVIOUS
  <2> HIDE DEF x, y
  <2>4. f \in [1..n -> T] /\ f[a] = x /\ \A j \in 1..n : j # a - 1 => f[j] = g[j]
    BY <1>1, <2>2, <2>3
  <2>5. f[a - 1] = x
    BY <1>1
  <2>6. ASSUME NEW t \in Int
        PROVE  CountOf(f, t) \in Nat /\ CountOf(g, t) \in Nat
               /\ CountOf(f, t) + One(y, t) = CountOf(g, t) + One(x, t)
    <3>1. a - 1 \in 1..n /\ x \in Int /\ y = g[a - 1]
      BY <1>1, <2>2, <2>3
    <3>2. /\ CountOf(g, t) \in Nat /\ CountOf(f, t) \in Nat
          /\ CountOf(f, t) + One(g[a - 1], t) = CountOf(g, t) + One(x, t)
      <4> DEFINE b == a - 1
      <4>1. n \in Nat /\ g \in [1..n -> Int] /\ b \in 1..n /\ x \in Int
        BY <1>3, <3>1
      <4> HIDE DEF b
      <4>2. /\ CountOf(g, t) \in Nat /\ CountOf([g EXCEPT ![b] = x], t) \in Nat
            /\ CountOf([g EXCEPT ![b] = x], t) + One(g[b], t) = CountOf(g, t) + One(x, t)
        BY <4>1, CountExcept
      <4> QED
        BY <4>2, Zenon DEF b
    <3> QED
      BY <3>1, <3>2, Zenon
  <2> HIDE DEF f
  <2>7. k \in [1..n -> T] /\ k[a] = y /\ \A j \in 1..n : j # a => k[j] = f[j]
    BY <1>1, <2>2, <2>4
  <2>8. f \in [1..n -> Int]
    BY <2>4
  <2>9. ASSUME NEW t \in Int
        PROVE  CountOf(k, t) \in Nat /\ CountOf(k, t) + One(x, t) = CountOf(f, t) + One(y, t)
    <3>1. /\ CountOf([f EXCEPT ![a] = y], t) \in Nat
          /\ CountOf([f EXCEPT ![a] = y], t) + One(f[a], t) = CountOf(f, t) + One(y, t)
      <4>1. f \in [1..n -> Int] /\ a \in 1..n /\ y \in Int
        BY <1>1, <2>2, <2>8
      <4> HIDE DEF k
      <4> QED
        BY <4>1, CountExcept
    <3> QED
      BY <2>4, <3>1
  <2> HIDE DEF k
  <2>10. ASSUME NEW t \in Int PROVE CountOf(k, t) = CountOf(g, t)
    <3>1. One(x, t) \in Nat /\ One(y, t) \in Nat
      BY DEF One
    <3>2. /\ CountOf(f, t) \in Nat /\ CountOf(g, t) \in Nat
          /\ CountOf(f, t) + One(y, t) = CountOf(g, t) + One(x, t)
      BY <2>6
    <3>3. CountOf(k, t) \in Nat /\ CountOf(k, t) + One(x, t) = CountOf(f, t) + One(y, t)
      BY <2>9
    <3> QED
      BY <3>1, <3>2, <3>3
  <2>11. k[a - 1] = x /\ x <= y
    BY <1>1, <2>2, <2>5, <2>7
  <2>12. \A j \in 1..n : j # a /\ j # a - 1 => k[j] = g[j]
    BY <2>4, <2>7
  <2> QED
    BY <2>1, <2>3, <2>7, <2>10, <2>11, <2>12 DEF InOrder
<1>5. CASE ~(g[a - 1] > g[a])
  <2>1. Swap(g, a) = g
    BY <1>5, Zenon DEF Swap
  <2> QED
    BY <1>2, <1>5, <2>1 DEF InOrder
<1> QED
  BY <1>4, <1>5

(* The pass of heap_delete when it comes to place a. *)
PassAt(h, found, f, a) ==
  IF a = found THEN [h EXCEPT ![found] = h[Len(h)]] ELSE Swap(f[a - 1], a)

LEMMA PassExists ==
  ASSUME NEW h, NEW found \in Nat, NEW k \in Nat
  PROVE  \E f : f = [a \in found..found + k |-> PassAt(h, found, f, a)]
<1> DEFINE Loop(n, f) == f = [a \in found..found + n |-> PassAt(h, found, f, a)]
           none == {n \in Nat : \A f : ~Loop(n, f)}
<1> SUFFICES ASSUME none # {} PROVE FALSE
  OBVIOUS
<1>1. PICK n \in none : \A m \in none : n <= m
  BY MinExists
<1>2. CASE n = 0
  <2> DEFINE g == [h EXCEPT ![found] = h[Len(h)]]
             f == [a \in found..found + 0 |-> g]
  <2>1. ASSUME NEW a \in found..found + 0 PROVE f[a] = PassAt(h, found, f, a)
    <3>1. a = found
      OBVIOUS
    <3>2. PassAt(h, found, f, a) = g
      BY <3>1, Zenon DEF PassAt
    <3> QED
      BY <3>2, Zenon
  <2>2. f = [a \in found..found + 0 |-> f[a]]
    OBVIOUS
  <2> HIDE DEF f
  <2>3. f = [a \in found..found + 0 |-> PassAt(h, found, f, a)]
    BY <2>1, <2>2
  <2> QED
    BY <1>1, <1>2, <2>3
<1>3. CASE n # 0
  <2>1. n - 1 \in Nat \ none /\ n \in Nat
    <3> HIDE DEF none
    <3>1. n \in Nat
      BY <1>1 DEF none
    <3> QED
      BY <1>1, <1>3, <3>1
  <2>2. PICK f : Loop(n - 1, f)
    BY <2>1
  <2> DEFINE N == found + n
             g == [a \in found..N |-> IF a < N THEN f[a] ELSE PassAt(h, found, f, N)]
  <2>3. ASSUME NEW a \in found..N PROVE g[a] = PassAt(h, found, g, a)
    <3>1. PassAt(h, found, g, a) = PassAt(h, found, f, a)
      <4>1. CASE a = found
        BY <4>1, Zenon DEF PassAt
      <4>2. CASE a # found
        <5>1. a - 1 \in found..N /\ a - 1 < N
          BY <2>1, <4>2
        <5>2. g[a - 1] = f[a - 1]
          BY <5>1
        <5> HIDE DEF g
        <5> QED
          BY <4>2, <5>2, Zenon DEF PassAt
      <4> QED
        BY <4>1, <4>2
    <3>2. CASE a = N
      BY <3>1, <3>2
    <3>3. CASE a # N
      <4>1. a \in found..found + (n - 1) /\ a < N
        BY <2>1, <3>3
      <4>2. g[a] = f[a]
        BY <4>1
      <4>3. f[a] = PassAt(h, found, f, a)
        BY <2>2, <4>1
      <4> QED
        BY <3>1, <4>2, <4>3
    <3> QED
      BY <3>2, <3>3
  <2>4. Loop(n, g)
    <3>1. g = [a \in found..N |-> g[a]]
      OBVIOUS
    <3> HIDE DEF g
    <3> QED
      BY <2>3, <3>1
  <2> QED
    BY <1>1, <2>4
<1> QED
  BY <1>2, <1>3

(* The array when the pass comes to place a: nothing before found has      *)
(* changed, and the largest of what it has passed is at a.                 *)
Passed(h, found, g, a, T) ==
  /\ g \in [1..Len(h) -> T]
  /\ g[Len(h)] = h[Len(h)]
  /\ \A j \in 1..Len(h) : j < found => g[j] = h[j]
  /\ Ordered(h) => \A j \in 1..Len(h) : h[1] <= g[j]
  /\ \A j \in found..a : g[j] <= g[a]
  /\ \A t \in Int : CountOf(g, t) + One(h[found], t) = CountOf(h, t) + One(h[Len(h)], t)

LEMMA PassStart ==
  ASSUME NEW T, T \subseteq Int, NEW h \in Seq(T), NEW found \in 2..Len(h) - 1
  PROVE  Passed(h, found, [h EXCEPT ![found] = h[Len(h)]], found, T)
<1> DEFINE n == Len(h)
           x == h[n]
           g == [h EXCEPT ![found] = x]
<1>1. found \in 1..Len(h)
  OBVIOUS
<1>2. n \in Nat \ {0} /\ h \in [1..n -> T] /\ h \in [1..n -> Int] /\ found \in 1..n
  BY <1>1, ArrayOf
<1>3. x = h[n] /\ found < n /\ 1 < found
  OBVIOUS
<1>4. Ordered(h) => \A j \in 1..n : h[1] <= h[j]
  BY RootLeast
<1> HIDE DEF n
<1>5. x \in T /\ x \in Int /\ (Ordered(h) => h[1] <= x)
  BY <1>2, <1>3, <1>4
<1> HIDE DEF x
<1>6. g \in [1..n -> T] /\ g[found] = x /\ \A j \in 1..n : j # found => g[j] = h[j]
  BY <1>2, <1>5
<1>7. ASSUME NEW t \in Int PROVE CountOf(g, t) + One(h[found], t) = CountOf(h, t) + One(x, t)
  <2>1. n \in Nat /\ h \in [1..n -> Int] /\ found \in 1..n /\ x \in Int
    BY <1>2, <1>5
  <2> QED
    BY <2>1, CountExcept
<1> HIDE DEF g
<1>8. g[n] = x
  BY <1>2, <1>3, <1>6
<1>9. ASSUME NEW j \in 1..n PROVE (j < found => g[j] = h[j]) /\ (Ordered(h) => h[1] <= g[j])
  BY <1>2, <1>4, <1>5, <1>6
<1>10. \A j \in found..found : g[j] <= g[found]
  <2>1. \A j \in found..found : j = found
    BY <1>2
  <2> QED
    BY <1>5, <1>6, <2>1
<1>11. Passed(h, found, g, found, T)
  BY <1>6, <1>7, <1>8, <1>9, <1>10 DEF Passed, n, x
<1> QED
  BY <1>11 DEF g, x, n

LEMMA PassStep ==
  ASSUME NEW T, T \subseteq Int, NEW h \in Seq(T), NEW found \in 2..Len(h) - 1,
         NEW a \in found + 1..Len(h) - 1, NEW v, Passed(h, found, v, a - 1, T)
  PROVE  Passed(h, found, Swap(v, a), a, T)
<1> DEFINE n == Len(h)
           g == Swap(v, a)
           b == a - 1
<1>1. /\ v \in [1..n -> T]
      /\ v[n] = h[n]
      /\ \A j \in 1..n : (j < found => v[j] = h[j]) /\ (Ordered(h) => h[1] <= v[j])
      /\ \A j \in found..b : v[j] <= v[b]
      /\ \A t \in Int : CountOf(v, t) + One(h[found], t) = CountOf(h, t) + One(h[n], t)
  BY DEF Passed
<1>2. n \in Nat /\ found \in 2..n - 1 /\ a \in found + 1..n - 1
  OBVIOUS
<1> HIDE DEF n
<1>3. /\ a \in 2..n /\ a \in 1..n /\ b \in 1..n /\ found <= b /\ b = a - 1 /\ a < n
  BY <1>2
<1>4. v \in [1..n -> Int]
  BY <1>1
<1>5. v[a] \in Int /\ v[b] \in Int
  BY <1>3, <1>4
<1>6. /\ g \in [1..n -> T]
      /\ \A j \in 1..n : j # a /\ j # a - 1 => g[j] = v[j]
      /\ g[a - 1] <= g[a]
      /\ \/ g[a - 1] = v[a - 1] /\ g[a] = v[a]
         \/ g[a - 1] = v[a] /\ g[a] = v[a - 1]
      /\ \A t \in Int : CountOf(g, t) = CountOf(v, t)
  <2>1. n \in Nat /\ v \in [1..n -> T] /\ a \in 2..n
    BY <1>1, <1>2, <1>3
  <2>2. InOrder(v, Swap(v, a), a, n, T)
    BY <2>1, Swapped
  <2> QED
    BY <2>2, Zenon DEF InOrder
<1> HIDE DEF g
<1>7. g[n] = h[n]
  BY <1>1, <1>2, <1>3, <1>6
<1>8. ASSUME NEW j \in 1..n PROVE (j < found => g[j] = h[j]) /\ (Ordered(h) => h[1] <= g[j])
  BY <1>1, <1>2, <1>3, <1>6
<1>9. ASSUME NEW j \in found..a PROVE g[j] <= g[a]
  <2>1. CASE j = a
    BY <1>5, <1>6, <2>1
  <2>2. CASE j = a - 1
    BY <1>6, <2>2
  <2>3. CASE j # a /\ j # a - 1
    <3>1. j \in found..b /\ j \in 1..n
      BY <1>2, <1>3, <2>3
    <3>2. g[j] = v[j] /\ v[j] <= v[b] /\ v[j] \in Int
      BY <1>1, <1>4, <1>6, <2>3, <3>1
    <3>3. v[b] <= g[a]
      BY <1>3, <1>5, <1>6
    <3>4. g[a] \in Int
      BY <1>3, <1>5, <1>6
    <3> QED
      BY <1>5, <3>2, <3>3, <3>4
  <2> QED
    BY <2>1, <2>2, <2>3
<1>10. ASSUME NEW t \in Int
       PROVE  CountOf(g, t) + One(h[found], t) = CountOf(h, t) + One(h[n], t)
  BY <1>1, <1>6
<1>11. Passed(h, found, g, a, T)
  BY <1>6, <1>7, <1>8, <1>9, <1>10 DEF Passed, n
<1> QED
  BY <1>11 DEF g

(* The deletions that keep the order: the code's pass over the rest of the *)
(* array does not compare an element with its parent and children, which   *)
(* shows once the heap has six elements.                                   *)
OrderKept(h, found) == Len(h) <= 5 \/ found = 1 \/ found = Len(h)

(* heap_delete, in the middle, removes the element at found from a heap of *)
(* any size, and keeps the order in one of at most five.                   *)
LEMMA DeletedMiddle ==
  ASSUME NEW T, T \subseteq Int, NEW h \in Seq(T), NEW found \in 2..Len(h) - 1
  PROVE  /\ heap_delete(h, found) \in Seq(T) /\ Len(heap_delete(h, found)) = Len(h) - 1
         /\ Ordered(h) /\ Len(h) <= 5 => Ordered(heap_delete(h, found))
         /\ \A t \in Int : CountOf(h, t) = CountOf(heap_delete(h, found), t) + One(h[found], t)
<1> DEFINE N == Len(h)
           n == N - 1
           pass == CHOOSE pass : pass = [i \in found..n |->
             IF i = found THEN [h EXCEPT ![found] = h[N]] ELSE Swap(pass[i - 1], i)]
<1>1. heap_delete(h, found) = SubSeq(pass[n], 1, n)
  <2>1. found # 1 /\ found # Len(h)
    OBVIOUS
  <2> QED
    BY <2>1, Zenon DEF heap_delete
<1>2. /\ N \in Nat \ {0} /\ h \in [1..N -> T] /\ h \in [1..N -> Int] /\ found \in 1..N
      /\ found \in 2..n /\ n = N - 1
  <2>1. found \in 1..Len(h)
    OBVIOUS
  <2>2. /\ N \in Nat \ {0} /\ h \in [1..N -> T] /\ h \in [1..N -> Int] /\ found \in 1..N
    BY <2>1, ArrayOf
  <2> QED
    BY <2>2
<1>3. pass = [a \in found..n |-> PassAt(h, found, pass, a)]
  <2> HIDE DEF N, n
  <2> DEFINE k == n - found
  <2>1. found \in Nat /\ k \in Nat /\ found + k = n
    BY <1>2
  <2> HIDE DEF k
  <2>2. \E f : f = [a \in found..found + k |-> PassAt(h, found, f, a)]
    BY <2>1, PassExists
  <2>3. \E f : f = [i \in found..n |->
             IF i = found THEN [h EXCEPT ![found] = h[N]] ELSE Swap(f[i - 1], i)]
    BY <2>1, <2>2, Zenon DEF PassAt, N
  <2>4. pass = [i \in found..n |->
             IF i = found THEN [h EXCEPT ![found] = h[N]] ELSE Swap(pass[i - 1], i)]
    BY <2>3, Zenon
  <2> HIDE DEF pass
  <2> QED
    BY <2>4, Zenon DEF PassAt, N
<1> HIDE DEF pass, N, n
<1>4. pass[found] = [h EXCEPT ![found] = h[N]]
  <2>1. found \in found..n
    BY <1>2
  <2> QED
    BY <1>3, <2>1, Zenon DEF PassAt, N
<1>5. ASSUME NEW a \in found + 1..n PROVE pass[a] = Swap(pass[a - 1], a)
  <2>1. a \in found..n /\ a # found
    BY <1>2
  <2> QED
    BY <1>3, <2>1, Zenon DEF PassAt
<1>6. Passed(h, found, pass[found], found, T)
  <2>1. found \in 2..Len(h) - 1
    OBVIOUS
  <2>2. Passed(h, found, [h EXCEPT ![found] = h[Len(h)]], found, T)
    BY <2>1, PassStart
  <2> QED
    BY <1>4, <2>2, Zenon DEF N
<1> DEFINE bad == {a \in Nat : a \in found..n /\ ~Passed(h, found, pass[a], a, T)}
<1>7. bad = {}
  <2> SUFFICES ASSUME bad # {} PROVE FALSE
    OBVIOUS
  <2>1. PICK a \in bad : \A m \in bad : a <= m
    <3>1. bad \in SUBSET Nat
      OBVIOUS
    <3> HIDE DEF bad
    <3> QED
      BY <3>1, MinExists
  <2>2. a \in found..n /\ ~Passed(h, found, pass[a], a, T)
    BY <2>1
  <2>3. a # found
    BY <1>6, <2>2
  <2> HIDE DEF bad
  <2>4. a \in found + 1..n /\ a - 1 \in found..n /\ a - 1 \in Nat /\ a - 1 < a /\ a \in Nat
    BY <1>2, <2>2, <2>3
  <2>5. a - 1 \notin bad
    BY <2>1, <2>4
  <2>6. Passed(h, found, pass[a - 1], a - 1, T)
    BY <2>4, <2>5 DEF bad
  <2>7. Passed(h, found, Swap(pass[a - 1], a), a, T)
    <3>1. found \in 2..Len(h) - 1 /\ a \in found + 1..Len(h) - 1
      BY <1>2, <2>4 DEF N
    <3> QED
      BY <2>6, <3>1, PassStep
  <2> QED
    BY <1>5, <2>2, <2>4, <2>7
<1>8. Passed(h, found, pass[n], n, T)
  <2>1. n \in found..n /\ n \in Nat
    BY <1>2
  <2> QED
    BY <1>7, <2>1
<1> HIDE DEF bad
<1> DEFINE d == pass[n]
           g == SubSeq(d, 1, N - 1)
<1>9. /\ d \in [1..N -> T]
      /\ d[N] = h[N]
      /\ \A j \in 1..N : (j < found => d[j] = h[j]) /\ (Ordered(h) => h[1] <= d[j])
      /\ \A j \in found..n : d[j] <= d[n]
      /\ \A t \in Int : CountOf(d, t) + One(h[found], t) = CountOf(h, t) + One(h[N], t)
  BY <1>8 DEF Passed, N
<1>10. heap_delete(h, found) = g
  BY <1>1, <1>2
<1> HIDE DEF d
<1>11. /\ g \in Seq(T) /\ Len(g) = N - 1
       /\ \A p \in 1..N - 1 : g[p] = d[p]
  BY <1>2, <1>9, FrontOf
<1>12. ASSUME NEW t \in Int PROVE CountOf(h, t) = CountOf(g, t) + One(h[found], t)
  <2>1. /\ CountOf(d, t) \in Nat /\ CountOf(g, t) \in Nat
        /\ CountOf(d, t) = CountOf(g, t) + One(h[N], t)
    <3>1. N \in Nat \ {0} /\ d \in [1..N -> T] /\ d[N] = h[N]
      BY <1>2, <1>9
    <3> QED
      BY <3>1, CountFront
  <2>2. CountOf(h, t) \in Nat
    <3>1. N \in Nat /\ h \in [1..N -> Int] /\ found \in 1..N
      BY <1>2
    <3> QED
      BY <3>1, CountWithout
  <2>3. CountOf(d, t) + One(h[found], t) = CountOf(h, t) + One(h[N], t)
    BY <1>9
  <2> HIDE DEF g
  <2> QED
    BY <2>1, <2>2, <2>3 DEF One
<1> HIDE DEF g
<1>13. ASSUME Ordered(h), N <= 5 PROVE Ordered(g)
  <2> SUFFICES ASSUME NEW j \in 2..N - 1 PROVE g[j \div 2] <= g[j]
    BY <1>11 DEF Ordered
  <2> SUFFICES d[j \div 2] <= d[j]
    <3>1. j \in 1..N - 1 /\ j \div 2 \in 1..N - 1
      BY <1>2, Parent
    <3> QED
      BY <1>11, <3>1
  <2>1. d[1] = h[1]
    BY <1>2, <1>9
  <2>2. CASE j < 4
    <3>1. j \div 2 = 1 /\ j \in 1..N
      BY <1>2, <2>2
    <3> QED
      BY <1>9, <1>13, <2>1, <3>1
  <2>3. CASE ~(j < 4)
    <3>1. j = 4 /\ N = 5 /\ n = 4 /\ j \div 2 = 2
      BY <1>2, <1>13, <2>3
    <3>2. h[2] <= h[4] /\ h[2] <= h[5]
      <4>1. \A k \in 2..5 : h[k \div 2] <= h[k]
        BY <1>13, <3>1 DEF Ordered, N
      <4>2. h[4 \div 2] <= h[4] /\ h[5 \div 2] <= h[5]
        BY <4>1
      <4> QED
        BY <4>2
    <3>3. CASE found = 2
      BY <1>9, <3>1, <3>3
    <3>4. CASE found # 2
      <4>1. d[2] = h[2]
        BY <1>2, <1>9, <3>1, <3>4
      <4>2. CASE found = 4
        <5>1. d = [h EXCEPT ![4] = h[5]]
          BY <1>4, <3>1, <4>2 DEF d
        <5>2. d[4] = h[5]
          BY <1>2, <3>1, <5>1
        <5> QED
          BY <3>1, <3>2, <4>1, <5>2
      <4>3. CASE found = 3
        <5> DEFINE f == [h EXCEPT ![3] = h[5]]
        <5>1. pass[3] = f
          BY <1>4, <3>1, <4>3
        <5>2. f \in [1..5 -> T] /\ f[3] = h[5] /\ f[4] = h[4]
          BY <1>2, <3>1
        <5> HIDE DEF f
        <5>3. d = Swap(f, 4)
          <6>1. 4 \in found + 1..n /\ 4 - 1 = 3
            BY <3>1, <4>3
          <6>2. pass[4] = Swap(pass[4 - 1], 4)
            BY <1>5, <6>1
          <6> QED
            BY <3>1, <5>1, <6>1, <6>2 DEF d
        <5>4. Swap(f, 4)[4] = f[4] \/ Swap(f, 4)[4] = f[4 - 1]
          <6>1. 5 \in Nat /\ 4 \in 2..5
            OBVIOUS
          <6>2. InOrder(f, Swap(f, 4), 4, 5, T)
            BY <5>2, <6>1, Swapped
          <6> QED
            BY <6>2, Zenon DEF InOrder
        <5>5. d[4] = h[4] \/ d[4] = h[5]
          BY <5>2, <5>3, <5>4
        <5> QED
          BY <3>1, <3>2, <4>1, <5>5
      <4> QED
        BY <1>2, <3>1, <3>4, <4>2, <4>3
    <3> QED
      BY <3>3, <3>4
  <2> QED
    BY <2>2, <2>3
<1> QED
  BY <1>10, <1>11, <1>12, <1>13 DEF N

(* heap_delete at any place. *)
LEMMA Deleted ==
  ASSUME NEW T, T \subseteq Int, NEW h \in Seq(T), NEW found \in 1..Len(h)
  PROVE  /\ heap_delete(h, found) \in Seq(T) /\ Len(heap_delete(h, found)) = Len(h) - 1
         /\ Ordered(h) /\ OrderKept(h, found) => Ordered(heap_delete(h, found))
         /\ \A t \in Int : CountOf(h, t) = CountOf(heap_delete(h, found), t) + One(h[found], t)
<1>1. CASE found = 1
  <2>1. heap_delete(h, found) = heap_peek(h)
    BY <1>1, Zenon DEF heap_delete
  <2>2. 1 <= Len(h)
    OBVIOUS
  <2> QED
    BY <1>1, <2>1, <2>2, Peeked
<1>2. CASE found # 1 /\ found = Len(h)
  <2> DEFINE n == Len(h)
             g == SubSeq(h, 1, n - 1)
  <2>1. heap_delete(h, found) = g
    BY <1>2, Zenon DEF heap_delete
  <2>2. n \in Nat \ {0} /\ h \in [1..n -> T] /\ h \in [1..n -> Int] /\ found \in 1..n
    BY ArrayOf
  <2>3. Ordered(h) => \A j \in 2..n : h[j \div 2] <= h[j]
    BY DEF Ordered
  <2>4. found = n
    BY <1>2
  <2> HIDE DEF n
  <2>5. g \in Seq(T) /\ Len(g) = n - 1 /\ \A p \in 1..n - 1 : g[p] = h[p]
    BY <2>2, FrontOf
  <2>6. ASSUME NEW t \in Int PROVE CountOf(h, t) = CountOf(g, t) + One(h[found], t)
    BY <2>2, <2>4, CountFront
  <2> HIDE DEF g
  <2>7. ASSUME Ordered(h) PROVE Ordered(g)
    <3> SUFFICES ASSUME NEW j \in 2..n - 1 PROVE g[j \div 2] <= g[j]
      BY <2>5 DEF Ordered
    <3>1. j \div 2 \in 1..n - 1 /\ j \in 1..n - 1 /\ j \in 2..n
      BY <2>2, Parent
    <3> QED
      BY <2>3, <2>5, <2>7, <3>1
  <2> QED
    BY <2>1, <2>5, <2>6, <2>7 DEF n
<1>3. CASE found # 1 /\ found # Len(h)
  <2>1. found \in 2..Len(h) - 1
    BY <1>3
  <2> QED
    BY <1>3, <2>1, DeletedMiddle DEF OrderKept
<1> QED
  BY <1>1, <1>2, <1>3
-----------------------------------------------------------------------------

(* Whether t is among the timers. *)
LEMMA Present ==
  ASSUME NEW T, T \subseteq Int, NEW h \in Seq(T), NEW t \in Int
  PROVE  /\ CountOf(h, t) \in Nat
         /\ CountOf(h, t) > 0 <=> \E p \in 1..Len(h) : h[p] = t
<1> DEFINE A == {p \in 1..Len(h) : h[p] = t}
<1>1. Len(h) \in Nat /\ DOMAIN h = 1..Len(h)
  OBVIOUS
<1>2. IsFiniteSet(A)
  <2>1. IsFiniteSet(1..Len(h))
    BY <1>1, FS_Interval
  <2> QED
    BY <2>1, FS_Subset
<1>3. CountOf(h, t) = Cardinality(A)
  BY <1>1 DEF CountOf
<1>4. Cardinality(A) \in Nat /\ (Cardinality(A) = 0 <=> A = {})
  <2> HIDE DEF A
  <2> QED
    BY <1>2, FS_CardinalityType, FS_EmptySet
<1>5. A = {} <=> ~\E p \in 1..Len(h) : h[p] = t
  OBVIOUS
<1> HIDE DEF A
<1> QED
  BY <1>3, <1>4, <1>5

LEMMA TimesAreInts == Time \subseteq Int
BY TimesAssumption DEF Time

(* tasklet_add keeps the array and its counter typed. *)
LEMMA AddTyped ==
  ASSUME TaskletsTypeOK, NEW exe \in {"check", "other"}, tasklet_add(exe)
  PROVE  /\ tasklet_array' \in [Slot -> {"none", "check", "other", "argless"}]
         /\ n_tasklets' \in 0..CountSize - 1
         /\ hung' \in BOOLEAN
<1>1. CASE \E s \in Slot :
             /\ tasklet_array[s] = "none" /\ \A r \in 1..s - 1 : tasklet_array[r] # "none"
             /\ tasklet_array' = [tasklet_array EXCEPT ![s] = exe]
             /\ n_tasklets' = (n_tasklets + 1) % CountSize
             /\ UNCHANGED hung
  <2>1. n_tasklets' \in 0..CountSize - 1
    BY <1>1, TaskletsAssumption DEF TaskletsTypeOK
  <2>2. tasklet_array' \in [Slot -> {"none", "check", "other", "argless"}]
    BY <1>1 DEF TaskletsTypeOK
  <2> QED
    BY <1>1, <2>1, <2>2 DEF TaskletsTypeOK
<1>2. CASE hung' = TRUE /\ UNCHANGED <<tasklet_array, n_tasklets>>
  BY <1>2 DEF TaskletsTypeOK
<1> QED
  BY <1>1, <1>2 DEF tasklet_add

(* What the steps do to the heap of timers. *)
LEMMA HeapChanges ==
  ASSUME TaskletsTypeOK
  PROVE  /\ \A delay \in Counts : ktimer_add(delay) =>
              /\ top' \in Seq(Time) /\ Len(top') <= setting.timers
              /\ Ordered(top) => Ordered(top')
              /\ \A t \in Int : CountOf(top', t) = CountOf(top, t) + One(jiffies + delay, t)
         /\ \A place \in DOMAIN top : ktimer_del(place) =>
              /\ top' \in Seq(Time) /\ Len(top') <= setting.timers
              /\ Ordered(top) /\ OrderKept(top, place) => Ordered(top')
              /\ \A t \in Int : CountOf(top, t) = CountOf(top', t) + One(top[place], t)
         /\ RunFirst =>
              /\ top' \in Seq(Time) /\ Len(top') <= setting.timers
              /\ Ordered(top) => Ordered(top')
              /\ \A t \in Int : CountOf(top, t) = CountOf(top', t) + One(top[1], t)
<1>1. top \in Seq(Time) /\ Len(top) \in Nat /\ Len(top) <= setting.timers /\ DOMAIN top = 1..Len(top)
  BY DEF TaskletsTypeOK
<1>2. setting.timers \in Nat
  BY SettingsAssumption DEF TaskletsTypeOK
<1>3. ASSUME NEW delay \in Counts, ktimer_add(delay)
      PROVE  /\ top' \in Seq(Time) /\ Len(top') <= setting.timers
             /\ Ordered(top) => Ordered(top')
             /\ \A t \in Int : CountOf(top', t) = CountOf(top, t) + One(jiffies + delay, t)
  <2> DEFINE el == jiffies + delay
  <2>1. el \in Time /\ top' = heap_insert(top, el) /\ Len(top) < setting.timers
    BY <1>3 DEF ktimer_add
  <2> HIDE DEF el
  <2>2. /\ heap_insert(top, el) \in Seq(Time) /\ Len(heap_insert(top, el)) = Len(top) + 1
        /\ Ordered(top) => Ordered(heap_insert(top, el))
        /\ \A t \in Int : CountOf(heap_insert(top, el), t) = CountOf(top, t) + One(el, t)
    <3>1. top \in Seq(Time) /\ el \in Time /\ Time \subseteq Int
      BY <1>1, <2>1, TimesAreInts
    <3> QED
      BY <3>1, Inserted
  <2>3. Len(top') <= setting.timers
    BY <1>1, <1>2, <2>1, <2>2
  <2> QED
    BY <2>1, <2>2, <2>3 DEF el
<1>4. ASSUME NEW place \in DOMAIN top, ktimer_del(place)
      PROVE  /\ top' \in Seq(Time) /\ Len(top') <= setting.timers
             /\ Ordered(top) /\ OrderKept(top, place) => Ordered(top')
             /\ \A t \in Int : CountOf(top, t) = CountOf(top', t) + One(top[place], t)
  <2>1. place \in 1..Len(top) /\ top' = heap_delete(top, place)
    BY <1>1, <1>4 DEF ktimer_del
  <2>2. /\ heap_delete(top, place) \in Seq(Time) /\ Len(heap_delete(top, place)) = Len(top) - 1
        /\ Ordered(top) /\ OrderKept(top, place) => Ordered(heap_delete(top, place))
        /\ \A t \in Int : CountOf(top, t) = CountOf(heap_delete(top, place), t) + One(top[place], t)
    BY <1>1, <2>1, TimesAreInts, Deleted
  <2>3. Len(top') = Len(top) - 1
    BY <2>1, <2>2, Zenon
  <2>4. Len(top') <= setting.timers
    BY <1>1, <1>2, <2>3
  <2> QED
    BY <2>1, <2>2, <2>4, Zenon
<1>5. ASSUME RunFirst
      PROVE  /\ top' \in Seq(Time) /\ Len(top') <= setting.timers
             /\ Ordered(top) => Ordered(top')
             /\ \A t \in Int : CountOf(top, t) = CountOf(top', t) + One(top[1], t)
  <2>1. 1 <= Len(top) /\ top' = heap_peek(top)
    <3>1. top # <<>> /\ top' = heap_peek(top)
      BY <1>5, Zenon DEF RunFirst, ktimer_expired
    <3>2. Len(top) # 0
      <4>1. Len(top) \in Nat \ {0}
        <5>1. top \in Seq(Time) /\ top # <<>>
          BY <1>1, <3>1
        <5> QED
          BY <5>1, EmptySeq, Zenon
      <4> QED
        BY <4>1
    <3> QED
      BY <1>1, <3>1, <3>2
  <2>2. /\ heap_peek(top) \in Seq(Time) /\ Len(heap_peek(top)) = Len(top) - 1
        /\ Ordered(top) => Ordered(heap_peek(top))
        /\ \A t \in Int : CountOf(top, t) = CountOf(heap_peek(top), t) + One(top[1], t)
    BY <1>1, <2>1, TimesAreInts, Peeked
  <2>3. Len(top') <= setting.timers
    BY <1>1, <1>2, <2>1, <2>2
  <2> QED
    BY <2>1, <2>2, <2>3
<1> QED
  BY <1>3, <1>4, <1>5

(* The heap stays as it is. *)
LEMMA SameHeap ==
  ASSUME TaskletsTypeOK, UNCHANGED <<top, setting>>
  PROVE  /\ top' \in Seq(Time) /\ Len(top') <= setting'.timers
         /\ setting' \in Settings
         /\ Ordered(top) => Ordered(top')
BY DEF TaskletsTypeOK

LEMMA TypedStep ==
  ASSUME TaskletsTypeOK, TaskletsNext
  PROVE  TaskletsTypeOK'
<1>1. CASE check_tasklets
  <2>1. setting' = setting
    BY <1>1 DEF check_tasklets
  <2>2. CASE StartScan
    BY <2>1, <2>2, SameHeap DEF StartScan, TaskletsTypeOK, queue
  <2>3. ASSUME NEW s \in Slot, RunOther(s) PROVE TaskletsTypeOK'
    <3>1. CASE UNCHANGED <<queue, masked>>
      BY <2>1, <2>3, <3>1, SameHeap DEF RunOther, NextSlot, TaskletsTypeOK, queue
    <3>2. CASE tasklet_add("other") /\ masked' = FALSE
      BY <2>1, <2>3, <3>2, AddTyped, SameHeap DEF RunOther, NextSlot, TaskletsTypeOK
    <3> QED
      BY <2>3, <3>1, <3>2 DEF RunOther
  <2>4. ASSUME NEW s \in Slot, StartCheck(s) PROVE TaskletsTypeOK'
    BY <2>1, <2>4, SameHeap DEF StartCheck, NextSlot, TaskletsTypeOK, queue
  <2>5. CASE RunFirst
    <3>1. top' \in Seq(Time) /\ Len(top') <= setting.timers
      BY <2>5, HeapChanges
    <3>2. /\ UNCHANGED <<slot, count, masked, queue, jiffies, ktimer_check_pending>>
          /\ pc' \in {"checked", "check"}
      BY <2>5 DEF RunFirst
    <3> QED
      BY <2>1, <3>1, <3>2 DEF TaskletsTypeOK, queue
  <2>6. CASE EndCheck
    BY <2>1, <2>6, SameHeap DEF EndCheck, TaskletsTypeOK, queue
  <2>7. CASE LeaveCheck
    BY <2>1, <2>7, SameHeap DEF LeaveCheck, TaskletsTypeOK, queue
  <2>8. CASE ClearExe
    <3>1. [tasklet_array EXCEPT ![slot] = "none"] \in [Slot -> {"none", "check", "other", "argless"}]
      BY DEF TaskletsTypeOK
    <3> QED
      BY <2>1, <2>8, <3>1, SameHeap DEF ClearExe, TaskletsTypeOK
  <2>9. CASE ClearArg
    <3>1. tasklet_array' \in [Slot -> {"none", "check", "other", "argless"}]
      BY <2>9 DEF ClearArg, TaskletsTypeOK
    <3> QED
      BY <2>1, <2>9, <3>1, SameHeap DEF ClearArg, TaskletsTypeOK
  <2>10. CASE CountDown
    <3>1. n_tasklets' \in 0..CountSize - 1 /\ count' \in 0..CountSize - 1
      BY <2>10, TaskletsAssumption DEF CountDown, TaskletsTypeOK
    <3> QED
      BY <2>1, <2>10, <3>1, SameHeap DEF CountDown, TaskletsTypeOK
  <2>11. CASE EndScan
    BY <2>1, <2>11, SameHeap DEF EndScan, TaskletsTypeOK, queue
  <2> QED
    BY <1>1, <2>2, <2>3, <2>4, <2>5, <2>6, <2>7, <2>8, <2>9, <2>10, <2>11 DEF check_tasklets
<1>2. CASE AddOther
  BY <1>2, AddTyped, SameHeap DEF AddOther, TaskletsTypeOK, kernel
<1>3. CASE sys_tick_handler
  <2>1. UNCHANGED <<top, kernel, setting>>
    BY <1>3 DEF sys_tick_handler
  <2>2. jiffies' \in Time
    <3>1. jiffies \in Nat /\ jiffies <= MaxTime /\ MaxTime \in Nat
      BY TimesAssumption DEF TaskletsTypeOK, Time
    <3>2. jiffies' = IF jiffies < MaxTime THEN jiffies + 1 ELSE jiffies
      BY <1>3 DEF sys_tick_handler
    <3> QED
      BY <3>1, <3>2 DEF Time
  <2>3. CASE UNCHANGED <<queue, ktimer_check_pending>>
    BY <2>1, <2>2, <2>3, SameHeap DEF TaskletsTypeOK, kernel, queue
  <2>4. CASE ktimer_check_pending' = TRUE /\ tasklet_add("check")
    BY <2>1, <2>2, <2>4, AddTyped, SameHeap DEF TaskletsTypeOK, kernel
  <2> QED
    BY <1>3, <2>3, <2>4 DEF sys_tick_handler
<1>4. ASSUME NEW delay \in Counts, ktimer_add(delay) PROVE TaskletsTypeOK'
  <2>1. top' \in Seq(Time) /\ Len(top') <= setting.timers
    BY <1>4, HeapChanges
  <2> QED
    BY <1>4, <2>1 DEF ktimer_add, TaskletsTypeOK, kernel, queue
<1>5. ASSUME NEW place \in DOMAIN top, ktimer_del(place) PROVE TaskletsTypeOK'
  <2>1. top' \in Seq(Time) /\ Len(top') <= setting.timers
    BY <1>5, HeapChanges
  <2> QED
    BY <1>5, <2>1 DEF ktimer_del, TaskletsTypeOK, kernel, queue
<1> QED
  BY <1>1, <1>2, <1>3, <1>4, <1>5 DEF TaskletsNext

LEMMA TypedInit == TaskletsInit => TaskletsTypeOK
<1> SUFFICES ASSUME TaskletsInit PROVE TaskletsTypeOK
  OBVIOUS
<1>1. jiffies \in Time
  BY TimesAssumption DEF TaskletsInit, Time
<1>2. top \in Seq(Time) /\ Len(top) = 0
  <2>1. top = <<>>
    BY DEF TaskletsInit
  <2> QED
    BY <2>1, EmptySeq
<1>3. setting \in Settings /\ setting.timers \in Nat
  BY SettingsAssumption DEF TaskletsInit
<1>4. n_tasklets \in 0..CountSize - 1 /\ count \in 0..CountSize - 1
  BY TaskletsAssumption DEF TaskletsInit
<1>5. Len(top) <= setting.timers
  BY <1>2, <1>3
<1>6. tasklet_array \in [Slot -> {"none", "check", "other", "argless"}]
  BY DEF TaskletsInit
<1> QED
  BY <1>1, <1>2, <1>3, <1>4, <1>5, <1>6 DEF TaskletsInit, TaskletsTypeOK

(* The types, for every setting and every number of timers. *)
THEOREM TaskletsTypeCorrect == TaskletsSpec => []TaskletsTypeOK
<1>1. TaskletsTypeOK /\ UNCHANGED taskletsvars => TaskletsTypeOK'
  BY DEF TaskletsTypeOK, taskletsvars, queue, kernel
<1> QED
  BY <1>1, TypedInit, TypedStep, PTL DEF TaskletsSpec
-----------------------------------------------------------------------------
(* The abstract queue's count, before and after a step. *)
LEMMA CountNow ==
  /\ Count = [t \in Time |-> CountOf(top, t)]
  /\ Count' = [t \in Time |-> CountOf(top', t)]
BY DEF Count, CountOf

Checking == pc = "check"

(* A step that changes neither the clock nor the heap, nor whether the     *)
(* expired timers are being run. *)
LEMMA Stutters ==
  ASSUME UNCHANGED <<jiffies, top>>, Checking' = Checking
  PROVE  UNCHANGED <<jiffies, Count, pc = "check">>
<1>1. Count' = Count
  BY CountNow
<1> QED
  BY <1>1 DEF Checking

LEMMA AddSimulated ==
  ASSUME TaskletsTypeOK, NEW delay \in Counts, ktimer_add(delay)
  PROVE  Queue!Add(delay)
<1>1. jiffies + delay \in Time /\ jiffies' = jiffies /\ pc' = pc
  BY DEF ktimer_add, kernel
<1>2. ASSUME NEW t \in Time PROVE CountOf(top', t) = CountOf(top, t) + One(jiffies + delay, t)
  BY HeapChanges, TimesAreInts
<1>3. ASSUME NEW t \in Time PROVE CountOf(top, t) \in Nat
  BY Present, TimesAreInts DEF TaskletsTypeOK
<1> DEFINE x == jiffies + delay
<1>4. x \in Time
  BY <1>1
<1>5. Count' = [Count EXCEPT ![x] = @ + 1]
  <2> HIDE DEF x
  <2>1. ASSUME NEW t \in Time
        PROVE  CountOf(top', t) = [Count EXCEPT ![x] = @ + 1][t]
    <3>1. CASE t = x
      <4>1. CountOf(top', t) = CountOf(top, t) + 1
        BY <1>2, <3>1 DEF One, x
      <4> QED
        BY <1>4, <3>1, <4>1, CountNow
    <3>2. CASE t # x
      <4>1. CountOf(top', t) = CountOf(top, t)
        BY <1>2, <1>3, <3>2 DEF One, x
      <4> QED
        BY <1>4, <3>2, <4>1, CountNow
    <3> QED
      BY <3>1, <3>2
  <2> QED
    BY <2>1, CountNow
<1> QED
  BY <1>1, <1>5 DEF Queue!Add, Queue!Time, Time

(* One timer fewer. *)
LEMMA OneFewer ==
  ASSUME TaskletsTypeOK, NEW p \in 1..Len(top),
         \A t \in Int : CountOf(top, t) = CountOf(top', t) + One(top[p], t),
         top' \in Seq(Time)
  PROVE  /\ top[p] \in Time /\ Count[top[p]] > 0
         /\ Count' = [Count EXCEPT ![top[p]] = @ - 1]
<1> DEFINE x == top[p]
<1>1. x \in Time /\ x \in Int
  <2>1. top \in Seq(Time)
    BY DEF TaskletsTypeOK
  <2>2. x \in Time
    BY <2>1
  <2> QED
    BY <2>2, TimesAreInts
<1>2. ASSUME NEW t \in Time
      PROVE  CountOf(top, t) \in Nat /\ CountOf(top', t) \in Nat
             /\ CountOf(top, t) = CountOf(top', t) + One(x, t)
  BY Present, TimesAreInts DEF TaskletsTypeOK
<1> HIDE DEF x
<1>3. CountOf(top, x) > 0
  BY <1>1, <1>2 DEF One
<1>4. Count' = [Count EXCEPT ![x] = @ - 1]
  <2>1. ASSUME NEW t \in Time
        PROVE  CountOf(top', t) = [Count EXCEPT ![x] = @ - 1][t]
    <3>1. CASE t = x
      <4>1. CountOf(top', t) = CountOf(top, t) - 1
        BY <1>2, <3>1 DEF One
      <4> QED
        BY <1>1, <3>1, <4>1, CountNow
    <3>2. CASE t # x
      <4>1. CountOf(top', t) = CountOf(top, t)
        BY <1>2, <3>2 DEF One
      <4> QED
        BY <1>1, <3>2, <4>1, CountNow
    <3> QED
      BY <3>1, <3>2
  <2> QED
    BY <2>1, CountNow
<1> QED
  BY <1>1, <1>3, <1>4, CountNow DEF x

LEMMA DelSimulated ==
  ASSUME TaskletsTypeOK, NEW place \in DOMAIN top, ktimer_del(place)
  PROVE  \E t \in Time : Queue!Del(t)
<1>1. place \in 1..Len(top) /\ pc # "check" /\ jiffies' = jiffies /\ pc' = pc
  BY DEF ktimer_del, kernel, TaskletsTypeOK
<1>2. /\ top' \in Seq(Time)
      /\ \A t \in Int : CountOf(top, t) = CountOf(top', t) + One(top[place], t)
  BY HeapChanges
<1>3. /\ top[place] \in Time /\ Count[top[place]] > 0
      /\ Count' = [Count EXCEPT ![top[place]] = @ - 1]
  BY <1>1, <1>2, OneFewer
<1>4. Queue!Del(top[place])
  BY <1>1, <1>3 DEF Queue!Del
<1> QED
  BY <1>3, <1>4

(* What has expired is in the heap, behind its first place. *)
LEMMA ExpiredIn ==
  ASSUME TaskletsTypeOK, Ordered(top), NEW t \in Queue!Expired
  PROVE  /\ t \in Time /\ t < jiffies /\ top # <<>> /\ 1 \in 1..Len(top)
         /\ top[1] \in Int /\ top[1] <= t
<1>1. t \in Time /\ Count[t] > 0 /\ t < jiffies
  BY DEF Queue!Expired, Queue!Time, Time
<1>2. CountOf(top, t) > 0 /\ t \in Int
  BY <1>1, CountNow, TimesAreInts
<1>3. top \in Seq(Time)
  BY DEF TaskletsTypeOK
<1>4. PICK p \in 1..Len(top) : top[p] = t
  BY <1>2, <1>3, TimesAreInts, Present
<1>5. top[1] <= top[p]
  BY <1>3, TimesAreInts, RootLeast
<1>6. Len(top) \in Nat /\ 1 \in 1..Len(top) /\ top # <<>>
  BY <1>3, <1>4
<1>7. top[1] \in Int
  <2>1. top[1] \in Time
    BY <1>3, <1>6
  <2> QED
    BY <2>1, TimesAreInts
<1> QED
  BY <1>1, <1>4, <1>5, <1>6, <1>7

LEMMA RunSimulated ==
  ASSUME TaskletsTypeOK, Ordered(top), RunFirst
  PROVE  \E t \in Time : Queue!Run(t)
<1> DEFINE x == top[1]
<1>1. /\ pc = "check" /\ top # <<>> /\ x < jiffies /\ jiffies' = jiffies
      /\ pc' = IF top' = <<>> THEN "checked" ELSE "check"
  BY DEF RunFirst, ktimer_expired, heap_first
<1>2. top \in Seq(Time) /\ 1 \in 1..Len(top)
  BY <1>1 DEF TaskletsTypeOK
<1>3. /\ top' \in Seq(Time)
      /\ \A t \in Int : CountOf(top, t) = CountOf(top', t) + One(top[1], t)
  BY HeapChanges
<1>4. /\ x \in Time /\ Count[x] > 0
      /\ Count' = [Count EXCEPT ![x] = @ - 1]
  BY <1>2, <1>3, OneFewer
<1> HIDE DEF x
<1>5. x \in Queue!Expired
  BY <1>1, <1>4 DEF Queue!Expired, Queue!Time, Time
<1>6. \A u \in Queue!Expired : x <= u
  BY ExpiredIn DEF x
<1>7. (pc = "check")' = \E u \in Time : Count'[u] > 0
  <2>1. CASE top' = <<>>
    <3>1. ASSUME NEW u \in Time PROVE ~(Count'[u] > 0)
      <4>1. Count'[u] = CountOf(top', u) /\ u \in Int
        BY CountNow, TimesAreInts
      <4>2. Len(top') = 0
        BY <2>1
      <4>3. CountOf(top', u) > 0 <=> \E p \in 1..Len(top') : top'[p] = u
        BY <1>3, <4>1, TimesAreInts, Present
      <4> QED
        BY <4>1, <4>2, <4>3
    <3>2. ~(pc = "check")'
      BY <1>1, <2>1
    <3> QED
      BY <3>1, <3>2
  <2>2. CASE top' # <<>>
    <3>1. 1 \in 1..Len(top') /\ top'[1] \in Time
      BY <1>3, <2>2
    <3> DEFINE u == top'[1]
    <3>2. CountOf(top', u) > 0
      <4>1. u \in Int
        BY <3>1, TimesAreInts
      <4>2. CountOf(top', u) > 0 <=> \E p \in 1..Len(top') : top'[p] = u
        BY <1>3, <4>1, TimesAreInts, Present
      <4> QED
        BY <3>1, <4>2
    <3>3. Count'[u] > 0
      BY <3>1, <3>2, CountNow
    <3>4. (pc = "check")'
      BY <1>1, <2>2
    <3> QED
      BY <3>1, <3>3, <3>4
  <2> QED
    BY <2>1, <2>2
<1>8. Queue!Run(x)
  BY <1>1, <1>4, <1>5, <1>6, <1>7 DEF Queue!Run, Queue!Time, Time
<1> QED
  BY <1>4, <1>8

LEMMA EndSimulated ==
  ASSUME TaskletsTypeOK, Ordered(top), EndCheck
  PROVE  Queue!EndCheck
<1>1. /\ pc = "check" /\ ~ktimer_expired /\ pc' = "checked"
      /\ UNCHANGED <<jiffies, top>>
  BY DEF EndCheck
<1>2. Queue!Expired = {}
  <2> SUFFICES ASSUME NEW t \in Queue!Expired PROVE FALSE
    OBVIOUS
  <2>1. /\ t \in Time /\ t < jiffies /\ top # <<>> /\ top[1] \in Int /\ top[1] <= t
    BY ExpiredIn
  <2>2. ~(top[1] < jiffies)
    BY <1>1, <2>1 DEF ktimer_expired, heap_first
  <2>3. t \in Int /\ jiffies \in Int
    BY <2>1, TimesAreInts DEF TaskletsTypeOK
  <2> QED
    BY <2>1, <2>2, <2>3
<1>3. Count' = Count
  BY <1>1, CountNow
<1> QED
  BY <1>1, <1>2, <1>3 DEF Queue!EndCheck

(* Deletions from the middle of the heap only while it has at most five    *)
(* timers; all other calls at any size.                                    *)
DeletesWhileSmall == \A place \in DOMAIN top : ktimer_del(place) => OrderKept(top, place)

QueueInv == TaskletsTypeOK /\ Ordered(top)

LEMMA QueueInvInit == TaskletsInit => QueueInv /\ Queue!Init
<1> SUFFICES ASSUME TaskletsInit PROVE QueueInv /\ Queue!Init
  OBVIOUS
<1>1. TaskletsTypeOK
  BY TypedInit
<1>2. top = <<>> /\ Len(top) = 0 /\ top \in Seq(Time) /\ jiffies = 0 /\ pc = "idle"
  BY EmptySeq DEF TaskletsInit
<1>3. Ordered(top)
  BY <1>2 DEF Ordered
<1>4. ASSUME NEW t \in Time PROVE Count[t] = 0
  <2>1. t \in Int
    BY TimesAreInts
  <2>2. CountOf(top, t) \in Nat /\ (CountOf(top, t) > 0 <=> \E p \in 1..Len(top) : top[p] = t)
    BY <1>2, <2>1, TimesAreInts, Present
  <2>3. CountOf(top, t) = 0
    BY <1>2, <2>2
  <2> QED
    BY <2>3, CountNow
<1>5. Count = [t \in Time |-> 0]
  BY <1>4 DEF Count
<1>6. Queue!Init
  BY <1>2, <1>5 DEF Queue!Init, Queue!Time, Time
<1> QED
  BY <1>1, <1>3, <1>6 DEF QueueInv

(* Every step that deletes so keeps the order. *)
LEMMA OrderedStep ==
  ASSUME QueueInv, TaskletsNext, DeletesWhileSmall
  PROVE  QueueInv'
<1>1. TaskletsTypeOK /\ Ordered(top)
  BY DEF QueueInv
<1>2. TaskletsTypeOK'
  BY <1>1, TypedStep
<1>3. CASE top' = top
  BY <1>1, <1>2, <1>3 DEF QueueInv
<1>4. CASE RunFirst
  BY <1>1, <1>2, <1>4, HeapChanges DEF QueueInv
<1>5. ASSUME NEW delay \in Counts, ktimer_add(delay) PROVE QueueInv'
  BY <1>1, <1>2, <1>5, HeapChanges DEF QueueInv
<1>6. ASSUME NEW place \in DOMAIN top, ktimer_del(place) PROVE QueueInv'
  <2>1. OrderKept(top, place)
    BY <1>6 DEF DeletesWhileSmall
  <2> QED
    BY <1>1, <1>2, <1>6, <2>1, HeapChanges DEF QueueInv
<1>7. \/ top' = top \/ RunFirst
      \/ \E delay \in Counts : ktimer_add(delay)
      \/ \E place \in DOMAIN top : ktimer_del(place)
  BY DEF TaskletsNext, check_tasklets, StartScan, RunOther, StartCheck, EndCheck, LeaveCheck,
         ClearExe, ClearArg, CountDown, EndScan, AddOther, sys_tick_handler
<1> QED
  BY <1>3, <1>4, <1>5, <1>6, <1>7

(* The clock: it goes on, or stands still. *)
LEMMA TickSimulated ==
  ASSUME TaskletsTypeOK, sys_tick_handler
  PROVE  Queue!Tick \/ UNCHANGED <<jiffies, Count, pc = "check">>
<1>1. /\ jiffies' = IF jiffies < MaxTime THEN jiffies + 1 ELSE jiffies
      /\ top' = top /\ pc' = pc
  BY DEF sys_tick_handler, kernel
<1>2. Count' = Count
  BY <1>1, CountNow
<1> QED
  BY <1>1, <1>2 DEF Queue!Tick

LEMMA Simulated ==
  ASSUME QueueInv, TaskletsNext
  PROVE  Queue!Next \/ UNCHANGED <<jiffies, Count, pc = "check">>
<1>1. TaskletsTypeOK /\ Ordered(top)
  BY DEF QueueInv
<1>2. CASE sys_tick_handler
  BY <1>1, <1>2, TickSimulated DEF Queue!Next
<1>3. CASE AddOther
  <2>1. UNCHANGED <<jiffies, top, pc>>
    BY <1>3 DEF AddOther, kernel
  <2> QED
    BY <2>1, Stutters DEF Checking
<1>4. ASSUME NEW delay \in Counts, ktimer_add(delay) PROVE Queue!Next
  BY <1>1, <1>4, AddSimulated DEF Queue!Next
<1>5. ASSUME NEW place \in DOMAIN top, ktimer_del(place) PROVE Queue!Next
  BY <1>1, <1>5, DelSimulated DEF Queue!Next, Queue!Time, Time
<1>6. CASE check_tasklets
  <2>1. CASE RunFirst
    BY <1>1, <2>1, RunSimulated DEF Queue!Next, Queue!Time, Time
  <2>2. CASE EndCheck
    BY <1>1, <2>2, EndSimulated DEF Queue!Next
  <2>3. ASSUME NEW s \in Slot, StartCheck(s)
        PROVE  Queue!Next \/ UNCHANGED <<jiffies, Count, pc = "check">>
    <3>1. UNCHANGED <<jiffies, top>> /\ pc = "scan"
      BY <2>3 DEF StartCheck, NextSlot
    <3>2. CASE top = <<>>
      <4>1. pc' = "checked"
        BY <2>3, <3>2 DEF StartCheck
      <4> QED
        BY <3>1, <4>1, Stutters DEF Checking
    <3>3. CASE top # <<>>
      <4>1. pc' = "check"
        BY <2>3, <3>3 DEF StartCheck
      <4>2. Count' = Count
        BY <3>1, CountNow
      <4> QED
        BY <3>1, <4>1, <4>2 DEF Queue!Next, Queue!StartCheck
    <3> QED
      BY <3>2, <3>3
  <2>4. CASE \/ StartScan \/ (\E s \in Slot : RunOther(s)) \/ LeaveCheck
             \/ ClearExe \/ ClearArg \/ CountDown \/ EndScan
    <3>1. UNCHANGED <<jiffies, top>> /\ pc # "check" /\ pc' # "check"
      BY <2>4 DEF StartScan, RunOther, NextSlot, LeaveCheck, ClearExe, ClearArg, CountDown, EndScan
    <3> QED
      BY <3>1, Stutters DEF Checking
  <2> QED
    BY <1>6, <2>1, <2>2, <2>3, <2>4 DEF check_tasklets
<1> QED
  BY <1>2, <1>3, <1>4, <1>5, <1>6 DEF TaskletsNext

(* The heap implements the queue of timers. *)
THEOREM TimerQueueImplemented ==
  TaskletsSpec /\ [][DeletesWhileSmall]_taskletsvars => ImplementsTimerQueue
<1>1. TaskletsInit => QueueInv /\ Queue!Init
  BY QueueInvInit
<1>2. QueueInv /\ [TaskletsNext]_taskletsvars /\ [DeletesWhileSmall]_taskletsvars => QueueInv'
  <2>1. CASE UNCHANGED taskletsvars
    BY <2>1 DEF QueueInv, TaskletsTypeOK, taskletsvars, queue, kernel
  <2> QED
    BY <2>1, OrderedStep
<1>3. QueueInv /\ [TaskletsNext]_taskletsvars => [Queue!Next]_<<jiffies, Count, pc = "check">>
  <2>1. CASE UNCHANGED taskletsvars
    <3>1. UNCHANGED <<jiffies, top, pc>>
      BY <2>1 DEF taskletsvars, kernel
    <3> QED
      BY <3>1, Stutters DEF Checking
  <2> QED
    BY <2>1, Simulated
<1> QED
  BY <1>1, <1>2, <1>3, PTL DEF TaskletsSpec, ImplementsTimerQueue, Queue!Spec

(* Wherever at most five timers are set at once. *)
THEOREM SmallQueueImplemented ==
  ASSUME \A s \in Settings : s.timers <= 5
  PROVE  TaskletsSpec => ImplementsTimerQueue
<1>1. TaskletsTypeOK /\ [TaskletsNext]_taskletsvars => [DeletesWhileSmall]_taskletsvars
  <2> SUFFICES ASSUME TaskletsTypeOK PROVE DeletesWhileSmall
    OBVIOUS
  <2>1. top \in Seq(Time) /\ Len(top) <= setting.timers /\ setting.timers \in Nat /\ setting.timers <= 5
    BY SettingsAssumption DEF TaskletsTypeOK
  <2>2. Len(top) <= 5
    BY <2>1
  <2> QED
    BY <2>2 DEF DeletesWhileSmall, OrderKept
<1> QED
  BY <1>1, TaskletsTypeCorrect, TimerQueueImplemented, PTL DEF TaskletsSpec
-----------------------------------------------------------------------------

(* A heap whose list is sound, in parts.                                   *)
Shape(h) ==
  /\ h = [block |-> h.block, end |-> h.end, charged |-> FALSE]
  /\ DOMAIN h.block \subseteq Addresses
  /\ h.block \in [DOMAIN h.block -> Headers]
  /\ h.end \in Addresses

Starts(h) == IF 0 \in DOMAIN h.block THEN TRUE ELSE DOMAIN h.block = {} /\ h.end = 0

After(h, b) == b + Header + h.block[b].size

Nexts(h) ==
  \A b \in DOMAIN h.block :
    IF h.block[b].next = NULL THEN After(h, b) = h.end
    ELSE /\ h.block[b].next = After(h, b)
         /\ h.block[b].next \in DOMAIN h.block
         /\ h.block[h.block[b].next].prev = b

Prevs(h) ==
  \A b \in DOMAIN h.block :
    IF b = 0 THEN h.block[b].prev = NULL
    ELSE /\ h.block[b].prev \in DOMAIN h.block
         /\ h.block[h.block[b].prev].next = b

Apart(h) == \A b, c \in DOMAIN h.block : b < c => After(h, b) <= c

Below(h) == \A b \in DOMAIN h.block : After(h, b) <= h.end

Good(h) == Shape(h) /\ Starts(h) /\ Nexts(h) /\ Prevs(h) /\ Apart(h) /\ Below(h)

(* Block x of heap h is the same memory of the same owner in heap g.       *)
Kept(h, g, x) ==
  /\ x \in DOMAIN g.block
  /\ g.block[x].used = h.block[x].used
  /\ g.block[x].pid = h.block[x].pid
  /\ g.block[x].size = h.block[x].size

KeptBut(h, g, b) ==
  \A x \in DOMAIN h.block : h.block[x].used /\ x # b => Kept(h, g, x)

USE HeaderAssumption, PoolEndAssumption
-----------------------------------------------------------------------------
(* Replacing the blocks of a heap. *)
WithBlocks(h, F) == [h EXCEPT !.block = F]

LEMMA BlocksReplaced ==
  ASSUME NEW h, Good(h), NEW F, NEW g, g = WithBlocks(h, F)
  PROVE  /\ g.block = F
         /\ g.end = h.end
         /\ g = [block |-> g.block, end |-> g.end, charged |-> FALSE]
<1>1. PICK B, e : h = [block |-> B, end |-> e, charged |-> FALSE]
  BY DEF Good, Shape
<1>2. g = [block |-> F, end |-> e, charged |-> FALSE]
  BY <1>1 DEF WithBlocks
<1>3. g.block = F /\ g.end = e
  BY <1>2
<1>4. h.end = e
  BY <1>1
<1> QED
  BY <1>2, <1>3, <1>4

(* What a sound list says of a block: where it is, where it ends and, if   *)
(* it is not the last, the block that follows.                             *)
LEMMA BlockIs ==
  ASSUME NEW h, Good(h), NEW b \in DOMAIN h.block
  PROVE  /\ b \in Addresses /\ b \in Nat /\ b # NULL /\ h.block[b] \in Headers
         /\ h.block[b].size \in Nat
         /\ h.block[b].next \in Addresses \cup {NULL}
         /\ h.block[b].prev \in Addresses \cup {NULL}
         /\ After(h, b) \in Nat /\ b < After(h, b)
<1>1. b \in Addresses /\ h.block[b] \in Headers
  BY DEF Good, Shape
<1>2. b \in Nat /\ b # NULL
  BY <1>1 DEF Addresses, NULL
<1>3. /\ h.block[b].size \in Nat
      /\ h.block[b].next \in Addresses \cup {NULL}
      /\ h.block[b].prev \in Addresses \cup {NULL}
  BY <1>1 DEF Headers
<1> QED
  BY <1>1, <1>2, <1>3 DEF After

LEMMA FollowedBy ==
  ASSUME NEW h, Good(h), NEW b \in DOMAIN h.block
  PROVE  /\ h.block[b].next = NULL => After(h, b) = h.end
         /\ h.block[b].next # NULL =>
              /\ h.block[b].next = After(h, b)
              /\ h.block[b].next \in DOMAIN h.block
              /\ h.block[h.block[b].next].prev = b
BY DEF Good, Nexts

(* A header with another size and successor, and one with another          *)
(* predecessor.                                                            *)
Resized(a, size, next) == [a EXCEPT !.size = size, !.next = next]
Rejoined(a, prev) == [a EXCEPT !.prev = prev]

LEMMA ResizedIs ==
  ASSUME NEW a \in Headers, NEW size \in Nat, NEW next \in Addresses \cup {NULL}
  PROVE  /\ Resized(a, size, next) \in Headers
         /\ Resized(a, size, next).size = size
         /\ Resized(a, size, next).next = next
         /\ Resized(a, size, next).prev = a.prev
BY DEF Headers, Resized

LEMMA RejoinedIs ==
  ASSUME NEW a \in Headers, NEW prev \in Addresses \cup {NULL}
  PROVE  /\ Rejoined(a, prev) \in Headers
         /\ Rejoined(a, prev).prev = prev
         /\ Rejoined(a, prev).size = a.size
         /\ Rejoined(a, prev).next = a.next
         /\ Rejoined(a, prev).used = a.used
         /\ Rejoined(a, prev).pid = a.pid
BY DEF Headers, Rejoined

(* The fields of a header that Kept does not name. *)
Links(a, prev, next) == a.prev = prev /\ a.next = next

(* Heap g is h with block n merged into its neighbour b. *)
Merged(h, b, n, g) ==
  /\ Shape(g) /\ g.end = h.end
  /\ n \in DOMAIN h.block /\ n # b
  /\ DOMAIN g.block = DOMAIN h.block \ {n}
  /\ g.block[b].size = h.block[b].size + Header + h.block[n].size
  /\ Links(g.block[b], h.block[b].prev, h.block[n].next)
  /\ \A c \in DOMAIN g.block \ {b} :
       /\ Kept(h, g, c)
       /\ Links(g.block[c], IF c = h.block[n].next THEN b ELSE h.block[c].prev, h.block[c].next)

LEMMA MergeIs ==
  ASSUME NEW h, Good(h), NEW b \in DOMAIN h.block, h.block[b].next # NULL,
         NEW n, n = h.block[b].next, NEW g, g = merge_blocks(h, b, n)
  PROVE  Merged(h, b, n, g)
<1>1. n \in DOMAIN h.block /\ n = After(h, b) /\ n # b
  BY BlockIs, FollowedBy
<1> DEFINE F == [c \in DOMAIN h.block \ {n} |->
             CASE c = b -> [h.block[c] EXCEPT !.size = @ + Header + h.block[n].size, !.next = h.block[n].next]
               [] c = h.block[n].next -> [h.block[c] EXCEPT !.prev = b]
               [] OTHER -> h.block[c]]
<1>2. g = WithBlocks(h, F)
  BY Zenon DEF merge_blocks, WithBlocks
<1> HIDE DEF F
<1>3. /\ g.block = F
      /\ g.end = h.end
      /\ g = [block |-> g.block, end |-> g.end, charged |-> FALSE]
  BY <1>2, BlocksReplaced
<1>4. DOMAIN g.block = DOMAIN h.block \ {n}
  BY <1>3, Zenon DEF F
<1>5. \A c \in DOMAIN h.block : h.block[c] \in Headers
  BY DEF Good, Shape
<1>6. /\ g.block[b] \in Headers
      /\ g.block[b].size = h.block[b].size + Header + h.block[n].size
      /\ Links(g.block[b], h.block[b].prev, h.block[n].next)
  <2>1. g.block[b] = [h.block[b] EXCEPT !.size = @ + Header + h.block[n].size, !.next = h.block[n].next]
    <3>1. b \in DOMAIN h.block \ {n}
      BY <1>1
    <3>2. b # h.block[n].next
      <4>1. /\ b < n /\ n < After(h, n) /\ b # NULL
            /\ b \in Nat /\ n \in Nat /\ After(h, n) \in Nat
        BY <1>1, BlockIs
      <4>2. h.block[n].next = NULL \/ h.block[n].next = After(h, n)
        BY <1>1, FollowedBy
      <4> QED
        BY <4>1, <4>2
    <3> QED
      BY <3>1, <3>2, <1>3, Zenon DEF F
  <2>2. /\ h.block[b] \in Headers /\ h.block[n].next \in Addresses \cup {NULL}
        /\ h.block[b].size \in Nat /\ h.block[n].size \in Nat
    BY <1>1, BlockIs
  <2>3. h.block[b].size + Header + h.block[n].size \in Nat
    BY <2>2
  <2>4. g.block[b] = Resized(h.block[b], h.block[b].size + Header + h.block[n].size, h.block[n].next)
    BY <2>1, Zenon DEF Resized
  <2> DEFINE old == h.block[b]
             size == h.block[b].size + Header + h.block[n].size
             next == h.block[n].next
  <2>5. old \in Headers /\ size \in Nat /\ next \in Addresses \cup {NULL}
    BY <2>2, <2>3, Zenon
  <2>6. g.block[b] = Resized(old, size, next)
    BY <2>4, Zenon
  <2> HIDE DEF old, size, next
  <2>7. g.block[b] \in Headers /\ g.block[b].size = size /\ Links(g.block[b], old.prev, next)
    BY <2>5, <2>6, ResizedIs DEF Links
  <2> QED
    BY <2>7, Zenon DEF old, size, next
<1>7. ASSUME NEW c \in DOMAIN g.block \ {b}
      PROVE  /\ g.block[c] \in Headers
             /\ Kept(h, g, c)
             /\ Links(g.block[c], IF c = h.block[n].next THEN b ELSE h.block[c].prev, h.block[c].next)
  <2>1. g.block[c] = IF c = h.block[n].next THEN [h.block[c] EXCEPT !.prev = b] ELSE h.block[c]
    BY <1>3, <1>4, Zenon DEF F
  <2>2. h.block[c] \in Headers /\ b \in Addresses
    BY <1>4, <1>5, BlockIs
  <2>3. CASE c = h.block[n].next
    <3>1. g.block[c] = Rejoined(h.block[c], b)
      BY <2>1, <2>3, Zenon DEF Rejoined
    <3>2. g.block[c] \in Headers /\ Links(g.block[c], b, h.block[c].next)
      BY <2>2, <3>1, RejoinedIs DEF Links
    <3>3. Kept(h, g, c)
      BY <2>2, <3>1, RejoinedIs DEF Kept
    <3> QED
      BY <2>3, <3>2, <3>3, Zenon
  <2>4. CASE c # h.block[n].next
    BY <2>1, <2>2, <2>4 DEF Links, Kept
  <2> QED
    BY <2>3, <2>4, Zenon
<1>8. g.block \in [DOMAIN g.block -> Headers]
  <2>1. \A c \in DOMAIN g.block : g.block[c] \in Headers
    BY <1>6, <1>7, Zenon
  <2>2. g.block = [c \in DOMAIN g.block |-> g.block[c]]
    BY <1>3, Zenon DEF F
  <2> QED
    BY <2>1, <2>2, Zenon
<1>9. Shape(g)
  BY <1>3, <1>4, <1>8 DEF Shape, Good
<1> QED
  BY <1>1, <1>3, <1>4, <1>6, <1>7, <1>9, Zenon DEF Merged

LEMMA MergeGood ==
  ASSUME NEW h, Good(h), NEW b \in DOMAIN h.block, h.block[b].next # NULL,
         NEW g, g = merge_blocks(h, b, h.block[b].next)
  PROVE  Good(g) /\ \A x \in DOMAIN h.block \ {b, h.block[b].next} : Kept(h, g, x)
<1> DEFINE n == h.block[b].next
           m == h.block[n].next
<1>0. n = h.block[b].next /\ n # NULL /\ m = h.block[n].next /\ g = merge_blocks(h, b, n)
  OBVIOUS
<1> HIDE DEF n, m
<1>1. /\ Shape(g) /\ g.end = h.end
      /\ n \in DOMAIN h.block /\ n # b
      /\ DOMAIN g.block = DOMAIN h.block \ {n}
      /\ g.block[b].size = h.block[b].size + Header + h.block[n].size
      /\ Links(g.block[b], h.block[b].prev, m)
      /\ \A c \in DOMAIN g.block \ {b} :
           /\ Kept(h, g, c)
           /\ Links(g.block[c], IF c = m THEN b ELSE h.block[c].prev, h.block[c].next)
  <2>1. Merged(h, b, n, g)
    BY <1>0, MergeIs, Zenon
  <2> QED
    BY <1>0, <2>1, Zenon DEF Merged
<1>2. /\ n = After(h, b) /\ h.block[n].prev = b
      /\ \A c \in DOMAIN h.block : h.block[c] \in Headers /\ c \in Addresses /\ c \in Nat /\ c # NULL
      /\ h.end \in Nat
  <2>1. n = After(h, b) /\ h.block[n].prev = b
    BY FollowedBy DEF n
  <2>2. h.end \in Nat
    BY DEF Good, Shape, Addresses
  <2> QED
    BY <2>1, <2>2, BlockIs
<1>3. /\ After(g, b) = After(h, n)
      /\ g.block[b].next = m /\ g.block[b].prev = h.block[b].prev
  <2>1. b \in Nat /\ h.block[b].size \in Nat /\ h.block[n].size \in Nat
    BY <1>1, BlockIs, Zenon
  <2>2. n = b + Header + h.block[b].size
    BY <1>2 DEF After
  <2>3. b + Header + (h.block[b].size + Header + h.block[n].size) = n + Header + h.block[n].size
    BY <2>1, <2>2
  <2>4. After(g, b) = After(h, n)
    BY <1>1, <2>3, Zenon DEF After
  <2> QED
    BY <1>1, <2>4, Zenon DEF Links
<1>4. \A c \in DOMAIN g.block : c # b =>
        /\ After(g, c) = After(h, c)
        /\ g.block[c].next = h.block[c].next
        /\ g.block[c].prev = IF c = m THEN b ELSE h.block[c].prev
        /\ Kept(h, g, c)
  BY <1>1, Zenon DEF After, Kept, Links
<1>5. b < n /\ n # 0 /\ \A c \in DOMAIN h.block : c < After(h, c) /\ After(h, c) \in Nat
  <2>1. \A c \in DOMAIN h.block : c < After(h, c) /\ After(h, c) \in Nat
    BY BlockIs
  <2> QED
    BY <1>2, <2>1
<1>6. \A c \in DOMAIN h.block : c # b => h.block[c].next # n
  BY <1>1, <1>2 DEF Good, Nexts, n
<1>7. m # NULL => m \in DOMAIN g.block /\ m # b /\ h.block[m].prev = n /\ m = After(h, n)
  <2>1. m # NULL => m = After(h, n) /\ m \in DOMAIN h.block /\ h.block[m].prev = n
    BY <1>1, FollowedBy, Zenon DEF m
  <2>2. n < After(h, n) /\ n \in Nat /\ b \in Nat /\ After(h, n) \in Nat
    BY <1>1, <1>2, <1>5, Zenon
  <2>3. After(h, n) # n /\ After(h, n) # b
    BY <1>5, <2>2
  <2> QED
    BY <1>1, <2>1, <2>3, Zenon
<1>8. \A c \in DOMAIN h.block : h.block[c].prev = n => c = m
  <2> SUFFICES ASSUME NEW c \in DOMAIN h.block, h.block[c].prev = n PROVE c = m
    OBVIOUS
  <2>1. n # NULL
    BY <1>1, <1>2, Zenon
  <2>2. CASE c = 0
    BY <2>1, <2>2 DEF Good, Prevs
  <2>3. CASE c # 0
    BY <2>3 DEF Good, Prevs, m
  <2> QED
    BY <2>2, <2>3
<1>9. Starts(g)
  BY <1>1, <1>5, Zenon DEF Good, Starts
<1>10. Nexts(g)
  <2> SUFFICES ASSUME NEW c \in DOMAIN g.block
               PROVE  IF g.block[c].next = NULL THEN After(g, c) = g.end
                      ELSE /\ g.block[c].next = After(g, c)
                           /\ g.block[c].next \in DOMAIN g.block
                           /\ g.block[g.block[c].next].prev = c
    BY Zenon DEF Nexts
  <2>1. CASE c = b
    <3>1. CASE m = NULL
      <4>1. After(h, n) = h.end
        BY <3>1, <1>1, FollowedBy, Zenon DEF m
      <4> QED
        BY <2>1, <3>1, <4>1, <1>1, <1>3, Zenon
    <3>2. CASE m # NULL
      <4>1. g.block[m].prev = b
        BY <3>2, <1>4, <1>7, Zenon
      <4> QED
        BY <2>1, <3>2, <4>1, <1>3, <1>7
    <3> QED
      BY <3>1, <3>2, Zenon
  <2>2. CASE c # b
    <3>1. /\ c \in DOMAIN h.block /\ g.block[c].next = h.block[c].next /\ After(g, c) = After(h, c)
          /\ h.block[c].next # n
      BY <2>2, <1>1, <1>4, <1>6, Zenon
    <3>2. CASE h.block[c].next = NULL
      <4>1. After(h, c) = h.end
        BY <3>1, <3>2, FollowedBy
      <4> QED
        BY <3>1, <3>2, <4>1, <1>1, Zenon
    <3>3. CASE h.block[c].next # NULL
      <4>1. /\ h.block[c].next = After(h, c) /\ h.block[c].next \in DOMAIN g.block
            /\ h.block[h.block[c].next].prev = c
        BY <3>1, <3>3, <1>1, FollowedBy
      <4>2. CASE h.block[c].next = b
        BY <4>1, <4>2, <3>1, <3>3, <1>3, Zenon
      <4>3. CASE h.block[c].next # b
        <5>1. c # n
          BY <1>1, Zenon
        <5>2. h.block[c].next # m
          BY <4>1, <1>7, <3>3, <5>1
        <5> QED
          BY <5>2, <4>1, <4>3, <3>1, <3>3, <1>4
      <4> QED
        BY <4>2, <4>3, Zenon
    <3> QED
      BY <3>2, <3>3, Zenon
  <2> QED
    BY <2>1, <2>2, Zenon
<1>11. Prevs(g)
  <2> SUFFICES ASSUME NEW c \in DOMAIN g.block
               PROVE  IF c = 0 THEN g.block[c].prev = NULL
                      ELSE /\ g.block[c].prev \in DOMAIN g.block
                           /\ g.block[g.block[c].prev].next = c
    BY Zenon DEF Prevs
  <2>1. CASE c = m /\ c # b
    <3>1. c # NULL
      BY <1>1, <1>2
    <3>2. c # 0
      <4>1. c = After(h, n) /\ n < After(h, n) /\ n \in Nat
        BY <2>1, <3>1, <1>1, <1>2, <1>5, <1>7
      <4> QED
        BY <4>1
    <3>3. g.block[c].prev = b
      BY <2>1, <1>4
    <3>4. b \in DOMAIN g.block /\ g.block[b].next = c
      BY <2>1, <1>1, <1>3, Zenon
    <3> QED
      BY <3>2, <3>3, <3>4
  <2>2. CASE c = b \/ c # m
    <3>1. g.block[c].prev = h.block[c].prev /\ c \in DOMAIN h.block
      BY <2>2, <1>1, <1>3, <1>4, Zenon
    <3>2. CASE c = 0
      BY <3>1, <3>2 DEF Good, Prevs
    <3>3. CASE c # 0
      <4>1. h.block[c].prev \in DOMAIN h.block /\ h.block[h.block[c].prev].next = c
        BY <3>1, <3>3 DEF Good, Prevs
      <4>2. h.block[c].prev # n /\ h.block[c].prev # b
        <5>1. m = b => b = NULL
          BY <1>7
        <5>2. b # NULL
          BY <1>2
        <5>3. h.block[b].next = n /\ c # n
          BY <1>1, Zenon DEF n
        <5>4. h.block[c].prev # b
          BY <4>1, <5>3
        <5>5. h.block[c].prev # n
          BY <2>2, <3>1, <1>8, <5>1, <5>2
        <5> QED
          BY <5>4, <5>5
      <4>3. h.block[c].prev \in DOMAIN g.block
        BY <4>1, <4>2, <1>1
      <4> QED
        BY <4>1, <4>2, <4>3, <3>1, <3>3, <1>4, Zenon
    <3> QED
      BY <3>2, <3>3, Zenon
  <2> QED
    BY <2>1, <2>2, Zenon
<1>12. Apart(g)
  <2> SUFFICES ASSUME NEW c \in DOMAIN g.block, NEW d \in DOMAIN g.block, c < d
               PROVE  After(g, c) <= d
    BY DEF Apart
  <2>0. c \in DOMAIN h.block /\ d \in DOMAIN h.block /\ d # n
    BY <1>1
  <2>1. CASE c = b
    <3>1. n <= d
      BY <2>0, <2>1, <1>2 DEF Good, Apart
    <3>2. n < d
      BY <3>1, <2>0, <1>1, <1>2
    <3>3. After(h, n) <= d
      BY <3>2, <2>0, <1>1 DEF Good, Apart
    <3> QED
      BY <2>1, <3>3, <1>3
  <2>2. CASE c # b
    <3>1. After(h, c) <= d
      BY <2>0 DEF Good, Apart
    <3> QED
      BY <2>2, <3>1, <1>4
  <2> QED
    BY <2>1, <2>2
<1>13. Below(g)
  <2>1. \A c \in DOMAIN h.block : After(h, c) <= h.end
    BY DEF Good, Below
  <2>2. \A c \in DOMAIN g.block : After(g, c) <= g.end
    BY <2>1, <1>1, <1>3, <1>4, Zenon
  <2> QED
    BY <2>2 DEF Below
<1>14. \A x \in DOMAIN h.block \ {b, n} : Kept(h, g, x)
  BY <1>1, <1>4, Zenon
<1> QED
  BY <1>1, <1>9, <1>10, <1>11, <1>12, <1>13, <1>14, Zenon DEF Good, n

-----------------------------------------------------------------------------
(* A heap whose kernel's pool was charged. *)
Charged(h) == h = [block |-> h.block, end |-> h.end, charged |-> TRUE]

(* The last block is cut off: its room goes back to the pool, or the       *)
(* kernel's pool is charged.                                               *)
LEMMA CompactGood ==
  ASSUME NEW h, Good(h), NEW b \in DOMAIN h.block, h.block[b].next = NULL,
         NEW g, g = f_compact(h, b)
  PROVE  \/ Charged(g)
         \/ /\ Good(g)
            /\ \A x \in DOMAIN h.block : h.block[x].used => Kept(h, g, x)
<1> DEFINE p == h.block[b].prev
           F == [c \in DOMAIN h.block \ {b} |->
                   IF c = p THEN [h.block[c] EXCEPT !.next = NULL] ELSE h.block[c]]
<1>0. Cut(h, b) = [h EXCEPT !.block = F]
  BY DEF Cut
<1> HIDE DEF F, p
<1>1. CASE h.block[b].prev = NULL
  BY <1>1 DEF f_compact, Kept
<1>2. CASE h.block[b].prev # NULL /\ ~(h.block[b].pool = "user" /\ ~h.block[b].used)
  <2>1. g = [Cut(h, b) EXCEPT !.charged = TRUE]
    BY <1>2 DEF f_compact
  <2>2. PICK B, e : h = [block |-> B, end |-> e, charged |-> FALSE]
    BY DEF Good, Shape
  <2>3. Cut(h, b) = [block |-> F, end |-> e, charged |-> FALSE]
    BY <1>0, <2>2
  <2>4. g = [[block |-> F, end |-> e, charged |-> FALSE] EXCEPT !.charged = TRUE]
    BY <2>1, <2>3
  <2>5. g = [block |-> F, end |-> e, charged |-> TRUE]
    BY <2>4
  <2> QED
    BY <2>5 DEF Charged
<1>3. CASE h.block[b].prev # NULL /\ h.block[b].pool = "user" /\ ~h.block[b].used
  <2>1. g = [Cut(h, b) EXCEPT !.end = @ - h.block[b].size - Header]
    BY <1>3 DEF f_compact
  <2>3. /\ g.block = F
        /\ g.end = h.end - h.block[b].size - Header
        /\ g = [block |-> g.block, end |-> g.end, charged |-> FALSE]
    <3>1. PICK B, e : h = [block |-> B, end |-> e, charged |-> FALSE]
      BY DEF Good, Shape
    <3>2. Cut(h, b) = [block |-> F, end |-> e, charged |-> FALSE]
      BY <1>0, <3>1
    <3>3. g = [block |-> F, end |-> e - h.block[b].size - Header, charged |-> FALSE]
      <4>1. PICK n : n = Cut(h, b).end - h.block[b].size - Header
        OBVIOUS
      <4>2. g = [Cut(h, b) EXCEPT !.end = n]
        BY <2>1, <4>1
      <4>3. g = [[block |-> F, end |-> e, charged |-> FALSE] EXCEPT !.end = n]
        BY <3>2, <4>2
      <4>4. g = [block |-> F, end |-> n, charged |-> FALSE]
        BY <4>3
      <4>5. n = e - h.block[b].size - Header
        BY <3>2, <4>1
      <4> QED
        BY <4>4, <4>5
    <3>4. g.block = F /\ g.end = e - h.block[b].size - Header
      BY <3>3
    <3>5. h.end = e
      BY <3>1
    <3> QED
      BY <3>3, <3>4, <3>5
  <2>4. DOMAIN g.block = DOMAIN h.block \ {b}
    BY <2>3 DEF F
  <2>5. \A c \in DOMAIN h.block : h.block[c] \in Headers /\ c \in Addresses
    BY DEF Good, Shape
  <2>6. p \in DOMAIN h.block /\ h.block[p].next = b /\ b # 0 /\ p # b
    BY <1>3, <2>5 DEF Good, Prevs, NULL, Addresses, p
  <2>7. After(h, b) = h.end /\ After(h, p) = b /\ b \in Nat
    BY <2>5, <2>6 DEF Good, Nexts, NULL, Addresses
  <2>8. g.end = b
    BY <2>3, <2>5, <2>7 DEF After, Headers, Addresses, Good, Shape
  <2>9. ASSUME NEW c \in DOMAIN g.block
        PROVE  /\ g.block[c] \in Headers
               /\ Kept(h, g, c)
               /\ Links(g.block[c], h.block[c].prev, IF c = p THEN NULL ELSE h.block[c].next)
    <3>1. g.block[c] = IF c = p THEN [h.block[c] EXCEPT !.next = NULL] ELSE h.block[c]
      BY <2>3, <2>4 DEF F
    <3>2. h.block[c] \in Headers
      BY <2>4, <2>5
    <3> QED
      BY <3>1, <3>2 DEF Headers, Links, Kept
  <2>10. Shape(g)
    <3>1. g.block = [c \in DOMAIN g.block |-> g.block[c]]
      BY <2>3 DEF F
    <3>2. g.block \in [DOMAIN g.block -> Headers]
      BY <2>9, <3>1
    <3>3. g.end \in Addresses
      BY <2>8, <2>5
    <3> QED
      BY <2>3, <2>4, <2>5, <3>2, <3>3 DEF Shape
  <2>11. Starts(g)
    BY <2>4, <2>6 DEF Good, Starts
  <2>12. \A c \in DOMAIN g.block :
           /\ After(g, c) = After(h, c)
           /\ g.block[c].prev = h.block[c].prev
           /\ g.block[c].next = IF c = p THEN NULL ELSE h.block[c].next
    BY <2>9 DEF After, Kept, Links
  <2>13. Nexts(g)
    <3> SUFFICES ASSUME NEW c \in DOMAIN g.block
                 PROVE  IF g.block[c].next = NULL THEN After(g, c) = g.end
                        ELSE /\ g.block[c].next = After(g, c)
                             /\ g.block[c].next \in DOMAIN g.block
                             /\ g.block[g.block[c].next].prev = c
      BY DEF Nexts
    <3>1. CASE c = p
      BY <3>1, <2>7, <2>8, <2>12
    <3>2. CASE c # p
      <4>1. c \in DOMAIN h.block /\ g.block[c].next = h.block[c].next /\ After(g, c) = After(h, c)
        BY <3>2, <2>4, <2>12
      <4>2. h.block[c].next = NULL => c = b
        <5> SUFFICES ASSUME h.block[c].next = NULL PROVE c = b
          OBVIOUS
        <5>1. After(h, c) = After(h, b) /\ After(h, c) > c /\ After(h, b) > b /\ After(h, b) \in Nat
          BY <4>1, <2>7, <2>5 DEF Good, Nexts, After, Headers, Addresses
        <5>2. ~(c < b) /\ ~(b < c)
          BY <4>1, <5>1, <2>5 DEF Good, Apart, Addresses
        <5> QED
          BY <4>1, <5>2, <2>5 DEF Addresses
      <4>3. h.block[c].next # NULL
        BY <4>2, <2>4
      <4>4. /\ h.block[c].next = After(h, c) /\ h.block[c].next \in DOMAIN h.block
            /\ h.block[h.block[c].next].prev = c
        BY <4>1, <4>3 DEF Good, Nexts
      <4>5. h.block[c].next # b
        BY <4>4, <3>2 DEF p
      <4> QED
        BY <4>1, <4>3, <4>4, <4>5, <2>4, <2>12
    <3> QED
      BY <3>1, <3>2
  <2>14. Prevs(g)
    <3> SUFFICES ASSUME NEW c \in DOMAIN g.block
                 PROVE  IF c = 0 THEN g.block[c].prev = NULL
                        ELSE /\ g.block[c].prev \in DOMAIN g.block
                             /\ g.block[g.block[c].prev].next = c
      BY DEF Prevs
    <3>1. c \in DOMAIN h.block /\ c # b /\ g.block[c].prev = h.block[c].prev
      BY <2>4, <2>12
    <3>2. CASE c = 0
      BY <3>1, <3>2 DEF Good, Prevs
    <3>3. CASE c # 0
      <4>1. h.block[c].prev \in DOMAIN h.block /\ h.block[h.block[c].prev].next = c
        BY <3>1, <3>3 DEF Good, Prevs
      <4>2. h.block[c].prev # b /\ h.block[c].prev # p
        BY <4>1, <2>6, <3>1, <2>5 DEF NULL, Addresses
      <4> QED
        BY <4>1, <4>2, <3>1, <3>3, <2>4, <2>12
    <3> QED
      BY <3>2, <3>3
  <2>15. Apart(g)
    BY <2>4, <2>12 DEF Good, Apart
  <2>16. Below(g)
    <3> SUFFICES ASSUME NEW c \in DOMAIN g.block PROVE After(g, c) <= g.end
      BY DEF Below
    <3>1. c \in DOMAIN h.block /\ c # b /\ After(g, c) = After(h, c)
      BY <2>4, <2>12
    <3>2. ~(b < c)
      <4>1. b < c => After(h, b) <= c /\ After(h, c) <= h.end /\ After(h, c) > c /\ After(h, c) \in Nat
        BY <3>1, <2>5 DEF Good, Apart, Below, After, Headers, Addresses
      <4> QED
        BY <4>1, <2>7, <2>5, <3>1 DEF Addresses, Good, Shape
    <3> QED
      BY <3>1, <3>2, <2>5, <2>8 DEF Good, Apart, Addresses
  <2>17. \A x \in DOMAIN h.block : h.block[x].used => Kept(h, g, x)
    BY <1>3, <2>4, <2>9
  <2> QED
    BY <2>10, <2>11, <2>13, <2>14, <2>15, <2>16, <2>17 DEF Good
<1> QED
  BY <1>1, <1>2, <1>3

(* What blk_rearrange does with a block leaves the others' memory alone.   *)
LEMMA RearrangeGood ==
  ASSUME NEW h, Good(h), NEW b \in DOMAIN h.block
  PROVE  LET r == blk_rearrange(h, b) IN Charged(r) \/ (Good(r) /\ KeptBut(h, r, b))
<1> DEFINE before == h.block[b].prev
           back == before # NULL /\ ~h.block[before].used
           c == IF back THEN before ELSE b
           g == IF back THEN merge_blocks(h, before, b) ELSE h
           after == g.block[c].next
           forth == after # NULL /\ ~g.block[after].used
           k == IF forth THEN merge_blocks(g, c, after) ELSE g
           r == IF k.block[c].next = NULL THEN f_compact(k, c) ELSE k
<1>1. blk_rearrange(h, b) = r
  BY DEF blk_rearrange
<1> HIDE DEF before, back, c, g, after, forth, k, r
<1>2. Good(g) /\ KeptBut(h, g, b) /\ c \in DOMAIN g.block /\ (c = b \/ ~h.block[c].used)
  <2>1. CASE ~back
    BY <2>1 DEF c, g, Kept, KeptBut
  <2>2. CASE back
    <3>1. before \in DOMAIN h.block /\ h.block[before].next = b /\ b # NULL
      BY <2>2 DEF back, before, Good, Prevs, Shape, NULL, Addresses
    <3>2. Good(g) /\ \A x \in DOMAIN h.block \ {before, b} : Kept(h, g, x)
      BY <2>2, <3>1, MergeGood DEF g
    <3>3. before \in DOMAIN g.block
      BY <2>2, <3>1, MergeIs DEF g, Merged
    <3> QED
      BY <2>2, <3>1, <3>2, <3>3 DEF back, c, KeptBut
  <2> QED
    BY <2>1, <2>2
<1>3. /\ Good(k) /\ c \in DOMAIN k.block
      /\ \A x \in DOMAIN g.block : g.block[x].used /\ x # c => Kept(g, k, x)
  <2>1. CASE ~forth
    BY <2>1, <1>2 DEF k, Kept
  <2>2. CASE forth
    <3>1. g.block[c].next # NULL /\ k = merge_blocks(g, c, g.block[c].next) /\ ~g.block[g.block[c].next].used
      BY <2>2 DEF forth, after, k
    <3>2. Good(k) /\ \A x \in DOMAIN g.block \ {c, g.block[c].next} : Kept(g, k, x)
      BY <3>1, <1>2, MergeGood
    <3>3. c \in DOMAIN k.block
      BY <3>1, <1>2, MergeIs DEF Merged
    <3> QED
      BY <3>1, <3>2, <3>3
  <2> QED
    BY <2>1, <2>2
<1>4. Charged(r) \/ (Good(r) /\ \A x \in DOMAIN k.block : k.block[x].used => Kept(k, r, x))
  <2>1. CASE k.block[c].next = NULL
    BY <2>1, <1>3, CompactGood DEF r
  <2>2. CASE k.block[c].next # NULL
    BY <2>2, <1>3 DEF r, Kept
  <2> QED
    BY <2>1, <2>2
<1>5. ASSUME \A x \in DOMAIN k.block : k.block[x].used => Kept(k, r, x) PROVE KeptBut(h, r, b)
  <2> SUFFICES ASSUME NEW x \in DOMAIN h.block, h.block[x].used, x # b PROVE Kept(h, r, x)
    BY DEF KeptBut
  <2>1. Kept(h, g, x) /\ x # c
    BY <1>2 DEF KeptBut
  <2>2. Kept(g, k, x)
    BY <2>1, <1>3 DEF Kept
  <2>3. Kept(k, r, x)
    BY <2>1, <2>2, <1>5 DEF Kept
  <2> QED
    BY <2>1, <2>2, <2>3 DEF Kept
<1> QED
  BY <1>1, <1>4, <1>5
-----------------------------------------------------------------------------
(* A block and the next. *)
LEMMA NextIs ==
  ASSUME NEW h, Good(h), NEW b \in DOMAIN h.block
  PROVE  /\ b \in 0..PoolEnd /\ After(h, b) \in Nat /\ b < After(h, b) /\ NULL \notin DOMAIN h.block
         /\ h.block[b].next # NULL => h.block[b].next \in DOMAIN h.block
         /\ h.block[b].next \in DOMAIN h.block => h.block[b].next = After(h, b)
<1>1. h.block[b] \in Headers /\ DOMAIN h.block \subseteq 0..PoolEnd
  BY DEF Good, Shape, Addresses
<1>2. After(h, b) \in Nat /\ b < After(h, b)
  BY <1>1 DEF After, Headers
<1>3. NULL \notin DOMAIN h.block
  BY <1>1 DEF NULL
<1> QED
  BY <1>1, <1>2, <1>3 DEF Good, Nexts

(* A set with the first block and, with a block, the next, has them all.   *)
LEMMA ChainIsAll ==
  ASSUME NEW h, Good(h), NEW S, 0 \in DOMAIN h.block => 0 \in S,
         \A b \in DOMAIN h.block : b \in S /\ h.block[b].next \in DOMAIN h.block => h.block[b].next \in S
  PROVE  DOMAIN h.block \subseteq S
<1> SUFFICES ASSUME DOMAIN h.block \ S # {} PROVE FALSE
  OBVIOUS
<1>1. DOMAIN h.block \ S \in SUBSET Nat
  BY DEF Good, Shape, Addresses
<1>2. PICK b \in DOMAIN h.block \ S : \A c \in DOMAIN h.block \ S : b <= c
  BY <1>1, MinExists
<1>3. b # 0
  BY <1>2
<1> DEFINE p == h.block[b].prev
<1>4. p \in DOMAIN h.block /\ h.block[p].next = b
  BY <1>2, <1>3 DEF Good, Prevs
<1>5. p < b
  BY <1>2, <1>4 DEF Good, Nexts, Shape, Headers, Addresses, NULL, After
<1> QED
  BY <1>1, <1>2, <1>4, <1>5

LEMMA ListedIsAll ==
  ASSUME NEW h, Good(h)
  PROVE  Listed(h) = DOMAIN h.block
<1> DEFINE D == DOMAIN h.block
           next(b) == h.block[b].next
           from == CHOOSE f : f = [b \in D |-> {b} \cup (IF next(b) \in D THEN f[next(b)] ELSE {})]
           upward == [b \in D |-> {c \in D : b <= c}]
<1>1. Listed(h) = IF 0 \in D THEN from[0] ELSE {}
  BY DEF Listed
<1>2. D \subseteq Nat
  BY DEF Good, Shape, Addresses
<1>3. ASSUME NEW b \in D
      PROVE  {c \in D : b <= c} = {b} \cup (IF next(b) \in D THEN {c \in D : next(b) <= c} ELSE {})
  <2>1. CASE next(b) \in D
    <3>1. next(b) = After(h, b) /\ b < After(h, b)
      BY <2>1, <1>2 DEF Good, Nexts, Shape, Headers, Addresses, NULL, After
    <3>2. \A c \in D : b < c <=> next(b) <= c
      BY <3>1, <2>1, <1>2 DEF Good, Apart
    <3> QED
      BY <2>1, <3>2, <1>2
  <2>2. CASE next(b) \notin D
    <3>1. After(h, b) = h.end
      BY <2>2 DEF Good, Nexts
    <3>2. \A c \in D : c < After(h, c) /\ After(h, c) <= h.end /\ After(h, c) \in Nat
      BY DEF Good, Below, Shape, Headers, Addresses, After
    <3>3. \A c \in D : ~(b < c)
      BY <3>1, <3>2, <1>2 DEF Good, Apart
    <3> QED
      BY <2>2, <3>3, <1>2
  <2> QED
    BY <2>1, <2>2
<1>4. upward = [b \in D |-> {b} \cup (IF next(b) \in D THEN upward[next(b)] ELSE {})]
  BY <1>3
<1>5. from = [b \in D |-> {b} \cup (IF next(b) \in D THEN from[next(b)] ELSE {})]
  BY <1>4, Zenon
<1> HIDE DEF from, upward
<1>6. \A b \in D : b \in from[b] /\ (next(b) \in D => from[next(b)] \subseteq from[b])
  BY <1>5
<1>7. D \subseteq {b \in D : from[b] \subseteq from[0]}
  <2> DEFINE S == {b \in D : from[b] \subseteq from[0]}
  <2>1. 0 \in D => 0 \in S
    OBVIOUS
  <2>2. \A b \in D : b \in S /\ next(b) \in D => next(b) \in S
    BY <1>6
  <2> HIDE DEF S
  <2>3. D \subseteq S
    BY <2>1, <2>2, ChainIsAll
  <2> QED
    BY <2>3 DEF S
<1>8. D \subseteq Listed(h)
  <2>1. CASE D = {}
    BY <2>1
  <2>2. CASE D # {}
    BY <2>2, <1>1, <1>6, <1>7 DEF Good, Starts
  <2> QED
    BY <2>1, <2>2
<1>9. \A b \in D : from[b] \subseteq D
  <2> SUFFICES ASSUME {b \in D : ~(from[b] \subseteq D)} # {} PROVE FALSE
    OBVIOUS
  <2> DEFINE W == {b \in D : ~(from[b] \subseteq D)}
             down == {n \in Nat : \E b \in W : n = PoolEnd - b}
  <2>1. down # {}
    BY DEF Good, Shape, Addresses
  <2>2. PICK n \in down : \A k \in down : n <= k
    BY <2>1, MinExists
  <2>3. PICK b \in W : n = PoolEnd - b
    BY <2>2
  <2>4. next(b) \in D /\ ~(from[next(b)] \subseteq D)
    <3>1. b \in D /\ ~(from[b] \subseteq D)
      BY <2>3
    <3>2. from[b] = {b} \cup (IF next(b) \in D THEN from[next(b)] ELSE {})
      BY <3>1, <1>5, Zenon
    <3> QED
      BY <3>1, <3>2
  <2>5. next(b) = After(h, b) /\ b < next(b) /\ next(b) \in 0..PoolEnd
    BY <2>3, <2>4, NextIs
  <2>6. PoolEnd - next(b) \in down
    BY <2>4, <2>5
  <2> QED
    BY <2>2, <2>3, <2>5, <2>6, <1>2
<1> QED
  BY <1>1, <1>8, <1>9

(* The last block is the only one with no next, and ends the pool in use.  *)
LEMMA LastIs ==
  ASSUME NEW h, Good(h)
  PROVE  IF DOMAIN h.block = {} THEN Last(h) = NULL
         ELSE /\ Last(h) \in DOMAIN h.block
              /\ h.block[Last(h)].next = NULL
              /\ After(h, Last(h)) = h.end
              /\ \A b \in DOMAIN h.block \ {Last(h)} : h.block[b].next # NULL
<1>1. CASE DOMAIN h.block = {}
  BY <1>1, ListedIsAll DEF Last
<1>2. CASE DOMAIN h.block # {}
  <2>1. \E b \in DOMAIN h.block : h.block[b].next = NULL
    <3> SUFFICES ASSUME \A b \in DOMAIN h.block : h.block[b].next # NULL PROVE FALSE
      OBVIOUS
    <3> DEFINE down == {n \in Nat : \E b \in DOMAIN h.block : n = PoolEnd - b}
    <3>1. down # {}
      BY <1>2 DEF Good, Shape, Addresses
    <3>2. PICK n \in down : \A k \in down : n <= k
      BY <3>1, MinExists
    <3>3. PICK b \in DOMAIN h.block : n = PoolEnd - b
      BY <3>2
    <3>4. h.block[b].next \in DOMAIN h.block /\ b < h.block[b].next
      BY NextIs
    <3>5. PoolEnd - h.block[b].next \in down
      BY <3>4 DEF Good, Shape, Addresses
    <3> QED
      BY <3>2, <3>3, <3>4, <3>5 DEF Good, Shape, Addresses
  <2>2. Last(h) = CHOOSE b \in DOMAIN h.block : h.block[b].next = NULL
    BY <1>2, ListedIsAll DEF Last
  <2>3. Last(h) \in DOMAIN h.block /\ h.block[Last(h)].next = NULL
    BY <2>1, <2>2
  <2>4. After(h, Last(h)) = h.end
    BY <2>3 DEF Good, Nexts
  <2>5. ASSUME NEW b \in DOMAIN h.block \ {Last(h)} PROVE h.block[b].next # NULL
    <3> SUFFICES ASSUME h.block[b].next = NULL PROVE FALSE
      OBVIOUS
    <3> DEFINE l == Last(h)
    <3> HIDE DEF l
    <3>1. After(h, b) = h.end /\ After(h, l) = h.end /\ b # l /\ l \in DOMAIN h.block
      BY <2>3, <2>4, <2>5 DEF Good, Nexts, l
    <3>2. b \in Nat /\ l \in Nat /\ b < After(h, b) /\ l < After(h, l) /\ h.end \in Nat
      BY <3>1 DEF Good, Shape, Headers, Addresses, After
    <3>3. ~(b < l) /\ ~(l < b)
      BY <3>1, <3>2 DEF Good, Apart
    <3> QED
      BY <3>1, <3>2, <3>3
  <2> QED
    BY <1>2, <2>3, <2>4, <2>5
<1> QED
  BY <1>1, <1>2
-----------------------------------------------------------------------------
(* A list with the same blocks and links is as sound. *)
LEMMA SameLinksGood ==
  ASSUME NEW h, Good(h), NEW g, Shape(g), g.end = h.end, DOMAIN g.block = DOMAIN h.block,
         \A c \in DOMAIN h.block : g.block[c].size = h.block[c].size
                                   /\ Links(g.block[c], h.block[c].prev, h.block[c].next)
  PROVE  Good(g)
<1>1. \A c \in DOMAIN h.block : /\ After(g, c) = After(h, c)
                                /\ g.block[c].prev = h.block[c].prev
                                /\ g.block[c].next = h.block[c].next
  BY DEF After, Links
<1>2. Starts(g)
  BY DEF Good, Starts
<1>3. Nexts(g)
  BY <1>1 DEF Good, Nexts
<1>4. Prevs(g)
  BY <1>1 DEF Good, Prevs
<1>5. Apart(g) /\ Below(g)
  BY <1>1 DEF Good, Apart, Below
<1> QED
  BY <1>2, <1>3, <1>4, <1>5 DEF Good

LEMMA FreeGood ==
  ASSUME NEW h, Good(h), NEW S, NEW g, g = f_free(h, S)
  PROVE  /\ Good(g)
         /\ DOMAIN g.block = DOMAIN h.block
         /\ \A x \in DOMAIN h.block \ S : Kept(h, g, x)
<1> DEFINE F == [c \in DOMAIN h.block |->
                   IF c \in S THEN [h.block[c] EXCEPT !.used = FALSE] ELSE h.block[c]]
<1>1. g = WithBlocks(h, F)
  BY DEF f_free, WithBlocks
<1> HIDE DEF F
<1>2. g.block = F /\ g.end = h.end /\ g = [block |-> g.block, end |-> g.end, charged |-> FALSE]
  BY <1>1, BlocksReplaced
<1>3. DOMAIN g.block = DOMAIN h.block
  BY <1>2 DEF F
<1>4. ASSUME NEW c \in DOMAIN h.block
      PROVE  /\ g.block[c] \in Headers
             /\ g.block[c].size = h.block[c].size
             /\ Links(g.block[c], h.block[c].prev, h.block[c].next)
             /\ c \notin S => Kept(h, g, c)
  <2>1. g.block[c] = IF c \in S THEN [h.block[c] EXCEPT !.used = FALSE] ELSE h.block[c]
    BY <1>2 DEF F
  <2>2. h.block[c] \in Headers
    BY DEF Good, Shape
  <2>3. CASE c \in S
    <3>1. g.block[c] = [h.block[c] EXCEPT !.used = FALSE]
      BY <2>1, <2>3, Zenon
    <3>2. g.block[c] \in Headers
      BY <2>2, <3>1, Zenon DEF Headers
    <3>3. /\ g.block[c].size = h.block[c].size
          /\ Links(g.block[c], h.block[c].prev, h.block[c].next)
      BY <2>2, <3>1 DEF Headers, Links
    <3> QED
      BY <2>3, <3>2, <3>3, Zenon
  <2>4. CASE c \notin S
    BY <2>1, <2>2, <2>4, <1>3 DEF Links, Kept
  <2> QED
    BY <2>3, <2>4
<1>5. g.block \in [DOMAIN g.block -> Headers]
  <2>1. g.block = [c \in DOMAIN g.block |-> g.block[c]]
    BY <1>2 DEF F
  <2> QED
    BY <2>1, <1>3, <1>4
<1>6. Shape(g)
  BY <1>2, <1>3, <1>5 DEF Good, Shape
<1> QED
  BY <1>2, <1>3, <1>4, <1>6, SameLinksGood

LEMMA TakenGood ==
  ASSUME NEW h, Good(h), NEW b \in DOMAIN h.block, NEW p \in Pids, NEW g, g = Taken(h, b, p)
  PROVE  /\ Good(g)
         /\ DOMAIN g.block = DOMAIN h.block
         /\ g.block[b].used /\ g.block[b].pid = p /\ g.block[b].size = h.block[b].size
         /\ \A x \in DOMAIN h.block \ {b} : Kept(h, g, x)
<1> DEFINE F == [h.block EXCEPT ![b] = [h.block[b] EXCEPT !.used = TRUE, !.pool = "user", !.pid = p]]
<1>0. h.block[b] \in Headers /\ h.block \in [DOMAIN h.block -> Headers]
  BY DEF Good, Shape
<1>1. g = WithBlocks(h, F)
  BY DEF Taken, WithBlocks
<1> HIDE DEF F
<1>2. g.block = F /\ g.end = h.end /\ g = [block |-> g.block, end |-> g.end, charged |-> FALSE]
  BY <1>1, BlocksReplaced
<1>3. DOMAIN g.block = DOMAIN h.block
  BY <1>2 DEF F
<1>4. /\ g.block[b] \in Headers
      /\ g.block[b].size = h.block[b].size
      /\ g.block[b].used /\ g.block[b].pid = p
      /\ Links(g.block[b], h.block[b].prev, h.block[b].next)
  <2>1. g.block[b] = [h.block[b] EXCEPT !.used = TRUE, !.pool = "user", !.pid = p]
    BY <1>2, <1>0 DEF F
  <2> QED
    BY <2>1, <1>0, Zenon DEF Headers, Links
<1>5. \A c \in DOMAIN h.block \ {b} : g.block[c] = h.block[c] /\ h.block[c] \in Headers
  BY <1>0, <1>2 DEF F
<1>6. Shape(g)
  <2>1. g.block \in [DOMAIN h.block -> Headers]
    BY <1>2, <1>0, <1>4, <1>5 DEF F
  <2> QED
    BY <2>1, <1>2, <1>3 DEF Good, Shape
<1>7. \A c \in DOMAIN h.block : g.block[c].size = h.block[c].size
                                /\ Links(g.block[c], h.block[c].prev, h.block[c].next)
  BY <1>4, <1>5 DEF Links
<1>8. Good(g)
  BY <1>2, <1>3, <1>6, <1>7, SameLinksGood
<1> QED
  BY <1>3, <1>4, <1>5, <1>8 DEF Kept

(* The last block split in two, the second of which is free. *)
LEMMA SplitGood ==
  ASSUME NEW h, Good(h), NEW b \in DOMAIN h.block, h.block[b].next = NULL,
         NEW size \in Nat, MuchBigger(h, b, size), NEW g, g = split_block(h, b, size)
  PROVE  /\ Good(g)
         /\ b \in DOMAIN g.block /\ g.block[b].size = size
         /\ \A x \in DOMAIN h.block \ {b} : Kept(h, g, x)
<1> DEFINE free == b + Header + size
           rest == [prev |-> b, next |-> h.block[b].next, size |-> h.block[b].size - Header - size,
                    used |-> FALSE, pool |-> "kernel", pid |-> Kernel]
           F == [c \in DOMAIN h.block \cup {free} |->
                   CASE c = b -> [h.block[b] EXCEPT !.size = size, !.next = free]
                     [] c = free -> rest
                     [] OTHER -> h.block[c]]
<1>1. g = WithBlocks(h, F)
  BY DEF split_block, WithBlocks
<1>2. \A c \in DOMAIN h.block : h.block[c] \in Headers /\ c \in Addresses /\ After(h, c) \in Nat
                                /\ c < After(h, c) /\ After(h, c) <= h.end
  BY NextIs DEF Good, Shape, Below
<1>3. After(h, b) = h.end /\ h.end \in Addresses
  BY DEF Good, Nexts, Shape
<1>4. /\ b < free /\ free < h.end /\ free \in Addresses
      /\ h.block[b].size - Header - size \in Nat
      /\ free + Header + (h.block[b].size - Header - size) = h.end
  BY <1>2, <1>3 DEF MuchBigger, After, Headers, Addresses
<1>5. \A c \in DOMAIN h.block : c # b => c < b /\ After(h, c) <= b
  BY <1>2, <1>3 DEF Good, Apart, Addresses
<1>6. free \notin DOMAIN h.block
  BY <1>4, <1>5, <1>2 DEF Addresses
<1>7. rest \in Headers /\ rest.prev = b /\ rest.next = NULL /\ rest.size = h.block[b].size - Header - size
  BY <1>2, <1>4 DEF Headers
<1> HIDE DEF free, rest, F
<1>8. g.block = F /\ g.end = h.end /\ g = [block |-> g.block, end |-> g.end, charged |-> FALSE]
  BY <1>1, BlocksReplaced
<1>9. DOMAIN g.block = DOMAIN h.block \cup {free}
  BY <1>8 DEF F
<1>10. g.block[free] = rest
  BY <1>4, <1>8, <1>9, <1>2 DEF F
<1>11. /\ g.block[b] \in Headers
       /\ g.block[b].size = size
       /\ Links(g.block[b], h.block[b].prev, free)
  <2>1. g.block[b] = [h.block[b] EXCEPT !.size = size, !.next = free]
    BY <1>6, <1>8, <1>9 DEF F
  <2> QED
    BY <2>1, <1>2, <1>4 DEF Headers, Links
<1>12. \A c \in DOMAIN h.block \ {b} : g.block[c] = h.block[c]
  BY <1>6, <1>8, <1>9 DEF F
<1>13. Shape(g)
  <2>1. \A c \in DOMAIN g.block : g.block[c] \in Headers
    BY <1>2, <1>7, <1>9, <1>10, <1>11, <1>12
  <2>2. g.block = [c \in DOMAIN g.block |-> g.block[c]]
    BY <1>8 DEF F
  <2>3. g.block \in [DOMAIN g.block -> Headers]
    BY <2>1, <2>2
  <2> QED
    BY <2>3, <1>2, <1>3, <1>4, <1>8, <1>9 DEF Shape
<1>14. /\ After(g, free) = h.end /\ g.block[free].prev = b /\ g.block[free].next = NULL
       /\ After(g, b) = free /\ g.block[b].prev = h.block[b].prev /\ g.block[b].next = free
       /\ \A c \in DOMAIN h.block \ {b} :
            After(g, c) = After(h, c) /\ g.block[c].prev = h.block[c].prev /\ g.block[c].next = h.block[c].next
  BY <1>4, <1>7, <1>10, <1>11, <1>12 DEF After, Links, free
<1>15. Starts(g)
  BY <1>9 DEF Good, Starts
<1>16. Nexts(g)
  <2> SUFFICES ASSUME NEW c \in DOMAIN g.block
               PROVE  IF g.block[c].next = NULL THEN After(g, c) = g.end
                      ELSE /\ g.block[c].next = After(g, c)
                           /\ g.block[c].next \in DOMAIN g.block
                           /\ g.block[g.block[c].next].prev = c
    BY DEF Nexts
  <2>1. CASE c = free
    BY <2>1, <1>8, <1>14
  <2>2. CASE c = b
    BY <2>2, <1>4, <1>9, <1>14 DEF NULL, Addresses
  <2>3. CASE c # free /\ c # b
    <3>1. c \in DOMAIN h.block \ {b}
      BY <2>3, <1>9
    <3>2. g.block[c].next = h.block[c].next /\ After(g, c) = After(h, c)
      BY <3>1, <1>14
    <3>3. h.block[c].next # NULL
      BY <3>1, <1>2, <1>3, <1>5 DEF Good, Nexts, Addresses
    <3>4. /\ h.block[c].next = After(h, c) /\ h.block[c].next \in DOMAIN h.block
          /\ h.block[h.block[c].next].prev = c
      BY <3>1, <3>3 DEF Good, Nexts
    <3> QED
      BY <3>2, <3>3, <3>4, <1>9, <1>14
  <2> QED
    BY <2>1, <2>2, <2>3
<1>17. Prevs(g)
  <2> SUFFICES ASSUME NEW c \in DOMAIN g.block
               PROVE  IF c = 0 THEN g.block[c].prev = NULL
                      ELSE /\ g.block[c].prev \in DOMAIN g.block
                           /\ g.block[g.block[c].prev].next = c
    BY DEF Prevs
  <2>1. CASE c = free
    BY <2>1, <1>2, <1>4, <1>9, <1>14 DEF Addresses
  <2>2. CASE c # free
    <3>1. c \in DOMAIN h.block /\ g.block[c].prev = h.block[c].prev
      BY <2>2, <1>9, <1>14
    <3>2. CASE c = 0
      BY <3>1, <3>2 DEF Good, Prevs
    <3>3. CASE c # 0
      <4>1. h.block[c].prev \in DOMAIN h.block /\ h.block[h.block[c].prev].next = c
        BY <3>1, <3>3 DEF Good, Prevs
      <4>2. h.block[c].prev # b
        BY <4>1, <3>1, NextIs
      <4> QED
        BY <4>1, <4>2, <3>1, <3>3, <1>9, <1>14
    <3> QED
      BY <3>2, <3>3
  <2> QED
    BY <2>1, <2>2
<1>18. Apart(g)
  <2> SUFFICES ASSUME NEW c \in DOMAIN g.block, NEW d \in DOMAIN g.block, c < d
               PROVE  After(g, c) <= d
    BY DEF Apart
  <2>1. CASE c = free
    BY <2>1, <1>2, <1>4, <1>5, <1>9 DEF Addresses
  <2>2. CASE c = b
    BY <2>2, <1>2, <1>4, <1>5, <1>9, <1>14 DEF Addresses
  <2>3. CASE c # free /\ c # b /\ d = free
    <3>1. c \in DOMAIN h.block \ {b} /\ After(g, c) = After(h, c) /\ After(h, c) <= b
      BY <2>3, <1>5, <1>9, <1>14
    <3> QED
      BY <2>3, <3>1, <1>2, <1>4 DEF Addresses
  <2>4. CASE c # free /\ c # b /\ d # free
    BY <2>4, <1>9, <1>14 DEF Good, Apart
  <2> QED
    BY <2>1, <2>2, <2>3, <2>4
<1>19. Below(g)
  BY <1>2, <1>3, <1>4, <1>8, <1>9, <1>14 DEF Below, Addresses
<1>20. \A x \in DOMAIN h.block \ {b} : Kept(h, g, x)
  BY <1>9, <1>12 DEF Kept
<1> QED
  BY <1>9, <1>11, <1>13, <1>15, <1>16, <1>17, <1>18, <1>19, <1>20 DEF Good

(* A new last block. *)
LEMMA AppendGood ==
  ASSUME NEW h, Good(h), NEW size \in Nat, CanGrow(h, size), NEW g, g = Appended(h, size)
  PROVE  /\ Good(g)
         /\ h.end \in DOMAIN g.block \ DOMAIN h.block
         /\ g.block[h.end].size = size
         /\ \A x \in DOMAIN h.block : Kept(h, g, x)
<1> DEFINE last == Last(h)
           new == [prev |-> last, next |-> NULL, size |-> size,
                   used |-> FALSE, pool |-> "user", pid |-> Kernel]
           F == [c \in DOMAIN h.block \cup {h.end} |->
                   CASE c = h.end -> new
                     [] c = last -> [h.block[c] EXCEPT !.next = h.end]
                     [] OTHER -> h.block[c]]
           e == h.end + size + Header
<1>1. g = [h EXCEPT !.end = e, !.block = F]
  BY DEF Appended
<1>2. \A c \in DOMAIN h.block : h.block[c] \in Headers /\ c \in Addresses /\ After(h, c) \in Nat
                                /\ c < After(h, c) /\ After(h, c) <= h.end
  BY NextIs DEF Good, Shape, Below
<1>3. h.end \in Addresses /\ e \in Addresses /\ h.end < e
  BY DEF Good, Shape, CanGrow, Addresses
<1>4. h.end \notin DOMAIN h.block /\ h.end # last
  BY <1>2, <1>3, LastIs DEF Addresses, NULL
<1>5. last \in Addresses \cup {NULL}
  BY <1>2, LastIs
<1>6. new \in Headers /\ new.prev = last /\ new.next = NULL /\ new.size = size
  BY <1>3, <1>5 DEF Headers
<1> HIDE DEF last, new, F
<1>7. g.block = F /\ g.end = e /\ g = [block |-> g.block, end |-> g.end, charged |-> FALSE]
  <2> HIDE DEF e
  <2>1. PICK B, f : h = [block |-> B, end |-> f, charged |-> FALSE]
    BY DEF Good, Shape
  <2>2. g = [block |-> F, end |-> e, charged |-> FALSE]
    BY <1>1, <2>1
  <2>3. g.block = F /\ g.end = e
    BY <2>2
  <2> QED
    BY <2>2, <2>3
<1>8. DOMAIN g.block = DOMAIN h.block \cup {h.end}
  BY <1>7 DEF F
<1>9. g.block[h.end] = new
  BY <1>4, <1>7, <1>8 DEF F
<1>10. ASSUME NEW c \in DOMAIN h.block
       PROVE  /\ g.block[c] \in Headers
              /\ Kept(h, g, c)
              /\ Links(g.block[c], h.block[c].prev, IF c = last THEN h.end ELSE h.block[c].next)
  <2>1. g.block[c] = IF c = last THEN [h.block[c] EXCEPT !.next = h.end] ELSE h.block[c]
    BY <1>4, <1>7, <1>8 DEF F
  <2>2. h.block[c] \in Headers
    BY <1>2
  <2> QED
    BY <2>1, <2>2, <1>3, <1>8 DEF Headers, Links, Kept
<1>11. Shape(g)
  <2>1. \A c \in DOMAIN g.block : g.block[c] \in Headers
    BY <1>6, <1>8, <1>9, <1>10
  <2>2. g.block = [c \in DOMAIN g.block |-> g.block[c]]
    BY <1>7 DEF F
  <2>3. g.block \in [DOMAIN g.block -> Headers]
    BY <2>1, <2>2
  <2> QED
    BY <2>3, <1>2, <1>3, <1>7, <1>8 DEF Shape
<1>12. /\ After(g, h.end) = e /\ g.block[h.end].prev = last /\ g.block[h.end].next = NULL
       /\ \A c \in DOMAIN h.block :
            /\ After(g, c) = After(h, c)
            /\ g.block[c].prev = h.block[c].prev
            /\ g.block[c].next = IF c = last THEN h.end ELSE h.block[c].next
  BY <1>3, <1>6, <1>9, <1>10 DEF After, Links, Kept, Addresses
<1>13. IF DOMAIN h.block = {} THEN last = NULL
       ELSE /\ last \in DOMAIN h.block /\ After(h, last) = h.end
            /\ \A b \in DOMAIN h.block \ {last} : h.block[b].next # NULL
  BY LastIs DEF last
<1>14. Starts(g)
  BY <1>8 DEF Good, Starts
<1>15. Nexts(g)
  <2> SUFFICES ASSUME NEW c \in DOMAIN g.block
               PROVE  IF g.block[c].next = NULL THEN After(g, c) = g.end
                      ELSE /\ g.block[c].next = After(g, c)
                           /\ g.block[c].next \in DOMAIN g.block
                           /\ g.block[g.block[c].next].prev = c
    BY DEF Nexts
  <2>1. CASE c = h.end
    BY <2>1, <1>7, <1>12
  <2>2. CASE c = last /\ c # h.end
    <3>1. c \in DOMAIN h.block /\ h.end # NULL
      BY <2>2, <1>3, <1>8 DEF NULL, Addresses
    <3> QED
      BY <2>2, <3>1, <1>8, <1>12, <1>13
  <2>3. CASE c # h.end /\ c # last
    <3>1. c \in DOMAIN h.block /\ g.block[c].next = h.block[c].next /\ h.block[c].next # NULL
      BY <2>3, <1>8, <1>12, <1>13
    <3>2. /\ h.block[c].next = After(h, c) /\ h.block[c].next \in DOMAIN h.block
          /\ h.block[h.block[c].next].prev = c
      BY <3>1 DEF Good, Nexts
    <3> QED
      BY <3>1, <3>2, <1>8, <1>12
  <2> QED
    BY <2>1, <2>2, <2>3
<1>16. Prevs(g)
  <2> SUFFICES ASSUME NEW c \in DOMAIN g.block
               PROVE  IF c = 0 THEN g.block[c].prev = NULL
                      ELSE /\ g.block[c].prev \in DOMAIN g.block
                           /\ g.block[g.block[c].prev].next = c
    BY DEF Prevs
  <2>1. CASE c = h.end
    <3>1. c = 0 => DOMAIN h.block = {}
      BY <2>1, <1>2 DEF Addresses
    <3>2. DOMAIN h.block = {} => c = 0
      BY <2>1 DEF Good, Starts
    <3> QED
      BY <2>1, <3>1, <3>2, <1>8, <1>12, <1>13
  <2>2. CASE c # h.end
    <3>1. c \in DOMAIN h.block /\ g.block[c].prev = h.block[c].prev
      BY <2>2, <1>8, <1>12
    <3>2. CASE c = 0
      BY <3>1, <3>2 DEF Good, Prevs
    <3>3. CASE c # 0
      <4>1. h.block[c].prev \in DOMAIN h.block /\ h.block[h.block[c].prev].next = c
        BY <3>1, <3>3 DEF Good, Prevs
      <4>2. h.block[c].prev # last
        <5>1. h.block[last].next = NULL
          BY <4>1, LastIs DEF last
        <5> QED
          BY <4>1, <5>1, <3>1, NextIs
      <4> QED
        BY <4>1, <4>2, <3>1, <3>3, <1>8, <1>12
    <3> QED
      BY <3>2, <3>3
  <2> QED
    BY <2>1, <2>2
<1>17. Apart(g)
  <2> SUFFICES ASSUME NEW c \in DOMAIN g.block, NEW d \in DOMAIN g.block, c < d
               PROVE  After(g, c) <= d
    BY DEF Apart
  <2>1. c \in DOMAIN h.block
    BY <1>2, <1>3, <1>8 DEF Addresses
  <2>2. CASE d = h.end
    BY <2>1, <2>2, <1>2, <1>12
  <2>3. CASE d # h.end
    BY <2>1, <2>3, <1>8, <1>12 DEF Good, Apart
  <2> QED
    BY <2>2, <2>3
<1>18. Below(g)
  BY <1>2, <1>3, <1>7, <1>8, <1>12 DEF Below, Addresses
<1> QED
  BY <1>4, <1>6, <1>8, <1>9, <1>10, <1>11, <1>14, <1>15, <1>16, <1>17, <1>18 DEF Good

(* What is given to process p by a call that splits nothing in the middle: *)
(* no block in use before, and as large as was asked for.                  *)
Given(h, size, p, m) ==
  /\ Good(m.heap)
  /\ \A x \in DOMAIN h.block : h.block[x].used => Kept(h, m.heap, x)
  /\ m.at # NULL =>
       /\ m.at \in DOMAIN m.heap.block
       /\ m.heap.block[m.at].used
       /\ m.heap.block[m.at].pid = p
       /\ m.heap.block[m.at].size \in Nat /\ size <= m.heap.block[m.at].size
       /\ m.at \in DOMAIN h.block => ~h.block[m.at].used

LEMMA BestFits ==
  ASSUME NEW h, Good(h), NEW size \in Nat, block_fits(h, size) # {}
  PROVE  BestFit(h, size) \in block_fits(h, size)
<1> DEFINE fits == block_fits(h, size)
           sizes == {n \in Nat : \E b \in fits : n = h.block[b].size}
<1>1. \A b \in fits : b \in Nat /\ h.block[b].size \in Nat
  BY ListedIsAll DEF block_fits, Good, Shape, Headers, Addresses
<1> HIDE DEF fits
<1>2. PICK n \in sizes : \A k \in sizes : n <= k
  <2>1. sizes # {}
    BY <1>1 DEF fits
  <2> QED
    BY <2>1, MinExists
<1> DEFINE smallest == {b \in fits : h.block[b].size = n}
<1>3. PICK b \in smallest : \A c \in smallest : b <= c
  <2>1. smallest # {} /\ smallest \in SUBSET Nat
    BY <1>1, <1>2
  <2> QED
    BY <2>1, MinExists
<1>4. \A c \in fits : h.block[b].size < h.block[c].size \/ (h.block[b].size = h.block[c].size /\ b <= c)
  <2> SUFFICES ASSUME NEW c \in fits
               PROVE  h.block[b].size < h.block[c].size \/ (h.block[b].size = h.block[c].size /\ b <= c)
    OBVIOUS
  <2>1. n <= h.block[c].size /\ n \in Nat /\ h.block[c].size \in Nat
    BY <1>1, <1>2
  <2> QED
    BY <2>1, <1>3
<1>5. BestFit(h, size) = CHOOSE d \in fits :
         \A c \in fits : h.block[d].size < h.block[c].size \/ (h.block[d].size = h.block[c].size /\ d <= c)
  BY DEF BestFit, fits
<1>6. \E d \in fits : \A c \in fits : h.block[d].size < h.block[c].size
                                      \/ (h.block[d].size = h.block[c].size /\ d <= c)
  BY <1>3, <1>4
<1>7. BestFit(h, size) \in fits
  BY <1>5, <1>6
<1> QED
  BY <1>7 DEF fits

LEMMA MallocGood ==
  ASSUME NEW h, Good(h), NEW size \in Nat, NEW p \in Pids, NEW m, m = f_malloc(h, size, p)
  PROVE  m.split \/ Given(h, size, p, m)
<1>1. CASE block_fits(h, size) # {}
  <2> DEFINE b == BestFit(h, size)
             split == MuchBigger(h, b, size)
             g == IF split THEN split_block(h, b, size) ELSE h
             k == Taken(g, b, p)
  <2>1. m = [heap |-> k, at |-> b, split |-> split /\ h.block[b].next # NULL]
    BY <1>1 DEF f_malloc
  <2>2. b \in DOMAIN h.block /\ ~h.block[b].used /\ size <= h.block[b].size /\ h.block[b].size \in Nat
    BY <1>1, BestFits, ListedIsAll DEF block_fits, Good, Shape, Headers
  <2> HIDE DEF b, split, g, k
  <2>3. m.heap = k /\ m.at = b /\ m.split = (split /\ h.block[b].next # NULL)
    BY <2>1
  <2>4. ASSUME ~m.split
        PROVE  /\ Good(g) /\ b \in DOMAIN g.block /\ g.block[b].size \in Nat /\ size <= g.block[b].size
               /\ \A x \in DOMAIN h.block \ {b} : Kept(h, g, x)
    <3>1. CASE split
      <4>1. h.block[b].next = NULL
        BY <2>3, <2>4, <3>1
      <4>2. g = split_block(h, b, size) /\ MuchBigger(h, b, size)
        BY <3>1 DEF g, split
      <4> QED
        BY <2>2, <4>1, <4>2, SplitGood
    <3>2. CASE ~split
      BY <2>2, <3>2 DEF g, Kept
    <3> QED
      BY <3>1, <3>2
  <2>5. ASSUME ~m.split
        PROVE  /\ Good(k) /\ b \in DOMAIN k.block
               /\ k.block[b].used /\ k.block[b].pid = p /\ k.block[b].size = g.block[b].size
               /\ \A x \in DOMAIN g.block \ {b} : Kept(g, k, x)
    BY <2>4, <2>5, TakenGood DEF k
  <2>6. ASSUME ~m.split, NEW x \in DOMAIN h.block, h.block[x].used PROVE Kept(h, k, x)
    <3>1. Kept(h, g, x) /\ x # b
      BY <2>2, <2>4, <2>6
    <3>2. Kept(g, k, x)
      BY <2>5, <2>6, <3>1 DEF Kept
    <3> QED
      BY <3>1, <3>2 DEF Kept
  <2> QED
    BY <2>2, <2>3, <2>4, <2>5, <2>6 DEF Given
<1>2. CASE block_fits(h, size) = {} /\ CanGrow(h, size)
  <2> DEFINE g == Appended(h, size)
             k == Taken(g, h.end, p)
  <2>1. m = [heap |-> k, at |-> h.end, split |-> FALSE]
    BY <1>2 DEF f_malloc
  <2> HIDE DEF g, k
  <2>2. m.heap = k /\ m.at = h.end
    BY <2>1
  <2>3. /\ Good(g)
        /\ h.end \in DOMAIN g.block \ DOMAIN h.block
        /\ g.block[h.end].size = size
        /\ \A x \in DOMAIN h.block : Kept(h, g, x)
    BY <1>2, AppendGood DEF g
  <2>4. /\ Good(k) /\ DOMAIN k.block = DOMAIN g.block
        /\ k.block[h.end].used /\ k.block[h.end].pid = p /\ k.block[h.end].size = size
        /\ \A x \in DOMAIN g.block \ {h.end} : Kept(g, k, x)
    BY <2>3, TakenGood DEF k
  <2>5. ASSUME NEW x \in DOMAIN h.block PROVE Kept(h, k, x)
    <3>1. Kept(h, g, x) /\ x # h.end
      BY <2>3
    <3>2. Kept(g, k, x)
      BY <2>4, <3>1 DEF Kept
    <3> QED
      BY <3>1, <3>2 DEF Kept
  <2> QED
    BY <2>2, <2>3, <2>4, <2>5 DEF Given
<1>3. CASE block_fits(h, size) = {} /\ ~CanGrow(h, size)
  <2>1. m = [heap |-> h, at |-> NULL, split |-> FALSE]
    BY <1>3 DEF f_malloc
  <2>2. m.heap = h /\ m.at = NULL
    BY <2>1
  <2> QED
    BY <2>2 DEF Given, Kept
<1> QED
  BY <1>1, <1>2, <1>3
-----------------------------------------------------------------------------
(* Once the kernel's pool was charged, it stays so. *)
LEMMA BlocksCharged ==
  ASSUME NEW h, Charged(h), NEW F PROVE Charged(WithBlocks(h, F))
<1>1. PICK B, e : h = [block |-> B, end |-> e, charged |-> TRUE]
  BY DEF Charged
<1>2. PICK g : g = WithBlocks(h, F)
  OBVIOUS
<1>3. g = [[block |-> B, end |-> e, charged |-> TRUE] EXCEPT !.block = F]
  BY <1>1, <1>2 DEF WithBlocks
<1>4. g = [block |-> F, end |-> e, charged |-> TRUE]
  BY <1>3
<1> QED
  BY <1>2, <1>4 DEF Charged

LEMMA MergeCharged ==
  ASSUME NEW h, Charged(h), NEW a, NEW b PROVE Charged(merge_blocks(h, a, b))
BY BlocksCharged DEF merge_blocks, WithBlocks

LEMMA SplitCharged ==
  ASSUME NEW h, Charged(h), NEW b, NEW n PROVE Charged(split_block(h, b, n))
BY BlocksCharged DEF split_block, WithBlocks

LEMMA FreeCharged ==
  ASSUME NEW h, Charged(h), NEW S PROVE Charged(f_free(h, S))
BY BlocksCharged DEF f_free, WithBlocks

LEMMA TakenCharged ==
  ASSUME NEW h, Charged(h), NEW b, NEW p PROVE Charged(Taken(h, b, p))
BY BlocksCharged DEF Taken, WithBlocks

LEMMA EndCharged ==
  ASSUME NEW h, Charged(h), NEW e PROVE Charged([h EXCEPT !.end = e])
<1>1. PICK B, d : h = [block |-> B, end |-> d, charged |-> TRUE]
  BY DEF Charged
<1>2. PICK g : g = [h EXCEPT !.end = e]
  OBVIOUS
<1>3. g = [[block |-> B, end |-> d, charged |-> TRUE] EXCEPT !.end = e]
  BY <1>1, <1>2
<1>4. g = [block |-> B, end |-> e, charged |-> TRUE]
  BY <1>3
<1>5. Charged(g)
  BY <1>4 DEF Charged
<1> QED
  BY <1>2, <1>5, Zenon

LEMMA AppendCharged ==
  ASSUME NEW h, Charged(h), NEW n PROVE Charged(Appended(h, n))
<1> DEFINE last == Last(h)
           F == [c \in DOMAIN h.block \cup {h.end} |->
                   CASE c = h.end -> [prev |-> last, next |-> NULL, size |-> n,
                                      used |-> FALSE, pool |-> "user", pid |-> Kernel]
                     [] c = last -> [h.block[c] EXCEPT !.next = h.end]
                     [] OTHER -> h.block[c]]
           e == h.end + n + Header
<1>1. Appended(h, n) = [h EXCEPT !.end = e, !.block = F]
  BY DEF Appended
<1> HIDE DEF F, e, last
<1>2. Appended(h, n) = WithBlocks([h EXCEPT !.end = e], F)
  BY <1>1 DEF WithBlocks
<1> QED
  BY <1>2, EndCharged, BlocksCharged

LEMMA CompactCharged ==
  ASSUME NEW h, Charged(h), NEW b PROVE Charged(f_compact(h, b))
<1>1. Charged(Cut(h, b))
  BY BlocksCharged DEF Cut, WithBlocks
<1>2. Charged([Cut(h, b) EXCEPT !.charged = TRUE])
  <2>1. PICK B, e : Cut(h, b) = [block |-> B, end |-> e, charged |-> TRUE]
    BY <1>1 DEF Charged
  <2>2. PICK g : g = [Cut(h, b) EXCEPT !.charged = TRUE]
    OBVIOUS
  <2>3. g = [[block |-> B, end |-> e, charged |-> TRUE] EXCEPT !.charged = TRUE]
    BY <2>1, <2>2
  <2>4. g = [block |-> B, end |-> e, charged |-> TRUE]
    BY <2>3
  <2> QED
    BY <2>2, <2>4 DEF Charged
<1>3. Charged([Cut(h, b) EXCEPT !.end = Cut(h, b).end - h.block[b].size - Header])
  BY <1>1, EndCharged
<1> QED
  BY <1>2, <1>3 DEF f_compact

LEMMA RearrangeCharged ==
  ASSUME NEW h, Charged(h), NEW b PROVE Charged(blk_rearrange(h, b))
<1> DEFINE before == h.block[b].prev
           back == before # NULL /\ ~h.block[before].used
           c == IF back THEN before ELSE b
           g == IF back THEN merge_blocks(h, before, b) ELSE h
           after == g.block[c].next
           forth == after # NULL /\ ~g.block[after].used
           k == IF forth THEN merge_blocks(g, c, after) ELSE g
           r == IF k.block[c].next = NULL THEN f_compact(k, c) ELSE k
<1>1. blk_rearrange(h, b) = r
  BY DEF blk_rearrange
<1> HIDE DEF before, back, c, after, forth
<1>2. Charged(g)
  BY MergeCharged
<1>3. Charged(k)
  BY <1>2, MergeCharged
<1>4. Charged(r)
  BY <1>3, CompactCharged
<1> QED
  BY <1>1, <1>4

LEMMA MallocCharged ==
  ASSUME NEW h, Charged(h), NEW size, NEW p PROVE Charged(f_malloc(h, size, p).heap)
<1> DEFINE b == BestFit(h, size)
           g == IF MuchBigger(h, b, size) THEN split_block(h, b, size) ELSE h
<1>1. Charged(Taken(g, b, p))
  <2>1. Charged(g)
    BY SplitCharged
  <2> QED
    BY <2>1, TakenCharged
<1>2. Charged(Taken(Appended(h, size), h.end, p))
  BY AppendCharged, TakenCharged
<1> QED
  BY <1>1, <1>2 DEF f_malloc
-----------------------------------------------------------------------------
(* The end of a process: the loop along the list, one turn after another.  *)
Turn(g, list, a, p) == IF a \in list THEN FreeOf(g, a, p) ELSE g

(* What the loop leaves, from heap h, when process p ends. *)
LeftTo(h, g, p) ==
  /\ Charged(h) => Charged(g)
  /\ \/ Charged(g)
     \/ /\ Good(g)
        /\ \A x \in DOMAIN h.block : h.block[x].used /\ h.block[x].pid # p => Kept(h, g, x)

LEMMA TurnLeaves ==
  ASSUME NEW h, NEW g, NEW p, LeftTo(h, g, p), NEW list, NEW a
  PROVE  LeftTo(h, Turn(g, list, a, p), p)
<1> DEFINE r == blk_rearrange(g, a)
<1>1. CASE ~(a \in list /\ a \in DOMAIN g.block /\ g.block[a].used /\ g.block[a].pid = p)
  BY <1>1 DEF Turn, FreeOf
<1>2. CASE a \in list /\ a \in DOMAIN g.block /\ g.block[a].used /\ g.block[a].pid = p
  <2>1. Turn(g, list, a, p) = r
    BY <1>2 DEF Turn, FreeOf
  <2>2. CASE Charged(g)
    BY <2>1, <2>2, RearrangeCharged DEF LeftTo
  <2>3. CASE ~Charged(g)
    <3>1. Good(g) /\ \A x \in DOMAIN h.block : h.block[x].used /\ h.block[x].pid # p => Kept(h, g, x)
      BY <2>3 DEF LeftTo
    <3>2. Charged(r) \/ (Good(r) /\ KeptBut(g, r, a))
      BY <1>2, <3>1, RearrangeGood
    <3> HIDE DEF r
    <3>3. ASSUME NEW x \in DOMAIN h.block, h.block[x].used, h.block[x].pid # p, KeptBut(g, r, a)
          PROVE  Kept(h, r, x)
      <4>1. Kept(h, g, x)
        BY <3>1, <3>3
      <4>2. Kept(g, r, x)
        BY <1>2, <3>3, <4>1 DEF Kept, KeptBut
      <4> QED
        BY <4>1, <4>2 DEF Kept
    <3> QED
      BY <2>1, <2>3, <3>2, <3>3 DEF LeftTo
  <2> QED
    BY <2>2, <2>3
<1> QED
  BY <1>1, <1>2

LEMMA LoopExists ==
  ASSUME NEW h, NEW p, NEW list, NEW k \in Nat
  PROVE  \E f : f = [a \in 0..k |-> IF a = 0 THEN h ELSE Turn(f[a - 1], list, a - 1, p)]
<1> DEFINE Loop(n, f) == f = [a \in 0..n |-> IF a = 0 THEN h ELSE Turn(f[a - 1], list, a - 1, p)]
           none == {n \in Nat : \A f : ~Loop(n, f)}
<1> SUFFICES ASSUME none # {} PROVE FALSE
  OBVIOUS
<1>1. PICK n \in none : \A i \in none : n <= i
  BY MinExists
<1>2. CASE n = 0
  <2> DEFINE f == [a \in 0..0 |-> h]
  <2>1. Loop(0, f)
    OBVIOUS
  <2> QED
    BY <1>1, <1>2, <2>1
<1>3. CASE n # 0
  <2>1. n - 1 \in Nat \ none
    <3> HIDE DEF none
    <3>1. n \in Nat
      BY <1>1 DEF none
    <3> QED
      BY <1>1, <1>3, <3>1
  <2>2. PICK f : Loop(n - 1, f)
    BY <2>1
  <2> DEFINE g == [a \in 0..n |-> IF a < n THEN f[a] ELSE Turn(f[n - 1], list, n - 1, p)]
  <2>3. ASSUME NEW a \in 0..n PROVE g[a] = IF a = 0 THEN h ELSE Turn(g[a - 1], list, a - 1, p)
    <3>1. CASE a = n
      BY <3>1, <1>3
    <3>2. CASE a # n
      <4>1. a \in 0..(n - 1) /\ g[a] = f[a]
        BY <1>1, <3>2
      <4>2. f[a] = IF a = 0 THEN h ELSE Turn(f[a - 1], list, a - 1, p)
        BY <2>2, <4>1
      <4>3. a # 0 => g[a - 1] = f[a - 1]
        BY <1>1, <4>1
      <4> QED
        BY <4>1, <4>2, <4>3
    <3> QED
      BY <3>1, <3>2
  <2>4. Loop(n, g)
    <3>1. g = [a \in 0..n |-> g[a]]
      OBVIOUS
    <3> HIDE DEF g
    <3> QED
      BY <2>3, <3>1
  <2> QED
    BY <1>1, <2>4
<1> QED
  BY <1>2, <1>3

LEMMA HeapFreeLeaves ==
  ASSUME NEW h, NEW p, Good(h) \/ Charged(h)
  PROVE  LeftTo(h, f_proc_heap_free(h, p), p)
<1> DEFINE list == Listed(h)
           upto == CHOOSE f : f = [a \in 0..PoolEnd |->
                     IF a = 0 THEN h
                     ELSE IF a - 1 \in list THEN FreeOf(f[a - 1], a - 1, p) ELSE f[a - 1]]
<1>1. f_proc_heap_free(h, p) = upto[PoolEnd]
  BY DEF f_proc_heap_free
<1>2. upto = [a \in 0..PoolEnd |-> IF a = 0 THEN h ELSE Turn(upto[a - 1], list, a - 1, p)]
  BY LoopExists DEF Turn
<1> HIDE DEF upto, list
<1> DEFINE bad == {a \in Nat : a \in 0..PoolEnd /\ ~LeftTo(h, upto[a], p)}
<1>3. bad = {}
  <2> SUFFICES ASSUME bad # {} PROVE FALSE
    OBVIOUS
  <2>1. PICK a \in bad : \A i \in bad : a <= i
    BY MinExists
  <2>2. a # 0
    BY <1>2, <2>1, Zenon DEF LeftTo, Kept
  <2>3. a - 1 \in 0..PoolEnd /\ a - 1 \notin bad
    BY <2>1, <2>2
  <2>4. LeftTo(h, upto[a - 1], p)
    BY <2>3
  <2>5. upto[a] = Turn(upto[a - 1], list, a - 1, p)
    BY <1>2, <2>1, <2>2
  <2> QED
    BY <2>1, <2>4, <2>5, TurnLeaves
<1> QED
  BY <1>1, <1>3
-----------------------------------------------------------------------------
(* What processes hold is in blocks of their own. *)
Owned(h, x) ==
  /\ x.at \in DOMAIN h.block
  /\ h.block[x.at].used
  /\ h.block[x.at].pid = x.pid
  /\ x.size <= h.block[x.at].size

Owners(h, given) ==
  /\ given \subseteq [at : Addresses, size : Sizes, pid : Pids]
  /\ \A x \in given : Owned(h, x)
  /\ \A x, y \in given : x.at = y.at => x = y

(* The inductive invariant: a list that was not damaged is sound, and what *)
(* was damaged stays so.                                                   *)
MallocInv ==
  /\ midSplit \in BOOLEAN
  /\ ~midSplit => charged \in BOOLEAN
  /\ Sound => Good(Heap) /\ Owners(Heap, held)

(* Heap h, and what processes hold in it, as a call leaves them. *)
LeftSound(h, given) == Charged(h) \/ (Good(h) /\ Owners(h, given))

LEMMA StateAfter ==
  ASSUME NEW h, SetHeap(h), LeftSound(h, held'), midSplit' \in BOOLEAN
  PROVE  MallocInv'
<1>1. Heap' = [block |-> h.block, end |-> h.end, charged |-> h.charged]
  BY DEF SetHeap, Heap
<1>2. CASE Charged(h)
  <2>1. h.charged = TRUE
    BY <1>2 DEF Charged
  <2> QED
    BY <2>1 DEF SetHeap, MallocInv, Sound
<1>3. CASE Good(h) /\ Owners(h, held')
  <2>1. h = [block |-> h.block, end |-> h.end, charged |-> FALSE]
    BY <1>3 DEF Good, Shape
  <2>2. h.charged = FALSE
    BY <2>1
  <2>3. Heap' = h
    BY <1>1, <2>1, <2>2
  <2>4. Good(Heap)' /\ Owners(Heap, held)'
    BY <1>3, <2>3, Zenon
  <2> QED
    BY <2>2, <2>4 DEF SetHeap, MallocInv
<1> QED
  BY <1>2, <1>3 DEF LeftSound

LEMMA OwnedKept ==
  ASSUME NEW h, NEW g, NEW x, Owned(h, x), Kept(h, g, x.at) PROVE Owned(g, x)
BY DEF Owned, Kept

LEMMA HeapNow ==
  ASSUME MallocInv, ~midSplit
  PROVE  Charged(Heap) \/ (Good(Heap) /\ Owners(Heap, held))
<1>1. CASE charged = TRUE
  <2>1. Heap = [block |-> block, end |-> end, charged |-> TRUE]
    BY <1>1 DEF Heap
  <2>2. Heap.block = block /\ Heap.end = end
    BY DEF Heap
  <2> QED
    BY <2>1, <2>2 DEF Charged
<1>2. CASE charged = FALSE
  BY <1>2 DEF MallocInv, Sound
<1> QED
  BY <1>1, <1>2 DEF MallocInv

(* Freeing what x names and rearranging its surroundings. *)
LEMMA FreedOwners ==
  ASSUME NEW h, Good(h), NEW given, Owners(h, given), NEW x \in given,
         NEW r, r = blk_rearrange(f_free(h, {x.at}), x.at)
  PROVE  Charged(r) \/ (Good(r) /\ Owners(r, given \ {x}))
<1> DEFINE g == f_free(h, {x.at})
<1>1. /\ Good(g) /\ DOMAIN g.block = DOMAIN h.block
      /\ \A b \in DOMAIN h.block \ {x.at} : Kept(h, g, b)
  BY FreeGood
<1> HIDE DEF g
<1>2. x.at \in DOMAIN g.block
  BY <1>1 DEF Owners, Owned
<1>3. r = blk_rearrange(g, x.at)
  BY DEF g
<1>4. Charged(r) \/ (Good(r) /\ KeptBut(g, r, x.at))
  BY <1>1, <1>2, <1>3, RearrangeGood
<1>5. ASSUME KeptBut(g, r, x.at) PROVE Owners(r, given \ {x})
  <2>1. ASSUME NEW y \in given \ {x} PROVE Owned(r, y)
    <3>1. Owned(h, y) /\ y.at # x.at
      BY DEF Owners
    <3>2. Owned(g, y)
      BY <1>1, <3>1, OwnedKept DEF Owned
    <3>3. Kept(g, r, y.at)
      BY <1>5, <3>1, <3>2 DEF KeptBut, Owned
    <3> QED
      BY <3>2, <3>3, OwnedKept
  <2> QED
    BY <2>1 DEF Owners
<1> QED
  BY <1>4, <1>5

LEMMA FreedCharged ==
  ASSUME NEW h, Charged(h), NEW b PROVE Charged(blk_rearrange(f_free(h, {b}), b))
BY FreeCharged, RearrangeCharged

LEMMA GivenOwners ==
  ASSUME NEW h, NEW given, Owners(h, given), NEW size \in Sizes, NEW p \in Pids, NEW m,
         Given(h, size, p, m), m.at # NULL
  PROVE  /\ Owners(m.heap, given \cup {[at |-> m.at, size |-> size, pid |-> p]})
         /\ \A x \in given : x.at # m.at
<1> DEFINE n == [at |-> m.at, size |-> size, pid |-> p]
<1>1. \A x \in given : x.at # m.at /\ Owned(m.heap, x)
  <2> SUFFICES ASSUME NEW x \in given PROVE x.at # m.at /\ Owned(m.heap, x)
    OBVIOUS
  <2>1. Owned(h, x)
    BY DEF Owners
  <2>2. Kept(h, m.heap, x.at) /\ x.at # m.at
    BY <2>1 DEF Given, Owned
  <2> QED
    BY <2>1, <2>2, OwnedKept
<1>2. n.at = m.at /\ n.size = size /\ n.pid = p
  OBVIOUS
<1>3. n \in [at : Addresses, size : Sizes, pid : Pids]
  BY DEF Given, Good, Shape
<1> HIDE DEF n
<1>4. Owned(m.heap, n)
  BY <1>2 DEF Owned, Given
<1>5. Owners(m.heap, given \cup {n})
  BY <1>1, <1>2, <1>3, <1>4 DEF Owners
<1> QED
  BY <1>1, <1>5 DEF n

LEMMA MallocNext ==
  ASSUME MallocInv, [Next]_vars PROVE MallocInv'
<1>0. midSplit \in BOOLEAN
  BY DEF MallocInv
<1>1. CASE UNCHANGED vars
  BY <1>1 DEF vars, MallocInv, Sound, Heap
<1>2. ASSUME NEW p \in Pids, NEW size \in Sizes, sys_malloc_hdlr(p, size) PROVE MallocInv'
  <2> DEFINE m == f_malloc(Heap, size, p)
  <2>1. /\ SetHeap(m.heap)
        /\ held' = IF m.at = NULL THEN held ELSE held \cup {[at |-> m.at, size |-> size, pid |-> p]}
        /\ midSplit' = (midSplit \/ m.split)
    BY <1>2 DEF sys_malloc_hdlr
  <2>2. size \in Nat
    BY SizesAssumption
  <2>3. CASE midSplit'
    BY <2>1, <2>3 DEF MallocInv, Sound
  <2>4. CASE ~midSplit'
    <3>1. ~midSplit /\ ~m.split
      BY <2>1, <2>4
    <3>2. CASE Charged(Heap)
      <4>1. Charged(m.heap)
        BY <3>2, MallocCharged
      <4> QED
        BY <2>1, <2>4, <4>1, StateAfter DEF LeftSound
    <3>3. CASE Good(Heap) /\ Owners(Heap, held)
      <4>1. Given(Heap, size, p, m)
        BY <2>2, <3>1, <3>3, MallocGood
      <4> HIDE DEF m
      <4>2. Owners(m.heap, held')
        <5>1. CASE m.at = NULL
          <6>1. \A x \in held : Owned(m.heap, x)
            BY <3>3, <4>1, OwnedKept DEF Owners, Owned, Given
          <6> QED
            BY <2>1, <3>3, <5>1, <6>1 DEF Owners
        <5>2. CASE m.at # NULL
          BY <2>1, <3>3, <4>1, <5>2, GivenOwners
        <5> QED
          BY <5>1, <5>2
      <4>3. Good(m.heap)
        BY <4>1 DEF Given
      <4> QED
        BY <2>1, <2>4, <4>2, <4>3, StateAfter DEF LeftSound
    <3> QED
      BY <3>1, <3>2, <3>3, HeapNow
  <2>5. midSplit' \in BOOLEAN
    BY <2>1
  <2> QED
    BY <2>3, <2>4, <2>5
<1>3. ASSUME NEW p \in Pids, sys_free_hdlr(p) PROVE MallocInv'
  <2>1. PICK x \in held : /\ SetHeap(blk_rearrange(f_free(Heap, {x.at}), x.at))
                          /\ held' = held \ {x}
                          /\ UNCHANGED midSplit
    BY <1>3 DEF sys_free_hdlr
  <2>2. CASE midSplit
    BY <2>1, <2>2 DEF MallocInv, Sound
  <2>3. CASE ~midSplit
    <3>1. LeftSound(blk_rearrange(f_free(Heap, {x.at}), x.at), held')
      BY <2>1, <2>3, HeapNow, FreedOwners, FreedCharged DEF LeftSound
    <3> QED
      BY <1>0, <2>1, <2>3, <3>1, StateAfter
  <2> QED
    BY <2>2, <2>3 DEF MallocInv
<1>4. ASSUME NEW p \in Pids, NEW size \in Sizes, sys_realloc_hdlr(p, size) PROVE MallocInv'
  <2> DEFINE m == f_malloc(Heap, size, p)
  <2>1. PICK x \in held :
          /\ x.pid = p
          /\ IF size <= block[x.at].size
             THEN /\ held' = (held \ {x}) \cup {[x EXCEPT !.size = size]}
                  /\ UNCHANGED <<block, end, charged, midSplit>>
             ELSE IF m.at = NULL
                  THEN UNCHANGED vars
                  ELSE /\ SetHeap(blk_rearrange(f_free(m.heap, {x.at}), x.at))
                       /\ held' = (held \ {x}) \cup {[at |-> m.at, size |-> size, pid |-> p]}
                       /\ midSplit' = (midSplit \/ m.split)
    BY <1>4 DEF sys_realloc_hdlr
  <2>2. size \in Nat
    BY SizesAssumption
  <2> HIDE DEF m
  <2>3. CASE size <= block[x.at].size
    <3>1. held' = (held \ {x}) \cup {[x EXCEPT !.size = size]} /\ UNCHANGED <<block, end, charged, midSplit>>
      BY <2>1, <2>3
    <3>2. Heap' = Heap /\ Heap.block = block
      BY <3>1 DEF Heap
    <3>3. ASSUME Good(Heap), Owners(Heap, held) PROVE Owners(Heap, held')
      <4> DEFINE n == [x EXCEPT !.size = size]
      <4>1. n \in [at : Addresses, size : Sizes, pid : Pids] /\ n.at = x.at /\ n.pid = x.pid /\ n.size = size
        BY <3>3 DEF Owners
      <4> HIDE DEF n
      <4>2. Owned(Heap, n)
        BY <2>3, <3>2, <3>3, <4>1 DEF Owners, Owned
      <4>3. held' = (held \ {x}) \cup {n}
        BY <3>1 DEF n
      <4> QED
        BY <3>3, <4>1, <4>2, <4>3 DEF Owners
    <3>4. Sound' => Sound
      BY <3>1 DEF Sound
    <3>5. Sound => Good(Heap) /\ Owners(Heap, held')
      BY <3>3 DEF MallocInv
    <3>6. Sound' => (Good(Heap) /\ Owners(Heap, held))'
      BY <3>2, <3>4, <3>5, Zenon
    <3> QED
      BY <3>1, <3>6 DEF MallocInv
  <2>4. CASE ~(size <= block[x.at].size) /\ m.at = NULL
    <3>1. UNCHANGED vars
      BY <2>1, <2>4
    <3> QED
      BY <3>1 DEF vars, MallocInv, Sound, Heap
  <2>5. CASE ~(size <= block[x.at].size) /\ m.at # NULL
    <3> DEFINE n == [at |-> m.at, size |-> size, pid |-> p]
    <3>1. /\ SetHeap(blk_rearrange(f_free(m.heap, {x.at}), x.at))
          /\ held' = (held \ {x}) \cup {n}
          /\ midSplit' = (midSplit \/ m.split)
      BY <2>1, <2>5
    <3>2. CASE midSplit'
      BY <3>1, <3>2 DEF MallocInv, Sound
    <3>3. CASE ~midSplit'
      <4>1. ~midSplit /\ ~m.split
        BY <3>1, <3>3
      <4>2. CASE Charged(Heap)
        <5>1. Charged(m.heap)
          BY <4>2, MallocCharged DEF m
        <5> QED
          BY <3>1, <3>3, <5>1, FreedCharged, StateAfter DEF LeftSound
      <4>3. CASE Good(Heap) /\ Owners(Heap, held)
        <5>1. Given(Heap, size, p, m)
          BY <2>2, <4>1, <4>3, MallocGood DEF m
        <5>2. Owners(m.heap, held \cup {n}) /\ \A y \in held : y.at # m.at
          BY <2>5, <4>3, <5>1, GivenOwners
        <5>3. n.at = m.at
          OBVIOUS
        <5> HIDE DEF n
        <5>4. (held \cup {n}) \ {x} = (held \ {x}) \cup {n}
          BY <5>2, <5>3
        <5> DEFINE r == blk_rearrange(f_free(m.heap, {x.at}), x.at)
                   all == held \cup {n}
        <5>5. Charged(r) \/ (Good(r) /\ Owners(r, all \ {x}))
          <6>1. x \in all /\ Good(m.heap) /\ Owners(m.heap, all)
            BY <5>1, <5>2 DEF Given
          <6> HIDE DEF all
          <6> QED
            BY <6>1, FreedOwners
        <5>6. LeftSound(r, held')
          BY <3>1, <5>4, <5>5 DEF LeftSound
        <5> QED
          BY <3>1, <3>3, <5>6, StateAfter
      <4> QED
        BY <4>1, <4>2, <4>3, HeapNow
    <3>4. midSplit' \in BOOLEAN
      BY <3>1
    <3> QED
      BY <3>2, <3>3, <3>4
  <2> QED
    BY <2>3, <2>4, <2>5
<1>5. ASSUME NEW p \in Pids, task_destroy(p) PROVE MallocInv'
  <2>1. PICK image \in SUBSET {x \in held : x.pid = p} :
          /\ SetHeap(f_proc_heap_free(f_free(Heap, {x.at : x \in image}), p))
          /\ held' = {x \in held : x.pid # p}
          /\ UNCHANGED midSplit
    BY <1>5 DEF task_destroy
  <2> DEFINE S == {x.at : x \in image}
             g == f_free(Heap, S)
             r == f_proc_heap_free(g, p)
  <2>2. CASE midSplit
    BY <2>1, <2>2 DEF MallocInv, Sound
  <2>3. CASE ~midSplit /\ Charged(Heap)
    <3>1. Charged(g)
      BY <2>3, FreeCharged
    <3>2. LeftTo(g, r, p)
      BY <3>1, HeapFreeLeaves
    <3> HIDE DEF g, r
    <3>3. Charged(r)
      BY <3>1, <3>2 DEF LeftTo
    <3>4. SetHeap(r)
      BY <2>1 DEF r, g
    <3> QED
      BY <1>0, <2>1, <2>3, <3>3, <3>4, StateAfter DEF LeftSound
  <2>4. CASE ~midSplit /\ Good(Heap) /\ Owners(Heap, held)
    <3>1. /\ Good(g) /\ DOMAIN g.block = DOMAIN Heap.block
          /\ \A b \in DOMAIN Heap.block \ S : Kept(Heap, g, b)
      BY <2>4, FreeGood
    <3>2. LeftTo(g, r, p)
      BY <3>1, HeapFreeLeaves
    <3>3. ASSUME NEW x \in held, x.pid # p PROVE Owned(g, x)
      <4>1. Owned(Heap, x)
        BY <2>4 DEF Owners
      <4>2. x.at \notin S
        BY <2>1, <2>4, <3>3 DEF Owners
      <4> QED
        BY <3>1, <4>1, <4>2, OwnedKept DEF Owned
    <3> HIDE DEF g, r
    <3>4. ASSUME Good(r), \A b \in DOMAIN g.block : g.block[b].used /\ g.block[b].pid # p => Kept(g, r, b)
          PROVE  Owners(r, held')
      <4>1. \A x \in held' : Owned(r, x)
        BY <2>1, <3>3, <3>4, OwnedKept DEF Owned
      <4> QED
        BY <2>1, <2>4, <4>1 DEF Owners
    <3>5. LeftSound(r, held')
      BY <3>2, <3>4 DEF LeftTo, LeftSound
    <3>6. SetHeap(r)
      BY <2>1 DEF r, g
    <3> QED
      BY <1>0, <2>1, <2>4, <3>5, <3>6, StateAfter
  <2> QED
    BY <2>1, <2>2, <2>3, <2>4, HeapNow DEF MallocInv
<1> QED
  BY <1>1, <1>2, <1>3, <1>4, <1>5 DEF Next

(* What the model's operators keep, every reachable heap has.              *)
LEMMA MallocInvHolds == Spec => []MallocInv
<1>1. Init => MallocInv
  <2> SUFFICES ASSUME Init PROVE MallocInv
    OBVIOUS
  <2>1. /\ block = <<>> /\ end = 0 /\ charged = FALSE /\ held = {} /\ midSplit = FALSE
    BY DEF Init
  <2>2. /\ Heap = [block |-> block, end |-> end, charged |-> FALSE]
        /\ Heap.block = block /\ Heap.end = 0
    BY <2>1 DEF Heap
  <2>3. DOMAIN block = {}
    BY <2>1
  <2>4. Shape(Heap)
    <3>1. block \in [DOMAIN block -> Headers]
      BY <2>1, <2>3
    <3>2. 0 \in Addresses
      BY DEF Addresses
    <3> QED
      BY <2>2, <2>3, <3>1, <3>2 DEF Shape
  <2>5. Good(Heap)
    BY <2>2, <2>3, <2>4 DEF Good, Starts, Nexts, Prevs, Apart, Below
  <2> QED
    BY <2>1, <2>5 DEF MallocInv, Owners
<1> QED
  BY <1>1, MallocNext, PTL DEF Spec

(* Until the list is damaged, it has its types, and so has what processes  *)
(* hold.                                                                   *)
THEOREM TypeCorrect == Spec => [](Sound => TypeOK)
<1>1. MallocInv => (Sound => TypeOK)
  <2> SUFFICES ASSUME MallocInv, Sound PROVE TypeOK
    OBVIOUS
  <2>1. Good(Heap) /\ Owners(Heap, held) /\ Heap.block = block /\ Heap.end = end
    BY DEF MallocInv, Heap
  <2>2. midSplit \in BOOLEAN /\ charged \in BOOLEAN
    BY DEF MallocInv, Sound
  <2> QED
    BY <2>1, <2>2 DEF TypeOK, Good, Shape, Owners
<1> QED
  BY <1>1, MallocInvHolds, PTL

(* Until the list is damaged, its blocks tile the pool from its start to   *)
(* heap_end_user, whatever blk_rearrange merges and f_compact cuts off.    *)
THEOREM TiledHolds == Spec => []Tiled
<1>1. MallocInv => Tiled
  <2> SUFFICES ASSUME MallocInv, Sound
               PROVE  /\ AlwaysAdjacent
                      /\ Listed(Heap) = DOMAIN block
                      /\ \A b \in DOMAIN block : block[b].next = NULL => b + Header + block[b].size = end
    BY DEF Tiled
  <2>1. Good(Heap) /\ Heap.block = block /\ Heap.end = end
    BY DEF MallocInv, Heap
  <2>2. Listed(Heap) = DOMAIN block
    BY <2>1, ListedIsAll
  <2>3. ASSUME NEW b \in DOMAIN block PROVE Adjacent(b)
    <3>1. block[b].next # NULL => block[b].next = b + Header + block[b].size
      BY <2>1 DEF Good, Nexts, After
    <3>2. block[b].prev # NULL => block[b].prev \in DOMAIN block /\ block[block[b].prev].next = b
      BY <2>1 DEF Good, Prevs
    <3> QED
      BY <3>1, <3>2 DEF Adjacent
  <2>4. \A b \in DOMAIN block : block[b].next = NULL => b + Header + block[b].size = end
    BY <2>1 DEF Good, Nexts, After
  <2> QED
    BY <2>2, <2>3, <2>4 DEF AlwaysAdjacent
<1> QED
  BY <1>1, MallocInvHolds, PTL

(* Until the list is damaged, no two processes hold the same word, and     *)
(* what they hold is theirs to free and below heap_end_user.               *)
THEOREM NeverSharedHolds == Spec => []NeverShared
<1>1. MallocInv => NeverShared
  <2> SUFFICES ASSUME MallocInv, Sound
               PROVE  /\ \A x, y \in held : x # y => Data(x) \cap Data(y) = {}
                      /\ \A x \in held :
                           /\ Data(x) \subseteq 0..end - 1
                           /\ x.at \in DOMAIN block
                           /\ block[x.at].used /\ block[x.at].pid = x.pid /\ block[x.at].size >= x.size
    BY DEF NeverShared
  <2>1. Good(Heap) /\ Owners(Heap, held) /\ Heap.block = block /\ Heap.end = end
    BY DEF MallocInv, Heap
  <2>2. ASSUME NEW x \in held
        PROVE  /\ x.at \in DOMAIN block /\ x.at \in Nat /\ x.size \in Nat
               /\ block[x.at].used /\ block[x.at].pid = x.pid /\ block[x.at].size >= x.size
               /\ x.at + Header + x.size <= After(Heap, x.at)
               /\ After(Heap, x.at) <= end
               /\ After(Heap, x.at) \in Nat /\ end \in Nat
    <3>1. Owned(Heap, x) /\ x \in [at : Addresses, size : Sizes, pid : Pids]
      BY <2>1 DEF Owners
    <3>2. x.at \in Nat /\ x.size \in Nat
      <4>1. x.at \in Addresses /\ x.size \in Sizes
        BY <3>1
      <4>2. x.at \in Nat
        BY <4>1, PoolEndAssumption DEF Addresses
      <4>3. x.size \in Nat
        BY <4>1, SizesAssumption
      <4> QED
        BY <4>2, <4>3
    <3>3. /\ x.at \in DOMAIN block /\ block[x.at].used /\ block[x.at].pid = x.pid
          /\ x.size <= block[x.at].size /\ block[x.at].size \in Nat /\ end \in Nat
      BY <2>1, <3>1 DEF Owned, Good, Shape, Headers, Addresses
    <3>4. After(Heap, x.at) = x.at + Header + block[x.at].size /\ After(Heap, x.at) <= end
      BY <2>1, <3>3 DEF Good, Below, After
    <3> QED
      BY <3>2, <3>3, <3>4
  <2>3. ASSUME NEW x \in held, NEW y \in held, x # y PROVE Data(x) \cap Data(y) = {}
    <3>1. x.at # y.at
      BY <2>1, <2>3 DEF Owners
    <3>2. CASE x.at < y.at
      <4>1. After(Heap, x.at) <= y.at
        BY <2>1, <2>2, <3>2 DEF Good, Apart
      <4>2. x.at + Header + x.size <= y.at
        BY <2>2, <4>1
      <4> QED
        BY <2>2, <4>2 DEF Data
    <3>3. CASE y.at < x.at
      <4>1. After(Heap, y.at) <= x.at
        BY <2>1, <2>2, <3>3 DEF Good, Apart
      <4>2. y.at + Header + y.size <= x.at
        BY <2>2, <4>1
      <4> QED
        BY <2>2, <4>2 DEF Data
    <3> QED
      BY <2>2, <3>1, <3>2, <3>3
  <2>4. ASSUME NEW x \in held PROVE Data(x) \subseteq 0..end - 1
    BY <2>2 DEF Data
  <2> QED
    BY <2>2, <2>3, <2>4
<1> QED
  BY <1>1, MallocInvHolds, PTL
=============================================================================
