----------------------------- MODULE FilesProofs -----------------------------
(***************************************************************************)
(* Theorems about Files, for any number of processes, files and pipes, and *)
(* every program.                                                          *)
(***************************************************************************)
EXTENDS Files, FiniteSetTheorems, SequenceTheorems, WellFoundedInduction, TLAPS

(* A non-empty set of naturals has a least element, and Min returns it. *)
LEMMA MinExists ==
  ASSUME NEW S \in SUBSET Nat, S # {}
  PROVE  Min(S) \in S /\ \A y \in S : Min(S) <= y
<1>1. PICK x \in S : \A y \in S : ~(<<y, x>> \in OpToRel(<, Nat))
  BY NatLessThanWellFounded, WFMin
<1>2. ASSUME NEW y \in S PROVE ~(y < x)
  <2>1. SUFFICES ASSUME y < x PROVE FALSE
    OBVIOUS
  <2>2. <<y, x>> \in Nat \X Nat
    OBVIOUS
  <2>3. <<y, x>>[1] < <<y, x>>[2]
    BY <2>1
  <2>4. <<y, x>> \in OpToRel(<, Nat)
    BY <2>2, <2>3, Zenon DEF OpToRel
  <2> QED BY <1>1, <2>4, Zenon
<1>3. \A y \in S : x <= y
  BY <1>2
<1> QED BY <1>3 DEF Min

(* The lesser of two numbers. *)
LEMMA MinOfTwo ==
  ASSUME NEW a \in Int, NEW b \in Int
  PROVE  Min({a, b}) = IF a <= b THEN a ELSE b
<1> DEFINE m == IF a <= b THEN a ELSE b
<1>1. m \in {a, b} /\ \A y \in {a, b} : m <= y
  OBVIOUS
<1>2. Min({a, b}) \in {a, b} /\ \A y \in {a, b} : Min({a, b}) <= y
  BY <1>1 DEF Min
<1> QED BY <1>2

(* The least number of an interval. *)
LEMMA MinOfInterval ==
  ASSUME NEW a \in Nat, NEW b \in Int, a <= b
  PROVE  Min(a..b) = a
<1>1. a..b \in SUBSET Nat /\ a \in a..b
  OBVIOUS
<1>2. Min(a..b) \in a..b /\ \A y \in a..b : Min(a..b) <= y
  BY <1>1, MinExists
<1> QED BY <1>1, <1>2
-----------------------------------------------------------------------------
(* Descriptor tables.                                                      *)
Entry == Node \cup {NULL}
Tables == {F \in [Proc -> Seq(Entry)] : \A p \in Proc : Len(F[p]) <= MaxFd}

(* The descriptors of node n when the tables are F. *)
Desc(F, n) == {d \in Proc \X (1..MaxFd) : d[2] \in DOMAIN F[d[1]] /\ F[d[1]][d[2]] = n}

LEMMA DescIsDescriptors ==
  /\ \A n : Descriptors(n) = Desc(fds, n)
  /\ \A n : Descriptors(n)' = Desc(fds', n)
BY DEF Descriptors, Desc, Places

(* The places of a table that name n. *)
At(T, n) == {i \in DOMAIN T : T[i] = n}

(* They are finitely many. *)
LEMMA DescFinite ==
  ASSUME NEW F, NEW n
  PROVE  /\ IsFiniteSet(Desc(F, n)) /\ Cardinality(Desc(F, n)) \in Nat
         /\ Cardinality(Desc(F, n)) = 0 <=> Desc(F, n) = {}
<1>1. IsFiniteSet(Proc \X (1..MaxFd))
  <2>1. IsFiniteSet(1..MaxFd)
    BY BoundsAssumption, FS_Interval
  <2> QED BY ProcAssumption, <2>1, FS_Product
<1>2. Desc(F, n) \subseteq Proc \X (1..MaxFd)
  BY DEF Desc
<1> QED BY <1>1, <1>2, FS_Subset, FS_CardinalityType, FS_EmptySet

(* The places of a table are descriptors. *)
LEMMA PlaceIsDesc ==
  ASSUME NEW F \in Tables, NEW p \in Proc, NEW i \in DOMAIN F[p]
  PROVE  <<p, i>> \in Desc(F, F[p][i]) /\ i \in 1..MaxFd
<1>1. F[p] \in Seq(Entry) /\ Len(F[p]) <= MaxFd /\ MaxFd \in Nat
  BY BoundsAssumption DEF Tables
<1>2. i \in 1..MaxFd
  BY <1>1
<1> QED BY <1>2 DEF Desc

(* That no table names a node outside L is a matter of descriptors. *)
LEMMA AllLiveMeans ==
  ASSUME NEW F \in Tables, NEW L
  PROVE  (\A p \in Proc : ToSet(F[p]) \subseteq L \cup {NULL}) <=> (\A n \in Node \ L : Desc(F, n) = {})
<1>1. ASSUME \A p \in Proc : ToSet(F[p]) \subseteq L \cup {NULL}, NEW n \in Node \ L, NEW d \in Desc(F, n)
      PROVE  FALSE
  <2>1. d[1] \in Proc /\ d[2] \in DOMAIN F[d[1]] /\ F[d[1]][d[2]] = n
    BY DEF Desc
  <2>2. n \in ToSet(F[d[1]])
    BY <2>1 DEF ToSet
  <2> QED BY <1>1, <2>1, <2>2, NodeAssumption
<1>2. ASSUME \A n \in Node \ L : Desc(F, n) = {}, NEW p \in Proc, NEW m \in ToSet(F[p])
      PROVE  m \in L \cup {NULL}
  <2>1. PICK i \in DOMAIN F[p] : m = F[p][i]
    BY DEF ToSet
  <2>2. m \in Entry
    BY <2>1 DEF Tables
  <2>3. Desc(F, m) # {}
    BY <2>1, PlaceIsDesc
  <2> QED BY <1>2, <2>2, <2>3 DEF Entry
<1> QED BY <1>1, <1>2

(* The place that task_filedesc_add_to_task takes was free, or is new. *)
LEMMA AddedFacts ==
  ASSUME NEW tab \in Seq(Entry), NEW n \in Node
  PROVE  /\ Added(tab, n) \in Seq(Entry)
         /\ Len(tab) <= Len(Added(tab, n))
         /\ \E c \in DOMAIN Added(tab, n) :
              /\ c \in DOMAIN tab => tab[c] = NULL
              /\ DOMAIN Added(tab, n) = DOMAIN tab \cup {c}
              /\ \A i \in DOMAIN Added(tab, n) : Added(tab, n)[i] = IF i = c THEN n ELSE tab[i]
<1> DEFINE I == {i \in 1..Len(tab) : tab[i] = NULL}
<1>1. n \in Entry /\ Len(tab) \in Nat /\ DOMAIN tab = 1..Len(tab)
  BY DEF Entry
<1>2. CASE NULL \in ToSet(tab)
  <2>1. I \in SUBSET Nat /\ I # {}
    BY <1>1, <1>2 DEF ToSet
  <2>2. Min(I) \in I
    BY <2>1, MinExists
  <2>3. SelectInSeq(tab, LAMBDA m : m = NULL) = Min(I)
    BY <2>1 DEF SelectInSeq
  <2>4. PICK c : c = Min(I)
    OBVIOUS
  <2>5. Added(tab, n) = [tab EXCEPT ![c] = n]
    BY <1>2, <2>3, <2>4 DEF Added
  <2>6. c \in 1..Len(tab) /\ tab[c] = NULL
    BY <2>2, <2>4
  <2>7. [tab EXCEPT ![c] = n] \in Seq(Entry) /\ Len([tab EXCEPT ![c] = n]) = Len(tab)
    BY <1>1, <2>6
  <2> HIDE DEF I, Entry
  <2>8. DOMAIN Added(tab, n) = DOMAIN tab \cup {c}
    BY <1>1, <2>5, <2>6
  <2> QED BY <1>1, <2>5, <2>6, <2>7, <2>8
<1>3. CASE NULL \notin ToSet(tab)
  <2>1. Added(tab, n) = Append(tab, n)
    BY <1>3 DEF Added
  <2>2. /\ Append(tab, n) \in Seq(Entry) /\ Len(Append(tab, n)) = Len(tab) + 1
        /\ DOMAIN Append(tab, n) = 1..Len(tab) + 1
        /\ \A i \in 1..Len(tab) + 1 : Append(tab, n)[i] = IF i = Len(tab) + 1 THEN n ELSE tab[i]
    BY <1>1
  <2>3. 1..Len(tab) + 1 = DOMAIN tab \cup {Len(tab) + 1} /\ Len(tab) + 1 \notin DOMAIN tab
    BY <1>1
  <2> QED BY <1>1, <2>1, <2>2, <2>3
<1> QED BY <1>2, <1>3

(* Tables G are F with one more descriptor, of node m. *)
AddsOne(F, G, m) ==
  /\ G \in Tables
  /\ \E d : /\ \A n \in Node : d \notin Desc(F, n)
            /\ \A n \in Node : Desc(G, n) = IF n = m THEN Desc(F, n) \cup {d} ELSE Desc(F, n)

LEMMA AddedAddsOne ==
  ASSUME NEW F \in Tables, NEW p \in Proc, NEW m \in Node, NEW G, G = [F EXCEPT ![p] = Added(F[p], m)],
         Len(G[p]) <= MaxFd
  PROVE  AddsOne(F, G, m)
<1>1. F[p] \in Seq(Entry) /\ F \in [Proc -> Seq(Entry)] /\ \A r \in Proc : Len(F[r]) <= MaxFd
  BY DEF Tables
<1>2. PICK c \in DOMAIN Added(F[p], m) :
        /\ c \in DOMAIN F[p] => F[p][c] = NULL
        /\ DOMAIN Added(F[p], m) = DOMAIN F[p] \cup {c}
        /\ \A i \in DOMAIN Added(F[p], m) : Added(F[p], m)[i] = IF i = c THEN m ELSE F[p][i]
  BY <1>1, AddedFacts
<1>3. G[p] = Added(F[p], m) /\ \A r \in Proc \ {p} : G[r] = F[r]
  BY <1>1
<1>4. G \in Tables
  <2>1. Added(F[p], m) \in Seq(Entry)
    BY <1>1, AddedFacts
  <2> QED BY <1>1, <1>3, <2>1 DEF Tables
<1>5. c \in 1..MaxFd
  BY <1>2, <1>3, <1>4, PlaceIsDesc
<1>6. \A n \in Node : <<p, c>> \notin Desc(F, n)
  BY <1>2, NodeAssumption DEF Desc
<1>7. ASSUME NEW n \in Node
      PROVE  Desc(G, n) = IF n = m THEN Desc(F, n) \cup {<<p, c>>} ELSE Desc(F, n)
  <2>1. ASSUME NEW d \in Proc \X (1..MaxFd)
        PROVE  d \in Desc(G, n) <=> (d \in Desc(F, n) \/ (n = m /\ d = <<p, c>>))
    <3>1. CASE d[1] # p
      BY <1>3, <3>1 DEF Desc
    <3>2. CASE d[1] = p /\ d[2] # c
      BY <1>2, <1>3, <3>2 DEF Desc
    <3>3. CASE d[1] = p /\ d[2] = c
      <4>1. d = <<p, c>>
        BY <3>3
      <4>2. d \in Desc(G, n) <=> n = m
        BY <1>2, <1>3, <3>3 DEF Desc
      <4> QED BY <1>6, <4>1, <4>2
    <3> QED BY <3>1, <3>2, <3>3
  <2>2. <<p, c>> \in Proc \X (1..MaxFd)
    BY <1>5
  <2>3. Desc(G, n) \subseteq Proc \X (1..MaxFd) /\ Desc(F, n) \subseteq Proc \X (1..MaxFd)
    BY DEF Desc
  <2> QED BY <2>1, <2>2, <2>3
<1> QED BY <1>4, <1>6, <1>7 DEF AddsOne

(* Tables G are F, but for the descriptor d, which is one of m. *)
PutAt(F, G, d, m) ==
  /\ G \in Tables
  /\ \A n \in Node : Desc(G, n) = IF n = m THEN Desc(F, n) \cup {d} ELSE Desc(F, n) \ {d}

LEMMA PutDesc ==
  ASSUME NEW F \in Tables, NEW p \in Proc, NEW j \in DOMAIN F[p], NEW m \in Entry
  PROVE  PutAt(F, [F EXCEPT ![p][j] = m], <<p, j>>, m)
<1> DEFINE G == [F EXCEPT ![p][j] = m]
<1>1. F[p] \in Seq(Entry) /\ F \in [Proc -> Seq(Entry)] /\ \A r \in Proc : Len(F[r]) <= MaxFd
  BY DEF Tables
<1>2. /\ G[p] = [F[p] EXCEPT ![j] = m] /\ \A r \in Proc \ {p} : G[r] = F[r]
  BY <1>1
<1> HIDE DEF G
<1>3. G[p] \in Seq(Entry) /\ Len(G[p]) = Len(F[p]) /\ DOMAIN G[p] = DOMAIN F[p]
      /\ \A i \in DOMAIN F[p] : G[p][i] = IF i = j THEN m ELSE F[p][i]
  BY <1>1, <1>2
<1>4. G \in Tables
  <2>1. G \in [Proc -> Seq(Entry)]
    BY <1>1, <1>2, <1>3 DEF G
  <2> QED BY <1>1, <1>2, <1>3, <2>1 DEF Tables
<1>5. j \in 1..MaxFd
  BY PlaceIsDesc
<1>6. ASSUME NEW n \in Node, NEW d \in Proc \X (1..MaxFd)
      PROVE  d \in Desc(G, n) <=> IF n = m THEN d \in Desc(F, n) \/ d = <<p, j>>
                                           ELSE d \in Desc(F, n) /\ d # <<p, j>>
  <2>1. CASE d[1] # p
    BY <1>2, <2>1 DEF Desc
  <2>2. CASE d[1] = p /\ d[2] # j
    BY <1>2, <1>3, <2>2 DEF Desc
  <2>3. CASE d[1] = p /\ d[2] = j
    <3>1. d = <<p, j>>
      BY <2>3
    <3> QED BY <1>3, <2>3, <3>1 DEF Desc
  <2> QED BY <2>1, <2>2, <2>3
<1>7. ASSUME NEW n \in Node
      PROVE  Desc(G, n) = IF n = m THEN Desc(F, n) \cup {<<p, j>>} ELSE Desc(F, n) \ {<<p, j>>}
  <2>1. <<p, j>> \in Proc \X (1..MaxFd)
    BY <1>5
  <2>2. Desc(G, n) \subseteq Proc \X (1..MaxFd) /\ Desc(F, n) \subseteq Proc \X (1..MaxFd)
    BY DEF Desc
  <2> QED BY <1>6, <2>1, <2>2
<1>8. PutAt(F, G, <<p, j>>, m)
  BY <1>4, <1>7 DEF PutAt
<1> QED BY <1>8 DEF G

(* Tables G are F, but for the table T of process p. *)
TableOf(F, G, p, T) ==
  /\ G \in Tables
  /\ \A n : Desc(G, n) = {d \in Desc(F, n) : d[1] # p} \cup ({p} \X At(T, n))

LEMMA TableDesc ==
  ASSUME NEW F \in Tables, NEW p \in Proc, NEW T \in Seq(Entry), Len(T) <= MaxFd
  PROVE  TableOf(F, [F EXCEPT ![p] = T], p, T)
<1> DEFINE G == [F EXCEPT ![p] = T]
<1>1. F \in [Proc -> Seq(Entry)] /\ \A r \in Proc : Len(F[r]) <= MaxFd
  BY DEF Tables
<1>2. G[p] = T /\ \A r \in Proc \ {p} : G[r] = F[r]
  BY <1>1
<1>3. G \in Tables
  BY <1>1, <1>2 DEF Tables
<1> HIDE DEF G
<1>4. DOMAIN T \subseteq 1..MaxFd
  BY BoundsAssumption
<1>5. ASSUME NEW n
      PROVE  Desc(G, n) = {d \in Desc(F, n) : d[1] # p} \cup ({p} \X At(T, n))
  <2> USE DEF At
  <2>1. ASSUME NEW d \in Proc \X (1..MaxFd)
        PROVE  d \in Desc(G, n) <=> \/ d \in Desc(F, n) /\ d[1] # p
                                    \/ d \in {p} \X At(T, n)
    <3>1. CASE d[1] # p
      BY <1>2, <3>1 DEF Desc
    <3>2. CASE d[1] = p
      BY <1>2, <3>2 DEF Desc
    <3> QED BY <3>1, <3>2
  <2>2. {p} \X At(T, n) \subseteq Proc \X (1..MaxFd)
    BY <1>4
  <2>3. Desc(G, n) \subseteq Proc \X (1..MaxFd) /\ Desc(F, n) \subseteq Proc \X (1..MaxFd)
    BY DEF Desc
  <2> QED BY <2>1, <2>2, <2>3
<1>6. TableOf(F, G, p, T)
  BY <1>3, <1>5 DEF TableOf
<1> QED BY <1>6 DEF G

(* The places of a table under one process. *)
LEMMA PlacesCount ==
  ASSUME NEW F \in Tables, NEW p \in Proc, NEW c \in Proc, NEW n
  PROVE  /\ IsFiniteSet({c} \X At(F[p], n))
         /\ Cardinality({c} \X At(F[p], n)) = Cardinality(At(F[p], n))
         /\ Cardinality(At(F[p], n)) \in Nat
         /\ Cardinality(At(F[p], n)) = 0 <=> At(F[p], n) = {}
<1> DEFINE I == At(F[p], n)
<1>1. F[p] \in Seq(Entry)
  BY DEF Tables
<1>2. IsFiniteSet(1..Len(F[p])) /\ I \subseteq 1..Len(F[p])
  BY <1>1, FS_Interval DEF At
<1>3. IsFiniteSet(I) /\ Cardinality(I) \in Nat
  BY <1>2, FS_Subset, FS_CardinalityType
<1>4. IsFiniteSet({c}) /\ Cardinality({c}) = 1
  BY FS_Singleton
<1> HIDE DEF I
<1>5. IsFiniteSet({c} \X I) /\ Cardinality({c} \X I) = Cardinality({c}) * Cardinality(I)
  BY <1>3, <1>4, FS_Product
<1>6. Cardinality({c} \X I) = Cardinality(I)
  BY <1>3, <1>4, <1>5
<1>7. Cardinality(I) = 0 <=> I = {}
  BY <1>3, FS_EmptySet
<1> QED BY <1>3, <1>5, <1>6, <1>7 DEF I

(* A child without descriptors gets those of its parent. *)
Gains(F, G, c, p) ==
  \A n : /\ Desc(G, n) = Desc(F, n) \cup ({c} \X At(F[p], n))
         /\ Cardinality(Desc(G, n)) = Cardinality(Desc(F, n)) + Cardinality(At(F[p], n))

LEMMA InheritDesc ==
  ASSUME NEW F \in Tables, NEW p \in Proc, NEW c \in Proc, F[c] = <<>>
  PROVE  Gains(F, [F EXCEPT ![c] = F[p]], c, p)
<1> DEFINE G == [F EXCEPT ![c] = F[p]]
<1>1. PICK T \in Seq(Entry) : T = F[p] /\ Len(T) <= MaxFd
  BY DEF Tables
<1>2. \A n : Desc(G, n) = {d \in Desc(F, n) : d[1] # c} \cup ({c} \X At(T, n))
  <2>1. TableOf(F, [F EXCEPT ![c] = T], c, T)
    BY <1>1, TableDesc
  <2> QED BY <1>1, <2>1 DEF TableOf
<1> HIDE DEF G
<1>3. ASSUME NEW n
      PROVE  /\ Desc(G, n) = Desc(F, n) \cup ({c} \X At(F[p], n))
             /\ Cardinality(Desc(G, n)) = Cardinality(Desc(F, n)) + Cardinality(At(F[p], n))
  <2>1. \A d \in Desc(F, n) : d[1] # c
    BY DEF Desc
  <2>2. Desc(G, n) = {d \in Desc(F, n) : d[1] # c} \cup ({c} \X At(F[p], n))
    BY <1>1, <1>2
  <2>3. IsFiniteSet({c} \X At(F[p], n)) /\ Cardinality({c} \X At(F[p], n)) = Cardinality(At(F[p], n)) /\ Cardinality(At(F[p], n)) \in Nat
    BY PlacesCount, Zenon
  <2>4. IsFiniteSet(Desc(F, n)) /\ Cardinality(Desc(F, n)) \in Nat
    BY DescFinite
  <2>5. Desc(G, n) = Desc(F, n) \cup ({c} \X At(F[p], n)) /\ Desc(F, n) \cap ({c} \X At(F[p], n)) = {}
    BY <2>1, <2>2
  <2> DEFINE D == Desc(F, n)
             C == {c} \X At(F[p], n)
  <2>6. Cardinality(D \cup C) = Cardinality(D) + Cardinality(C) - Cardinality(D \cap C)
    <3> HIDE DEF D, C
    <3>1. IsFiniteSet(D) /\ IsFiniteSet(C)
      BY <2>3, <2>4 DEF D, C
    <3> QED BY <3>1, FS_Union
  <2>7. Cardinality({}) = 0
    BY FS_EmptySet
  <2>8. Cardinality(Desc(G, n)) = Cardinality(Desc(F, n)) + Cardinality(At(F[p], n))
    <3> HIDE DEF D, C
    <3>1. Desc(G, n) = D \cup C /\ D \cap C = {}
      BY <2>5 DEF D, C
    <3>2. Cardinality(D) \in Nat /\ Cardinality(C) \in Nat /\ Cardinality(C) = Cardinality(At(F[p], n))
      BY <2>3, <2>4 DEF D, C
    <3>3. Cardinality(D \cap C) = 0
      BY <2>7, <3>1
    <3>4. Cardinality(Desc(G, n)) = Cardinality(D) + Cardinality(C) - Cardinality(D \cap C)
      BY <2>6, <3>1
    <3> QED BY <3>2, <3>3, <3>4 DEF D
  <2> HIDE DEF D, C
  <2> QED BY <2>5, <2>8
<1>4. Gains(F, G, c, p)
  BY <1>3, Zenon DEF Gains
<1> QED BY <1>4, Zenon DEF G

(* A process gives up its table. *)
Loses(F, G, p) ==
  \A n : /\ Desc(G, n) = {d \in Desc(F, n) : d[1] # p}
         /\ Cardinality(Desc(G, n)) = Cardinality(Desc(F, n)) - Cardinality(At(F[p], n))

LEMMA GiveUpDesc ==
  ASSUME NEW F \in Tables, NEW p \in Proc
  PROVE  Loses(F, [F EXCEPT ![p] = <<>>], p)
<1> DEFINE G == [F EXCEPT ![p] = <<>>]
<1>1. <<>> \in Seq(Entry) /\ Len(<<>>) <= MaxFd /\ DOMAIN <<>> = {}
  BY BoundsAssumption
<1>2. \A n : Desc(G, n) = {d \in Desc(F, n) : d[1] # p} \cup ({p} \X At(<<>>, n))
  <2>1. TableOf(F, [F EXCEPT ![p] = <<>>], p, <<>>)
    BY <1>1, TableDesc
  <2> QED BY <2>1 DEF TableOf
<1> HIDE DEF G
<1>3. ASSUME NEW n
      PROVE  /\ Desc(G, n) = {d \in Desc(F, n) : d[1] # p}
             /\ Cardinality(Desc(G, n)) = Cardinality(Desc(F, n)) - Cardinality(At(F[p], n))
  <2>1. Desc(G, n) = {d \in Desc(F, n) : d[1] # p} \cup ({p} \X At(<<>>, n)) /\ At(<<>>, n) = {}
    BY <1>1, <1>2 DEF At
  <2>2. Desc(G, n) = {d \in Desc(F, n) : d[1] # p}
    BY <1>1, <2>1
  <2>3. \A d \in {p} \X At(F[p], n) : d \in Desc(F, n)
    BY PlaceIsDesc DEF At
  <2>4. \A d \in Desc(F, n) : d[1] = p => d \in {p} \X At(F[p], n)
    BY DEF Desc, At
  <2>5. \A d \in {p} \X At(F[p], n) : d[1] = p
    OBVIOUS
  <2>6. IsFiniteSet({p} \X At(F[p], n)) /\ Cardinality({p} \X At(F[p], n)) = Cardinality(At(F[p], n)) /\ Cardinality(At(F[p], n)) \in Nat
    BY PlacesCount, Zenon
  <2>7. IsFiniteSet(Desc(F, n)) /\ Cardinality(Desc(F, n)) \in Nat
    BY DescFinite
  <2>8. Desc(G, n) = Desc(F, n) \ ({p} \X At(F[p], n)) /\ Desc(F, n) \cap ({p} \X At(F[p], n)) = {p} \X At(F[p], n)
    BY <2>2, <2>3, <2>4, <2>5
  <2>9. Cardinality(Desc(G, n)) = Cardinality(Desc(F, n)) - Cardinality({p} \X At(F[p], n))
    <3>1. PICK A, B : A = Desc(F, n) /\ B = {p} \X At(F[p], n)
      OBVIOUS
    <3>2. IsFiniteSet(A) /\ Desc(G, n) = A \ B /\ A \cap B = B
      BY <2>7, <2>8, <3>1, Zenon
    <3>3. Cardinality(A \ B) = Cardinality(A) - Cardinality(A \cap B)
      BY <3>2, FS_Difference
    <3> QED BY <3>1, <3>2, <3>3, Zenon
  <2> QED BY <2>2, <2>6, <2>9
<1>4. Loses(F, G, p)
  BY <1>3, Zenon DEF Loses
<1> QED BY <1>4, Zenon DEF G
-----------------------------------------------------------------------------
(* Types, part by part.                                                    *)
State == {"FREE", "READY", "WAITING", "FORKED", "ZOMBIE"}
ProcTyped ==
  state \in [Proc -> State] /\ vparent \in [Proc -> Proc \cup {NULL}] /\ again \in [Proc -> Call]
FileTyped ==
  fds \in Tables /\ live \subseteq Node /\ usage_count \in [Node -> Int] /\ linked \in File \cup {NULL}
PipeTyped == ends \in [Pipe -> SUBSET {"r", "w"}] /\ pp \subseteq Pipe
StreamTyped ==
  /\ task_r \in [Pipe -> Proc \cup {NULL}] /\ task_w \in [Pipe -> Proc \cup {NULL}]
  /\ w_off \in [Pipe -> 0..MaxLen]
  /\ cb \in [Pipe -> Seq(Nat)] /\ base \in [Pipe -> Nat] /\ got \in [Pipe -> Nat]
TypeInv == ProcTyped /\ FileTyped /\ PipeTyped /\ StreamTyped /\ setting \in Settings

(* The parts are TypeOK, and tables that are no longer than the bound.     *)
LEMMA TypeInvParts == TypeInv => TypeOK
BY DEF TypeInv, TypeOK, ProcTyped, FileTyped, PipeTyped, StreamTyped, State, Tables, Entry

(* NoCall is a call. *)
LEMMA NoCallTyped == NoCall \in Call
BY BoundsAssumption DEF NoCall, Call

(* Closing the ends in S keeps the types, wakes who sleeps, and frees ends *)
(* in S that were open.                                                    *)
CloseGives(S, st) ==
  /\ state' \in [Proc -> State]
  /\ \A p \in Proc : state'[p] = st[p] \/ (st[p] = "WAITING" /\ state'[p] = "READY")
  /\ PipeTyped'
  /\ pp' \subseteq pp /\ \A q \in pp' : ends'[q] # {}
  /\ live' = live \ {n \in S \cap End : n[2] \in ends[n[1]]}
  /\ \A n \in End : n[2] \in ends'[n[1]] <=> n[2] \in ends[n[1]] /\ n \notin S

LEMMA CloseFacts ==
  ASSUME PipeTyped, NEW S, NEW t, NEW st \in [Proc -> State], Close(S, t, st)
  PROVE  CloseGives(S, st)
<1> DEFINE shut == {n \in S \cap End : n[2] \in ends[n[1]]}
<1>1. /\ ends' = [q \in Pipe |-> ends[q] \ {e \in {"r", "w"} : <<q, e>> \in shut}]
      /\ pp' = {q \in pp : ends'[q] # {}}
      /\ live' = live \ shut
  BY DEF Close
<1>2. ends \in [Pipe -> SUBSET {"r", "w"}] /\ pp \subseteq Pipe
  BY DEF PipeTyped
<1>3. PipeTyped' /\ pp' \subseteq pp /\ \A q \in pp' : ends'[q] # {}
  <2> HIDE DEF shut
  <2> QED BY <1>1, <1>2 DEF PipeTyped
<1>4. ASSUME NEW n \in End
      PROVE  n[2] \in ends'[n[1]] <=> n[2] \in ends[n[1]] /\ n \notin S
  <2>1. n[1] \in Pipe /\ n[2] \in {"r", "w"} /\ n = <<n[1], n[2]>>
    BY DEF End
  <2>2. n \in shut <=> n \in S /\ n[2] \in ends[n[1]]
    OBVIOUS
  <2> HIDE DEF shut
  <2>3. ends'[n[1]] = ends[n[1]] \ {e \in {"r", "w"} : <<n[1], e>> \in shut}
    BY <1>1, <2>1
  <2> QED BY <2>1, <2>2, <2>3
<1>5. PICK woken : state' = [p \in Proc |-> IF p \in woken \ {t} /\ st[p] = "WAITING" THEN "READY" ELSE st[p]]
  BY DEF Close
<1>6. state' \in [Proc -> State] /\ \A p \in Proc : state'[p] = st[p] \/ (st[p] = "WAITING" /\ state'[p] = "READY")
  BY <1>5 DEF State
<1> QED BY <1>1, <1>3, <1>4, <1>6 DEF CloseGives
-----------------------------------------------------------------------------
(* What the calls that change descriptor tables do to the descriptors.     *)

(* An open, of the file that the path names or of a new one.               *)
Opens(f) ==
  /\ AddsOne(fds, fds', f)
  /\ linked' = f
  /\ \/ f = linked /\ live' = live /\ usage_count' = [usage_count EXCEPT ![f] = @ + 1]
     \/ /\ f \notin live /\ Desc(fds, f) = {}
        /\ live' = (live \ {linked}) \cup {f}
        /\ linked # NULL => MayUnlink
        /\ usage_count' = [usage_count EXCEPT ![f] = 1]

LEMMA OpenEffect ==
  ASSUME TypeInv, NEW p \in Proc, sys_open_hdlr(p)
  PROVE  \E f \in File : Opens(f)
<1> USE DEF TypeInv, FileTyped
<1>1. ASSUME NEW f \in Node, fds' = [fds EXCEPT ![p] = Added(@, f)], Len(fds'[p]) <= MaxFd
      PROVE  AddsOne(fds, fds', f)
  BY <1>1, AddedAddsOne
<1>2. CASE OpenFound(p)
  <2>1. /\ linked \in File /\ linked' = linked /\ live' = live
        /\ fds' = [fds EXCEPT ![p] = Added(@, linked)] /\ Len(fds'[p]) <= MaxFd
        /\ usage_count' = [usage_count EXCEPT ![linked] = @ + 1]
    BY <1>2 DEF OpenFound, AddFiles
  <2>2. linked \in Node
    BY <2>1 DEF Node
  <2>3. AddsOne(fds, fds', linked)
    BY <1>1, <2>1, <2>2
  <2> QED BY <2>1, <2>3 DEF Opens
<1>3. CASE OpenCreates(p)
  <2>1. PICK f \in File \ live :
          /\ Descriptors(f) = {}
          /\ linked' = f /\ live' = (live \ {linked}) \cup {f}
          /\ fds' = [fds EXCEPT ![p] = Added(@, f)] /\ Len(fds'[p]) <= MaxFd
          /\ usage_count' = [usage_count EXCEPT ![f] = 1]
    BY <1>3 DEF OpenCreates
  <2>2. linked # NULL => MayUnlink
    BY <1>3 DEF OpenCreates
  <2>3. f \in Node
    BY DEF Node
  <2>4. AddsOne(fds, fds', f)
    BY <1>1, <2>1, <2>3
  <2>5. Desc(fds, f) = {}
    BY <2>1, DescIsDescriptors
  <2> QED BY <2>1, <2>2, <2>4, <2>5 DEF Opens
<1> QED BY <1>2, <1>3 DEF sys_open_hdlr

(* A pipe has two ends r and w that nobody has had. *)
Pipes(q, r, w, F) ==
  /\ r = <<q, "r">> /\ w = <<q, "w">> /\ r # w
  /\ \A n \in {r, w} : n \in End /\ n \in Node /\ n \notin live /\ Desc(fds, n) = {}
  /\ AddsOne(fds, F, r) /\ AddsOne(F, fds', w)
  /\ live' = live \cup {r, w}
  /\ usage_count' = [usage_count EXCEPT ![r] = 1, ![w] = 1]
  /\ ends' = [ends EXCEPT ![q] = {"r", "w"}] /\ pp' = pp \cup {q}

LEMMA PipeEffect ==
  ASSUME TypeInv, NEW p \in Proc, sys_pipe2_hdlr(p)
  PROVE  \E q \in Pipe \ pp : \E r, w, F : Pipes(q, r, w, F)
<1>1. PICK q \in Pipe \ pp :
        /\ Descriptors(<<q, "r">>) = {} /\ Descriptors(<<q, "w">>) = {}
        /\ <<q, "r">> \notin live /\ <<q, "w">> \notin live
        /\ live' = live \cup {<<q, "r">>, <<q, "w">>}
        /\ fds' = [fds EXCEPT ![p] = Added(Added(@, <<q, "r">>), <<q, "w">>)] /\ Len(fds'[p]) <= MaxFd
        /\ usage_count' = [usage_count EXCEPT ![<<q, "r">>] = 1, ![<<q, "w">>] = 1]
        /\ ends' = [ends EXCEPT ![q] = {"r", "w"}] /\ pp' = pp \cup {q}
  BY DEF sys_pipe2_hdlr
<1>2. PICK r, w : r = <<q, "r">> /\ w = <<q, "w">>
  OBVIOUS
<1>3. r \in End /\ w \in End /\ r \in Node /\ w \in Node
  BY <1>2 DEF End, Node
<1>4. fds \in Tables /\ fds \in [Proc -> Seq(Entry)] /\ fds[p] \in Seq(Entry)
  BY DEF TypeInv, FileTyped, Tables
<1>5. fds' = [fds EXCEPT ![p] = Added(Added(fds[p], r), w)] /\ fds'[p] = Added(Added(fds[p], r), w)
  BY <1>1, <1>2, <1>4
<1>6. PICK T : T = Added(fds[p], r)
  OBVIOUS
<1>7. T \in Seq(Entry)
  BY <1>3, <1>4, <1>6, AddedFacts
<1>8. Len(T) <= MaxFd
  <2>1. Len(T) <= Len(Added(T, w)) /\ Added(T, w) \in Seq(Entry)
    BY <1>3, <1>7, AddedFacts
  <2>2. Len(Added(T, w)) <= MaxFd
    BY <1>1, <1>5, <1>6
  <2> QED BY <1>7, <2>1, <2>2, BoundsAssumption
<1>9. PICK F : F = [fds EXCEPT ![p] = T]
  OBVIOUS
<1>10. F[p] = T /\ fds' = [F EXCEPT ![p] = Added(T, w)] /\ fds'[p] = Added(T, w)
  BY <1>4, <1>5, <1>6, <1>9, Zenon
<1>11. AddsOne(fds, F, r)
  <2>1. F = [fds EXCEPT ![p] = Added(fds[p], r)]
    BY <1>6, <1>9
  <2> QED BY <1>3, <1>4, <1>8, <1>10, <2>1, AddedAddsOne, Zenon
<1>12. F \in Tables
  BY <1>11 DEF AddsOne
<1>13. AddsOne(F, fds', w)
  <2>1. Len(fds'[p]) <= MaxFd
    BY <1>1
  <2> QED BY <1>3, <1>10, <1>12, <2>1, AddedAddsOne
<1>14. Desc(fds, r) = {} /\ Desc(fds, w) = {}
  BY <1>1, <1>2, DescIsDescriptors
<1>15. r # w
  BY <1>2
<1>16. Pipes(q, r, w, F)
  BY <1>1, <1>2, <1>3, <1>11, <1>13, <1>14, <1>15 DEF Pipes
<1> QED BY <1>16

(* A dup, of a node that is live. *)
LEMMA DupEffect ==
  ASSUME TypeInv, NEW p \in Proc, sys_dup_hdlr(p)
  PROVE  \E m \in live :
           /\ AddsOne(fds, fds', m) /\ MayShare(m)
           /\ usage_count' = [usage_count EXCEPT ![m] = @ + 1]
<1>1. PICK i \in DOMAIN fds[p] : fds[p][i] # NULL /\ MayShare(fds[p][i]) /\ AddFiles(p, fds[p][i])
  BY DEF sys_dup_hdlr
<1>2. PICK m : m = fds[p][i]
  OBVIOUS
<1>3. m \in live /\ m \in Node
  BY <1>1, <1>2 DEF sys_dup_hdlr, Calls, AllLive, ToSet, TypeInv, FileTyped
<1>4. /\ fds' = [fds EXCEPT ![p] = Added(fds[p], m)] /\ Len(fds'[p]) <= MaxFd
      /\ usage_count' = [usage_count EXCEPT ![m] = @ + 1]
  BY <1>1, <1>2 DEF AddFiles
<1>5. AddsOne(fds, fds', m)
  BY <1>3, <1>4, AddedAddsOne DEF TypeInv, FileTyped
<1> QED BY <1>1, <1>2, <1>3, <1>4, <1>5

(* A dup2 takes a descriptor d from node o, if it was one, and gives it to *)
(* node m.                                                                 *)
LEMMA Dup2Effect ==
  ASSUME TypeInv, NEW p \in Proc, sys_dup2_hdlr(p)
  PROVE  \E m \in Node, o \in Entry : \E d :
           /\ fds' \in Tables
           /\ \A n \in Node : Desc(fds', n) = IF n = m THEN Desc(fds, n) \cup {d} ELSE Desc(fds, n) \ {d}
           /\ \A n \in Node : d \in Desc(fds, n) <=> n = o
           /\ IF o = NULL THEN UNCHANGED <<usage_count, state, live, pipes>>
              ELSE /\ o \in live
                   /\ usage_count' = [usage_count EXCEPT ![o] = @ - 1]
                   /\ CloseGives({n \in {o} : usage_count'[n] <= 0}, state)
<1>1. PICK i \in DOMAIN fds[p], j \in DOMAIN fds[p] :
        /\ i # j /\ fds[p][i] # NULL
        /\ fds' = [fds EXCEPT ![p][j] = fds[p][i]]
        /\ IF fds[p][j] = NULL THEN UNCHANGED <<usage_count, state, live, pipes>>
           ELSE /\ usage_count' = [usage_count EXCEPT ![fds[p][j]] = @ - 1]
                /\ Close({n \in {fds[p][j]} : usage_count'[n] <= 0}, p, state)
  BY DEF sys_dup2_hdlr
<1>2. PICK m, o, S : m = fds[p][i] /\ o = fds[p][j] /\ S = {n \in {o} : usage_count'[n] <= 0}
  OBVIOUS
<1>3. fds \in Tables /\ m \in Entry /\ o \in Entry /\ m \in Node
  BY <1>1, <1>2 DEF TypeInv, FileTyped, Tables, Entry
<1>4. fds' = [fds EXCEPT ![p][j] = m]
  BY <1>1, <1>2
<1>5. /\ fds' \in Tables
      /\ \A n \in Node : Desc(fds', n) = IF n = m THEN Desc(fds, n) \cup {<<p, j>>} ELSE Desc(fds, n) \ {<<p, j>>}
  <2>1. PutAt(fds, [fds EXCEPT ![p][j] = m], <<p, j>>, m)
    BY <1>1, <1>3, PutDesc
  <2> QED BY <1>4, <2>1 DEF PutAt
<1>6. \A n \in Node : <<p, j>> \in Desc(fds, n) <=> n = o
  <2>1. <<p, j>> \in Proc \X (1..MaxFd)
    BY <1>1, <1>3, PlaceIsDesc
  <2> QED BY <1>1, <1>2, <2>1 DEF Desc
<1>7. ASSUME o # NULL
      PROVE  /\ o \in live
             /\ usage_count' = [usage_count EXCEPT ![o] = @ - 1]
             /\ CloseGives({n \in {o} : usage_count'[n] <= 0}, state)
  <2>1. o \in live
    BY <1>2, <1>7 DEF sys_dup2_hdlr, Calls, AllLive, ToSet
  <2>2. usage_count' = [usage_count EXCEPT ![o] = @ - 1] /\ Close(S, p, state)
    BY <1>1, <1>2, <1>7
  <2>3. CloseGives(S, state)
    BY <2>2, CloseFacts DEF TypeInv, ProcTyped
  <2> QED BY <1>2, <2>1, <2>2, <2>3
<1>8. o = NULL => UNCHANGED <<usage_count, state, live, pipes>>
  BY <1>1, <1>2
<1> QED BY <1>3, <1>5, <1>6, <1>7, <1>8

(* A close takes a descriptor d from node o. *)
Closes(o, d, st) ==
  /\ fds' \in Tables
  /\ \A n \in Node : Desc(fds', n) = Desc(fds, n) \ {d}
  /\ \A n \in Node : d \in Desc(fds, n) <=> n = o
  /\ usage_count' = [usage_count EXCEPT ![o] = @ - 1]
  /\ CloseGives({o}, st)
  /\ \A r \in Proc : st[r] = "FREE" => state[r] = "FREE"

LEMMA CloseEffect ==
  ASSUME TypeInv, NEW p \in Proc, NEW i, sys_close_hdlr(p, i)
  PROVE  \E o \in live : \E d, st : st \in [Proc -> State] /\ Closes(o, d, st)
<1>1. PICK o, st : o = fds[p][i] /\ st = IF FreedTwice(fds[p][i]) THEN [state EXCEPT ![p] = "ZOMBIE"] ELSE state
  OBVIOUS
<1>2. i \in DOMAIN fds[p] /\ o # NULL /\ Close({o}, p, st)
  BY <1>1 DEF sys_close_hdlr
<1>3. usage_count' = [usage_count EXCEPT ![o] = @ - 1] /\ fds' = [fds EXCEPT ![p][i] = NULL]
  BY <1>1 DEF sys_close_hdlr, Del
<1>4. o \in live
  BY <1>1, <1>2 DEF sys_close_hdlr, Calls, AllLive, ToSet
<1>5. st \in [Proc -> State] /\ \A r \in Proc : st[r] = "FREE" => state[r] = "FREE"
  BY <1>1 DEF TypeInv, ProcTyped, State
<1>6. CloseGives({o}, st)
  BY <1>2, <1>5, CloseFacts DEF TypeInv
<1>7. fds' \in Tables /\ \A n \in Node : Desc(fds', n) = Desc(fds, n) \ {<<p, i>>}
  <2>1. PutAt(fds, [fds EXCEPT ![p][i] = NULL], <<p, i>>, NULL)
    BY <1>2, PutDesc DEF TypeInv, FileTyped, Entry
  <2> QED BY <1>3, <2>1, NodeAssumption DEF PutAt
<1>8. \A n \in Node : <<p, i>> \in Desc(fds, n) <=> n = o
  <2>1. <<p, i>> \in Proc \X (1..MaxFd)
    BY <1>2, PlaceIsDesc DEF TypeInv, FileTyped
  <2> QED BY <1>1, <1>2, <2>1 DEF Desc
<1>9. Closes(o, <<p, i>>, st)
  BY <1>3, <1>5, <1>6, <1>7, <1>8 DEF Closes
<1> QED BY <1>4, <1>5, <1>9

(* A child gets the descriptors of its parent. *)
Inherits(c, p) ==
  /\ fds' = [fds EXCEPT ![c] = fds[p]]
  /\ usage_count' = [n \in Node |-> usage_count[n] + Cardinality(At(fds[p], n))]

LEMMA VforkEffect ==
  ASSUME TypeInv, NEW p \in Proc, sys_vfork_hdlr(p)
  PROVE  \E c \in Proc :
           /\ state[c] = "FREE" /\ c # p
           /\ state' = [state EXCEPT ![c] = "READY", ![p] = "FORKED"]
           /\ vparent' = [vparent EXCEPT ![c] = p]
           /\ Inherits(c, p)
           /\ AllLive(p)
           /\ \A n \in End : At(fds[p], n) # {} => "share" \in setting
<1>1. state[p] = "READY" /\ AllLive(p) /\ \A n \in ToSet(fds[p]) : MayShare(n)
  BY DEF sys_vfork_hdlr, Calls
<1>2. PICK c \in Proc :
        /\ state[c] = "FREE"
        /\ state' = [state EXCEPT ![c] = "READY", ![p] = "FORKED"]
        /\ vparent' = [vparent EXCEPT ![c] = p]
        /\ fds' = [fds EXCEPT ![c] = fds[p]]
  BY DEF sys_vfork_hdlr
<1>3. usage_count' = [n \in Node |-> usage_count[n] + Cardinality(At(fds[p], n))]
  BY DEF sys_vfork_hdlr, Inherited, Places, At
<1>4. \A n \in End : At(fds[p], n) # {} => "share" \in setting
  BY <1>1 DEF At, ToSet, MayShare
<1> QED BY <1>1, <1>2, <1>3, <1>4 DEF Inherits

(* A process that is destroyed gives up all its descriptors. *)
GivesUp(p) ==
  /\ fds' = [fds EXCEPT ![p] = <<>>]
  /\ usage_count' = [n \in Node |-> usage_count[n] - Cardinality(At(fds[p], n))]

LEMMA DestroyEffect ==
  ASSUME TypeInv, NEW p \in Proc, task_destroy(p)
  PROVE  /\ GivesUp(p)
         /\ CloseGives({n \in live : At(fds[p], n) # {} /\ usage_count'[n] <= 0},
                       [state EXCEPT ![p] = "FREE"])
<1>1. GivesUp(p)
  BY DEF task_destroy, GivesUp, Places, At
<1>2. PICK S, st : /\ S = {n \in live : At(fds[p], n) # {} /\ usage_count'[n] <= 0}
                   /\ st = [state EXCEPT ![p] = "FREE"]
  OBVIOUS
<1>3. Close(S, NULL, st)
  BY <1>2 DEF task_destroy, Places, At
<1>4. st \in [Proc -> State]
  BY <1>2 DEF TypeInv, ProcTyped, State
<1>5. CloseGives(S, st)
  BY <1>3, <1>4, CloseFacts DEF TypeInv
<1> QED BY <1>1, <1>2, <1>5
-----------------------------------------------------------------------------
(* A step keeps the types.                                                 *)
LEMMA OpenTyped ==
  ASSUME TypeInv, NEW p \in Proc, sys_open_hdlr(p)
  PROVE  TypeInv'
<1>1. UNCHANGED <<procs, pipes, stream, setting>>
  BY DEF sys_open_hdlr
<1>2. PICK f \in File : Opens(f)
  BY OpenEffect
<1>3. FileTyped'
  <2>1. fds' \in Tables
    BY <1>2 DEF Opens, AddsOne
  <2>2. live' \subseteq Node /\ linked' \in File
    BY <1>2 DEF Opens, TypeInv, FileTyped, Node
  <2>3. usage_count' \in [Node -> Int]
    BY <1>2 DEF Opens, TypeInv, FileTyped
  <2> QED BY <2>1, <2>2, <2>3 DEF FileTyped
<1> QED
  BY <1>1, <1>3 DEF TypeInv, ProcTyped, PipeTyped, StreamTyped, procs, pipes, stream

LEMMA PipeCallTyped ==
  ASSUME TypeInv, NEW p \in Proc, sys_pipe2_hdlr(p)
  PROVE  TypeInv'
<1>1. UNCHANGED <<procs, linked, setting>>
  BY DEF sys_pipe2_hdlr
<1>2. PICK q, r, w, F : q \in Pipe \ pp /\ Pipes(q, r, w, F)
  BY PipeEffect
<1>3. FileTyped'
  <2>1. fds' \in Tables
    BY <1>2 DEF Pipes, AddsOne
  <2>2. live' \subseteq Node /\ linked' \in File \cup {NULL}
    BY <1>1, <1>2 DEF Pipes, TypeInv, FileTyped, Node
  <2>3. usage_count' \in [Node -> Int]
    BY <1>2 DEF Pipes, TypeInv, FileTyped
  <2> QED BY <2>1, <2>2, <2>3 DEF FileTyped
<1>4. PipeTyped'
  BY <1>2 DEF Pipes, TypeInv, PipeTyped
<1>5. StreamTyped'
  <2>1. PICK x \in Pipe :
          /\ task_r' = [task_r EXCEPT ![x] = NULL] /\ task_w' = [task_w EXCEPT ![x] = NULL]
          /\ w_off' = [w_off EXCEPT ![x] = 0] /\ cb' = [cb EXCEPT ![x] = <<>>]
          /\ base' = [base EXCEPT ![x] = 0] /\ got' = [got EXCEPT ![x] = 0]
    BY DEF sys_pipe2_hdlr
  <2>2. <<>> \in Seq(Nat) /\ 0 \in 0..MaxLen
    BY BoundsAssumption
  <2> QED BY <2>1, <2>2 DEF TypeInv, StreamTyped
<1> QED BY <1>1, <1>3, <1>4, <1>5 DEF TypeInv, ProcTyped, procs

LEMMA DupTyped ==
  ASSUME TypeInv, NEW p \in Proc, sys_dup_hdlr(p)
  PROVE  TypeInv'
<1>1. UNCHANGED <<procs, live, linked, pipes, stream, setting>>
  BY DEF sys_dup_hdlr
<1>2. PICK m \in live : AddsOne(fds, fds', m) /\ usage_count' = [usage_count EXCEPT ![m] = @ + 1]
  BY DupEffect
<1>3. FileTyped'
  BY <1>1, <1>2 DEF TypeInv, FileTyped, AddsOne
<1> QED BY <1>1, <1>3 DEF TypeInv, ProcTyped, PipeTyped, StreamTyped, procs, pipes, stream

LEMMA Dup2Typed ==
  ASSUME TypeInv, NEW p \in Proc, sys_dup2_hdlr(p)
  PROVE  TypeInv'
<1>1. UNCHANGED <<vparent, again, linked, stream, setting>>
  BY DEF sys_dup2_hdlr
<1>2. PICK o \in Entry :
        /\ fds' \in Tables
        /\ IF o = NULL THEN UNCHANGED <<usage_count, state, live, pipes>>
           ELSE /\ o \in live /\ usage_count' = [usage_count EXCEPT ![o] = @ - 1]
                /\ CloseGives({n \in {o} : usage_count'[n] <= 0}, state)
  BY Dup2Effect
<1>3. FileTyped'
  BY <1>1, <1>2 DEF TypeInv, FileTyped, CloseGives
<1>4. ProcTyped' /\ PipeTyped'
  <2>1. CASE o = NULL
    BY <1>1, <1>2, <2>1 DEF TypeInv, ProcTyped, PipeTyped, pipes
  <2>2. CASE o # NULL
    BY <1>1, <1>2, <2>2 DEF TypeInv, ProcTyped, CloseGives
  <2> QED BY <2>1, <2>2
<1> QED BY <1>1, <1>3, <1>4 DEF TypeInv, StreamTyped, stream

LEMMA CloseTyped ==
  ASSUME TypeInv, NEW p \in Proc, NEW i, sys_close_hdlr(p, i)
  PROVE  TypeInv'
<1>1. UNCHANGED <<vparent, again, linked, stream, setting>>
  BY DEF sys_close_hdlr
<1>2. PICK o, d, st : o \in live /\ st \in [Proc -> State] /\ Closes(o, d, st)
  BY CloseEffect
<1>3. FileTyped'
  BY <1>1, <1>2 DEF TypeInv, FileTyped, Closes, CloseGives
<1>4. ProcTyped' /\ PipeTyped'
  BY <1>1, <1>2 DEF TypeInv, ProcTyped, Closes, CloseGives
<1> QED BY <1>1, <1>3, <1>4 DEF TypeInv, StreamTyped, stream

LEMMA VforkTyped ==
  ASSUME TypeInv, NEW p \in Proc, sys_vfork_hdlr(p)
  PROVE  TypeInv'
<1>1. UNCHANGED <<again, live, linked, pipes, stream, setting>>
  BY DEF sys_vfork_hdlr
<1>2. PICK c \in Proc :
        /\ state' = [state EXCEPT ![c] = "READY", ![p] = "FORKED"]
        /\ vparent' = [vparent EXCEPT ![c] = p]
        /\ Inherits(c, p)
  BY VforkEffect
<1>3. ProcTyped'
  BY <1>1, <1>2 DEF TypeInv, ProcTyped, State
<1>4. FileTyped'
  <2>1. PICK T \in Seq(Entry) : T = fds[p] /\ Len(T) <= MaxFd
    BY DEF TypeInv, FileTyped, Tables
  <2>2. TableOf(fds, [fds EXCEPT ![c] = T], c, T)
    BY <2>1, TableDesc DEF TypeInv, FileTyped
  <2>3. fds' \in Tables
    BY <1>2, <2>1, <2>2 DEF TableOf, Inherits
  <2>4. \A n \in Node : Cardinality(At(fds[p], n)) \in Nat
    BY PlacesCount DEF TypeInv, FileTyped
  <2>5. usage_count' \in [Node -> Int]
    BY <1>2, <2>4 DEF TypeInv, FileTyped, Inherits
  <2> QED BY <1>1, <2>3, <2>5 DEF TypeInv, FileTyped
<1> QED BY <1>1, <1>3, <1>4 DEF TypeInv, PipeTyped, StreamTyped, pipes, stream

LEMMA DestroyTyped ==
  ASSUME TypeInv, NEW p \in Proc, task_destroy(p)
  PROVE  TypeInv'
<1>1. /\ again' = [again EXCEPT ![p] = NoCall] /\ vparent' = [vparent EXCEPT ![p] = NULL]
      /\ UNCHANGED <<linked, stream, setting>>
  BY DEF task_destroy
<1>2. GivesUp(p) /\ \E S, st : CloseGives(S, st)
  BY DestroyEffect
<1>3. ProcTyped' /\ PipeTyped'
  BY <1>1, <1>2, NoCallTyped DEF TypeInv, ProcTyped, CloseGives
<1>4. FileTyped'
  <2>1. <<>> \in Seq(Entry) /\ Len(<<>>) <= MaxFd
    BY BoundsAssumption
  <2>2. TableOf(fds, [fds EXCEPT ![p] = <<>>], p, <<>>)
    BY <2>1, TableDesc DEF TypeInv, FileTyped
  <2>3. fds' \in Tables
    BY <1>2, <2>2 DEF TableOf, GivesUp
  <2>4. \A n \in Node : Cardinality(At(fds[p], n)) \in Nat
    BY PlacesCount DEF TypeInv, FileTyped
  <2>5. usage_count' \in [Node -> Int]
    BY <1>2, <2>4 DEF TypeInv, FileTyped, GivesUp
  <2>6. live' \subseteq Node
    BY <1>2 DEF TypeInv, FileTyped, CloseGives
  <2> QED BY <1>1, <2>3, <2>5, <2>6 DEF TypeInv, FileTyped
<1> QED BY <1>1, <1>3, <1>4 DEF TypeInv, StreamTyped, stream
-----------------------------------------------------------------------------
(* A write puts the next c bytes of the stream into the pipe's buffer.     *)
LEMMA WrittenFacts ==
  ASSUME StreamTyped, NEW q \in Pipe, NEW len \in Nat
  PROVE  \E c \in Nat :
           /\ Cardinality(Written(q, len)) = c
           /\ [k \in 1..Cardinality(Written(q, len)) |-> base[q] + Min(Written(q, len)) + k]
                = [k \in 1..c |-> base[q] + w_off[q] + k]
<1>1. PICK b, w, u, l, m :
        b = base[q] /\ w = w_off[q] /\ u = PIPE_BUFSIZE - Len(cb[q]) /\ l = len - w /\ m = Min({u, l})
  OBVIOUS
<1>2. b \in Nat /\ w \in Nat /\ u \in Int /\ l \in Int
  <2>1. cb[q] \in Seq(Nat) /\ base[q] \in Nat /\ w_off[q] \in 0..MaxLen
    BY DEF StreamTyped
  <2> QED BY <1>1, <2>1, BoundsAssumption
<1>3. m \in Int
  BY <1>1, <1>2, MinOfTwo
<1>4. Written(q, len) = w .. m - 1
  BY <1>1 DEF Written
<1>5. CASE m <= w
  <2>1. w .. m - 1 = {}
    BY <1>2, <1>3, <1>5
  <2>2. Cardinality(Written(q, len)) = 0
    BY <1>4, <2>1, FS_EmptySet
  <2>3. [k \in 1..0 |-> base[q] + Min(Written(q, len)) + k] = [k \in 1..0 |-> base[q] + w_off[q] + k]
    OBVIOUS
  <2> QED BY <2>2, <2>3
<1>6. CASE w < m
  <2>1. Cardinality(w .. m - 1) = m - w
    BY <1>2, <1>3, <1>6, FS_Interval
  <2>2. Min(w .. m - 1) = w
    BY <1>2, <1>3, <1>6, MinOfInterval
  <2>3. m - w \in Nat
    BY <1>2, <1>3, <1>6
  <2> QED BY <1>1, <1>4, <2>1, <2>2, <2>3
<1> QED BY <1>2, <1>3, <1>5, <1>6

(* A step of a write, as a message of length len is issued again: the c    *)
(* bytes, and then an answer or the wait for room.                         *)
Writes(p, call, q, c) ==
  /\ cb' = [cb EXCEPT ![q] = @ \o [k \in 1..c |-> base[q] + w_off[q] + k]]
  /\ IF w_off[q] + c < call.len
       THEN /\ task_w' = [task_w EXCEPT ![q] = p] /\ w_off' = [w_off EXCEPT ![q] = w_off[q] + c]
            /\ Suspends(p, call)
            /\ UNCHANGED base
       ELSE /\ task_w' = [task_w EXCEPT ![q] = NULL] /\ w_off' = [w_off EXCEPT ![q] = 0]
            /\ base' = [base EXCEPT ![q] = @ + (w_off[q] + c)]
            /\ Answers(p)

LEMMA WriteEffect ==
  ASSUME TypeInv, NEW p \in Proc, NEW call \in Call, NEW q \in Pipe, pipe_write(p, call, q)
  PROVE  \E c \in Nat : Writes(p, call, q, c)
<1>1. call.len \in Nat
  BY BoundsAssumption DEF Call
<1>2. PICK c \in Nat :
        /\ Cardinality(Written(q, call.len)) = c
        /\ [k \in 1..Cardinality(Written(q, call.len)) |-> base[q] + Min(Written(q, call.len)) + k]
             = [k \in 1..c |-> base[q] + w_off[q] + k]
  BY <1>1, WrittenFacts DEF TypeInv
<1>3. Writes(p, call, q, c)
  BY <1>2, Zenon DEF pipe_write, Writes
<1> QED BY <1>3

(* A read takes the first n bytes of the pipe's buffer, or waits.          *)
Reads(p, call, q, n) ==
  IF cb[q] = <<>>
    THEN task_r' = [task_r EXCEPT ![q] = p] /\ Suspends(p, call) /\ UNCHANGED <<cb, got>>
    ELSE /\ n <= Len(cb[q])
         /\ cb' = [cb EXCEPT ![q] = SubSeq(cb[q], n + 1, Len(cb[q]))]
         /\ got' = [got EXCEPT ![q] = @ + n]
         /\ task_r' = [task_r EXCEPT ![q] = NULL]
         /\ Answers(p)

LEMMA ReadEffect ==
  ASSUME TypeInv, NEW p \in Proc, NEW call \in Call, NEW q \in Pipe, pipe_read(p, call, q)
  PROVE  \E n \in Nat : Reads(p, call, q, n)
<1>1. PICK n : n = Min({call.len, Len(cb[q])})
  OBVIOUS
<1>2. call.len \in Nat /\ cb[q] \in Seq(Nat) /\ Len(cb[q]) \in Nat
  BY BoundsAssumption DEF Call, TypeInv, StreamTyped
<1>3. n \in Nat /\ n <= Len(cb[q])
  BY <1>1, <1>2, MinOfTwo
<1>4. Reads(p, call, q, n)
  BY <1>1, <1>3 DEF pipe_read, Reads, TypeInv, StreamTyped
<1> QED BY <1>3, <1>4

LEMMA ReadTyped ==
  ASSUME TypeInv, NEW p \in Proc, NEW call \in Call, NEW q \in Pipe, pipe_read(p, call, q)
  PROVE  TypeInv'
<1>1. UNCHANGED <<vparent, fds, live, usage_count, linked, pipes, task_w, w_off, base, setting>>
  BY DEF pipe_read
<1>2. PICK n \in Nat : Reads(p, call, q, n)
  BY ReadEffect
<1>3. ProcTyped'
  BY <1>1, <1>2, NoCallTyped DEF Reads, Suspends, Answers, TypeInv, ProcTyped, State
<1>4. StreamTyped'
  <2>1. PICK T : T = SubSeq(cb[q], n + 1, Len(cb[q]))
    OBVIOUS
  <2>2. T \in Seq(Nat)
    <3>1. cb[q] \in Seq(Nat)
      BY DEF TypeInv, StreamTyped
    <3> QED BY <2>1, <3>1
  <2>3. task_r' \in [Pipe -> Proc \cup {NULL}] /\ got' \in [Pipe -> Nat]
    <3>1. CASE cb[q] = <<>>
      BY <1>2, <3>1 DEF Reads, TypeInv, StreamTyped
    <3>2. CASE cb[q] # <<>>
      <4>1. got' = [got EXCEPT ![q] = got[q] + n] /\ task_r' = [task_r EXCEPT ![q] = NULL]
        BY <1>2, <3>2 DEF Reads, TypeInv, StreamTyped
      <4> QED BY <4>1 DEF TypeInv, StreamTyped
    <3> QED BY <3>1, <3>2
  <2>4. cb' \in [Pipe -> Seq(Nat)]
    BY <1>2, <2>1, <2>2, Zenon DEF Reads, TypeInv, StreamTyped
  <2> QED BY <1>1, <2>3, <2>4 DEF TypeInv, StreamTyped
<1> QED BY <1>1, <1>3, <1>4 DEF TypeInv, FileTyped, PipeTyped, pipes

LEMMA WriteTyped ==
  ASSUME TypeInv, NEW p \in Proc, NEW call \in Call, NEW q \in Pipe, pipe_write(p, call, q)
  PROVE  TypeInv'
<1>1. UNCHANGED <<vparent, fds, live, usage_count, linked, pipes, task_r, got, setting>>
  BY DEF pipe_write
<1>2. PICK c \in Nat : Writes(p, call, q, c)
  BY WriteEffect
<1>3. ProcTyped'
  BY <1>1, <1>2, NoCallTyped DEF Writes, Suspends, Answers, TypeInv, ProcTyped, State
<1>4. StreamTyped'
  <2>1. cb[q] \in Seq(Nat) /\ base[q] \in Nat /\ w_off[q] \in Nat /\ w_off[q] \in 0..MaxLen /\ call.len \in 0..MaxLen
    BY BoundsAssumption DEF TypeInv, StreamTyped, Call
  <2>2. [k \in 1..c |-> base[q] + w_off[q] + k] \in Seq(Nat)
    <3>1. \A k \in 1..c : base[q] + w_off[q] + k \in Nat
      BY <2>1
    <3> QED BY <3>1
  <2>3. cb' \in [Pipe -> Seq(Nat)]
    <3>1. PICK T : T = [k \in 1..c |-> base[q] + w_off[q] + k]
      OBVIOUS
    <3>2. cb[q] \o T \in Seq(Nat)
      BY <2>1, <2>2, <3>1
    <3>3. cb' = [cb EXCEPT ![q] = cb[q] \o T]
      BY <1>2, <3>1 DEF Writes, TypeInv, StreamTyped
    <3> QED BY <3>2, <3>3 DEF TypeInv, StreamTyped
  <2>4. /\ task_w' \in [Pipe -> Proc \cup {NULL}] /\ w_off' \in [Pipe -> 0..MaxLen] /\ base' \in [Pipe -> Nat]
    <3>1. CASE w_off[q] + c < call.len
      <4>1. w_off[q] + c \in 0..MaxLen
        BY <2>1, <3>1, BoundsAssumption
      <4> QED BY <1>2, <3>1, <4>1 DEF Writes, TypeInv, StreamTyped
    <3>2. CASE ~(w_off[q] + c < call.len)
      <4>1. 0 \in 0..MaxLen /\ base[q] + (w_off[q] + c) \in Nat
        BY <2>1, BoundsAssumption
      <4>2. /\ task_w' = [task_w EXCEPT ![q] = NULL] /\ w_off' = [w_off EXCEPT ![q] = 0]
            /\ base' = [base EXCEPT ![q] = base[q] + (w_off[q] + c)]
        BY <1>2, <3>2 DEF Writes
      <4>3. base' \in [Pipe -> Nat]
        BY <4>1, <4>2 DEF TypeInv, StreamTyped
      <4>4. task_w' \in [Pipe -> Proc \cup {NULL}] /\ w_off' \in [Pipe -> 0..MaxLen]
        BY <4>1, <4>2 DEF TypeInv, StreamTyped
      <4> QED BY <4>3, <4>4
    <3> QED BY <3>1, <3>2
  <2> QED BY <1>1, <2>3, <2>4 DEF TypeInv, StreamTyped
<1> QED BY <1>1, <1>3, <1>4 DEF TypeInv, FileTyped, PipeTyped, pipes

(* Types are kept by every step, *)
LEMMA TypeStep == TypeInv /\ [Next]_vars => TypeInv'
<1> SUFFICES ASSUME TypeInv, [Next]_vars
             PROVE  TypeInv'
  OBVIOUS
<1>1. CASE UNCHANGED vars
  BY <1>1
  DEF vars, procs, pipes, stream, TypeInv, ProcTyped, FileTyped, PipeTyped, StreamTyped
<1>2. ASSUME NEW p \in Proc,
             sys_unlink_hdlr(p) \/ scheduler_exec(p) \/ Exit(p) \/ Signal(p)
      PROVE  TypeInv'
  <2>1. UNCHANGED <<fds, usage_count, pipes, stream, setting>>
    BY <1>2 DEF sys_unlink_hdlr, scheduler_exec, Exit, Signal
  <2>2. ProcTyped'
    BY <1>2 DEF sys_unlink_hdlr, scheduler_exec, Exit, Signal, procs, TypeInv, ProcTyped, State
  <2>3. live' \subseteq Node /\ linked' \in File \cup {NULL}
    BY <1>2 DEF sys_unlink_hdlr, scheduler_exec, Exit, Signal, TypeInv, FileTyped
  <2> QED BY <2>1, <2>2, <2>3 DEF pipes, stream, TypeInv, FileTyped, PipeTyped, StreamTyped
<1>3. CASE Next
  BY <1>2, <1>3, OpenTyped, PipeCallTyped, DupTyped, Dup2Typed, CloseTyped, VforkTyped, DestroyTyped,
     ReadTyped, WriteTyped
  DEF Next
<1> QED BY <1>1, <1>3

(* and the first state has them.                                           *)
LEMMA TypeFirst == Init => TypeInv
<1> SUFFICES ASSUME Init PROVE TypeInv
  OBVIOUS
<1>1. ProcTyped
  BY ProcAssumption, NoCallTyped DEF Init, ProcTyped, State
<1>2. FileTyped
  BY BoundsAssumption DEF Init, FileTyped, Tables
<1>3. PipeTyped /\ StreamTyped
  BY BoundsAssumption DEF Init, PipeTyped, StreamTyped
<1> QED BY <1>1, <1>2, <1>3 DEF TypeInv, Init

LEMMA TypeInvHolds == Spec => []TypeInv
BY TypeFirst, TypeStep, PTL DEF Spec

(* Every variable has its type. *)
THEOREM TypeCorrect == Spec => []TypeOK
BY TypeInvHolds, TypeInvParts, PTL
-----------------------------------------------------------------------------
(* What is read is what was written: the pipes that remain of a close, and *)
(* the other pipes of a read or a write, are as they were.                 *)
InOrder(q) ==
  /\ \A k \in DOMAIN cb[q] : cb[q][k] = got[q] + k
  /\ got[q] + Len(cb[q]) = base[q] + w_off[q]

LEMMA StreamKept ==
  ASSUME BytesInOrder, UNCHANGED stream, pp' \subseteq pp
  PROVE  BytesInOrder'
BY DEF BytesInOrder, stream

LEMMA PipeCallInOrder ==
  ASSUME TypeInv, BytesInOrder, NEW p \in Proc, sys_pipe2_hdlr(p)
  PROVE  BytesInOrder'
<1>1. PICK q \in Pipe :
        /\ w_off' = [w_off EXCEPT ![q] = 0] /\ cb' = [cb EXCEPT ![q] = <<>>]
        /\ base' = [base EXCEPT ![q] = 0] /\ got' = [got EXCEPT ![q] = 0]
        /\ pp' = pp \cup {q}
  BY DEF sys_pipe2_hdlr
<1>2. /\ \A x \in Pipe \ {q} : w_off'[x] = w_off[x] /\ cb'[x] = cb[x] /\ base'[x] = base[x] /\ got'[x] = got[x]
      /\ w_off'[q] = 0 /\ cb'[q] = <<>> /\ base'[q] = 0 /\ got'[q] = 0 /\ pp \subseteq Pipe
  BY <1>1 DEF TypeInv, StreamTyped, PipeTyped
<1>3. InOrder(q)'
  BY <1>2 DEF InOrder
<1>4. ASSUME NEW x \in pp \ {q}
      PROVE  InOrder(x)'
  BY <1>2 DEF InOrder, BytesInOrder
<1> QED BY <1>1, <1>3, <1>4 DEF BytesInOrder, InOrder

LEMMA ReadInOrder ==
  ASSUME TypeInv, BytesInOrder, NEW p \in Proc, NEW call \in Call, NEW q \in Pipe, pipe_read(p, call, q)
  PROVE  BytesInOrder'
<1>1. UNCHANGED <<pp, w_off, base>> /\ pp \subseteq Pipe
  BY DEF pipe_read, pipes, TypeInv, PipeTyped
<1>2. PICK n \in Nat : Reads(p, call, q, n)
  BY ReadEffect
<1>3. CASE cb[q] = <<>>
  BY <1>1, <1>2, <1>3 DEF Reads, BytesInOrder
<1>4. CASE cb[q] # <<>>
  <2>1. PICK B \in Seq(Nat) : B = cb[q]
    BY DEF TypeInv, StreamTyped
  <2>2. /\ n <= Len(B)
        /\ cb' = [cb EXCEPT ![q] = SubSeq(B, n + 1, Len(B))]
        /\ got' = [got EXCEPT ![q] = got[q] + n]
    BY <1>2, <1>4, <2>1 DEF Reads, TypeInv, StreamTyped
  <2>3. /\ \A x \in Pipe \ {q} : cb'[x] = cb[x] /\ got'[x] = got[x]
        /\ cb'[q] = SubSeq(B, n + 1, Len(B)) /\ got'[q] = got[q] + n
        /\ got[q] \in Nat /\ base[q] \in Nat /\ w_off[q] \in Int
    BY <2>2 DEF TypeInv, StreamTyped
  <2>4. /\ DOMAIN SubSeq(B, n + 1, Len(B)) = 1..(Len(B) - n) /\ Len(SubSeq(B, n + 1, Len(B))) = Len(B) - n
        /\ \A k \in 1..(Len(B) - n) : SubSeq(B, n + 1, Len(B))[k] = B[n + k]
    BY <2>2
  <2>5. ASSUME q \in pp PROVE InOrder(q)'
    <3>1. (\A k \in DOMAIN B : B[k] = got[q] + k) /\ got[q] + Len(B) = base[q] + w_off[q]
      BY <2>1, <2>5 DEF BytesInOrder
    <3>2. ASSUME NEW k \in 1..(Len(B) - n)
          PROVE  cb'[q][k] = got'[q] + k
      <4>1. n + k \in DOMAIN B
        BY <2>2
      <4>2. cb'[q][k] = B[n + k] /\ got'[q] = got[q] + n /\ got[q] \in Nat
        BY <2>3, <2>4, Zenon
      <4>3. B[n + k] = got[q] + (n + k)
        BY <3>1, <4>1, Zenon
      <4>4. k \in Int /\ \A g \in Nat : g + (n + k) = (g + n) + k
        OBVIOUS
      <4> QED BY <4>2, <4>3, <4>4, Zenon
    <3>3. got'[q] + Len(cb'[q]) = base'[q] + w_off'[q]
      <4>1. Len(cb'[q]) = Len(B) - n /\ Len(B) \in Nat
        BY <2>3, <2>4
      <4>2. base'[q] = base[q] /\ w_off'[q] = w_off[q]
        BY <1>1
      <4>3. got'[q] = got[q] + n /\ got[q] \in Nat
        BY <2>3
      <4>4. got[q] + n + (Len(B) - n) = got[q] + Len(B)
        BY <4>1, <4>3
      <4>5. got'[q] + Len(cb'[q]) = got[q] + Len(B)
        BY <4>1, <4>3, <4>4
      <4> QED BY <3>1, <4>2, <4>5
    <3> QED BY <2>3, <2>4, <3>2, <3>3 DEF InOrder
  <2>6. ASSUME NEW x \in pp \ {q} PROVE InOrder(x)'
    <3>1. x \in Pipe \ {q} /\ x \in pp
      BY <1>1, <2>6, Zenon
    <3>2. InOrder(x)
      BY <3>1, Zenon DEF InOrder, BytesInOrder
    <3>3. cb'[x] = cb[x] /\ got'[x] = got[x] /\ base' = base /\ w_off' = w_off
      BY <1>1, <2>3, <3>1, Zenon
    <3> QED BY <3>2, <3>3, Zenon DEF InOrder
  <2> QED BY <1>1, <2>5, <2>6 DEF BytesInOrder, InOrder
<1> QED BY <1>3, <1>4

LEMMA WriteInOrder ==
  ASSUME TypeInv, BytesInOrder, NEW p \in Proc, NEW call \in Call, NEW q \in Pipe, pipe_write(p, call, q)
  PROVE  BytesInOrder'
<1>1. UNCHANGED <<pp, got>> /\ pp \subseteq Pipe
  BY DEF pipe_write, pipes, TypeInv, PipeTyped
<1>2. PICK c \in Nat : Writes(p, call, q, c)
  BY WriteEffect
<1>3. cb[q] \in Seq(Nat) /\ got[q] \in Nat /\ base[q] \in Nat /\ w_off[q] \in Nat
  BY BoundsAssumption DEF TypeInv, StreamTyped
<1>4. PICK B, T : B = cb[q] /\ T = [k \in 1..c |-> base[q] + w_off[q] + k]
  OBVIOUS
<1>5. /\ cb'[q] = B \o T
      /\ \A x \in Pipe \ {q} : cb'[x] = cb[x] /\ base'[x] = base[x] /\ w_off'[x] = w_off[x]
  <2>1. cb' = [cb EXCEPT ![q] = B \o T]
    BY <1>2, <1>4 DEF Writes, TypeInv, StreamTyped
  <2>2. cb'[q] = B \o T /\ \A x \in Pipe \ {q} : cb'[x] = cb[x]
    BY <2>1 DEF TypeInv, StreamTyped
  <2>3. \A x \in Pipe \ {q} : w_off'[x] = w_off[x]
    BY <1>2 DEF Writes, TypeInv, StreamTyped
  <2>4. \A x \in Pipe \ {q} : base'[x] = base[x]
    BY <1>2 DEF Writes, TypeInv, StreamTyped
  <2> QED BY <2>2, <2>3, <2>4, Zenon
<1>6. base'[q] + w_off'[q] = base[q] + w_off[q] + c
  <2>1. CASE w_off[q] + c < call.len
    BY <1>2, <1>3, <2>1 DEF Writes, TypeInv, StreamTyped
  <2>2. CASE ~(w_off[q] + c < call.len)
    <3>1. base' = [base EXCEPT ![q] = base[q] + (w_off[q] + c)] /\ w_off' = [w_off EXCEPT ![q] = 0]
      BY <1>2, <2>2, Zenon DEF Writes, TypeInv, StreamTyped
    <3>2. base'[q] = base[q] + (w_off[q] + c) /\ w_off'[q] = 0
      BY <3>1 DEF TypeInv, StreamTyped
    <3> QED BY <1>3, <3>2
  <2> QED BY <2>1, <2>2
<1>7. /\ B \in Seq(Nat) /\ T \in Seq(Nat) /\ Len(T) = c /\ Len(B \o T) = Len(B) + c
      /\ DOMAIN (B \o T) = 1..(Len(B) + c)
      /\ \A k \in 1..(Len(B) + c) : (B \o T)[k] = IF k <= Len(B) THEN B[k] ELSE T[k - Len(B)]
  <2>1. \A k \in 1..c : base[q] + w_off[q] + k \in Nat
    BY <1>3
  <2>2. T \in Seq(Nat) /\ Len(T) = c
    BY <1>4, <2>1
  <2> QED BY <1>3, <1>4, <2>2
<1>8. ASSUME q \in pp PROVE InOrder(q)'
  <2>1. (\A k \in DOMAIN B : B[k] = got[q] + k) /\ got[q] + Len(B) = base[q] + w_off[q]
    BY <1>4, <1>8 DEF BytesInOrder
  <2>2. ASSUME NEW k \in 1..(Len(B) + c)
        PROVE  (B \o T)[k] = got[q] + k
    <3>1. CASE k <= Len(B)
      BY <1>7, <2>1, <3>1
    <3>2. CASE k > Len(B)
      <4>1. PICK j : j = k - Len(B)
        OBVIOUS
      <4>2. j \in 1..c /\ T[j] = base[q] + w_off[q] + j
        BY <1>4, <1>7, <3>2, <4>1
      <4>3. (B \o T)[k] = base[q] + w_off[q] + j
        BY <1>7, <3>2, <4>1, <4>2
      <4>4. Len(B) \in Nat /\ j \in Nat
        BY <1>7, <4>2
      <4>5. got[q] + Len(B) + j = base[q] + w_off[q] + j
        BY <1>3, <2>1, <4>4
      <4>6. Len(B) + j = k
        BY <4>1, <4>4
      <4> QED BY <1>3, <4>3, <4>4, <4>5, <4>6
    <3> QED BY <1>7, <3>1, <3>2
  <2>3. got'[q] + Len(cb'[q]) = base'[q] + w_off'[q]
    BY <1>1, <1>3, <1>5, <1>6, <1>7, <2>1
  <2> QED BY <1>1, <1>5, <1>7, <2>2, <2>3 DEF InOrder
<1>9. ASSUME NEW x \in pp \ {q} PROVE InOrder(x)'
  BY <1>1, <1>5, <1>9 DEF InOrder, BytesInOrder
<1> QED BY <1>1, <1>8, <1>9 DEF BytesInOrder, InOrder

LEMMA InOrderStep == TypeInv /\ BytesInOrder /\ [Next]_vars => BytesInOrder'
<1> SUFFICES ASSUME TypeInv, BytesInOrder, [Next]_vars
             PROVE  BytesInOrder'
  OBVIOUS
<1>1. CASE UNCHANGED vars
  BY <1>1, StreamKept DEF vars, pipes
<1>2. ASSUME NEW p \in Proc,
             \/ sys_open_hdlr(p) \/ sys_unlink_hdlr(p) \/ sys_dup_hdlr(p) \/ sys_vfork_hdlr(p)
             \/ scheduler_exec(p) \/ Exit(p) \/ Signal(p)
      PROVE  BytesInOrder'
  <2>1. UNCHANGED <<pipes, stream>>
    BY <1>2 DEF sys_open_hdlr, sys_unlink_hdlr, sys_dup_hdlr, sys_vfork_hdlr, scheduler_exec, Exit, Signal
  <2> QED BY <2>1, StreamKept DEF pipes
<1>3. ASSUME NEW p \in Proc,
             sys_dup2_hdlr(p) \/ (\E i \in 1..MaxFd : sys_close_hdlr(p, i)) \/ task_destroy(p)
      PROVE  BytesInOrder'
  <2>1. UNCHANGED stream
    BY <1>3 DEF sys_dup2_hdlr, sys_close_hdlr, task_destroy
  <2>2. pp' \subseteq pp
    <3>1. CASE sys_dup2_hdlr(p)
      BY <3>1, Dup2Effect DEF CloseGives, pipes
    <3>2. CASE \E i \in 1..MaxFd : sys_close_hdlr(p, i)
      BY <3>2, CloseEffect DEF Closes, CloseGives
    <3>3. CASE task_destroy(p)
      BY <3>3, DestroyEffect DEF CloseGives
    <3> QED BY <1>3, <3>1, <3>2, <3>3
  <2> QED BY <2>1, <2>2, StreamKept
<1>4. CASE Next
  BY <1>2, <1>3, <1>4, PipeCallInOrder, ReadInOrder, WriteInOrder DEF Next
<1> QED BY <1>1, <1>4

(* What a reader gets is what the writer has written, each byte once and   *)
(* in order.                                                               *)
THEOREM BytesInOrderHolds == Spec => []BytesInOrder
<1>1. Init => BytesInOrder
  BY DEF Init, BytesInOrder
<1> QED BY <1>1, InOrderStep, TypeInvHolds, PTL DEF Spec
-----------------------------------------------------------------------------
(* A process structure that is free has no descriptors, so that a child    *)
(* starts with none of its own.                                            *)
FreeIsEmpty == \A p \in Proc : state[p] = "FREE" => fds[p] = <<>>

LEMMA FreeStep == TypeInv /\ FreeIsEmpty /\ [Next]_vars => FreeIsEmpty'
<1> SUFFICES ASSUME TypeInv, FreeIsEmpty, [Next]_vars
             PROVE  FreeIsEmpty'
  OBVIOUS
<1> USE DEF FreeIsEmpty
<1>1. ASSUME UNCHANGED fds, \A r \in Proc : state'[r] = "FREE" => state[r] = "FREE"
      PROVE  FreeIsEmpty'
  BY <1>1
<1>2. ASSUME NEW p \in Proc, state[p] # "FREE", \A r \in Proc \ {p} : fds'[r] = fds[r],
             \A r \in Proc : state'[r] = "FREE" => state[r] = "FREE"
      PROVE  FreeIsEmpty'
  BY <1>2
<1>3. CASE UNCHANGED vars
  BY <1>1, <1>3 DEF vars, procs
<1>4. fds \in [Proc -> Seq(Entry)] /\ state \in [Proc -> State]
  BY DEF TypeInv, FileTyped, ProcTyped, Tables
<1>5. ASSUME NEW p \in Proc, sys_open_hdlr(p) \/ sys_pipe2_hdlr(p) \/ sys_dup_hdlr(p)
      PROVE  FreeIsEmpty'
  <2>1. state[p] # "FREE" /\ UNCHANGED state
    BY <1>5 DEF sys_open_hdlr, sys_pipe2_hdlr, sys_dup_hdlr, Calls, procs
  <2>2. \A r \in Proc \ {p} : fds'[r] = fds[r]
    BY <1>4, <1>5, Zenon DEF sys_open_hdlr, OpenFound, OpenCreates, sys_pipe2_hdlr, sys_dup_hdlr, AddFiles
  <2> QED BY <1>2, <2>1, <2>2
<1>6. ASSUME NEW p \in Proc, sys_dup2_hdlr(p)
      PROVE  FreeIsEmpty'
  <2>1. state[p] # "FREE" /\ \A r \in Proc \ {p} : fds'[r] = fds[r]
    BY <1>4, <1>6 DEF sys_dup2_hdlr, Calls
  <2>2. \A r \in Proc : state'[r] = "FREE" => state[r] = "FREE"
    BY <1>6, Dup2Effect DEF CloseGives
  <2> QED BY <1>2, <2>1, <2>2
<1>7. ASSUME NEW p \in Proc, NEW i, sys_close_hdlr(p, i)
      PROVE  FreeIsEmpty'
  <2>1. state[p] # "FREE" /\ \A r \in Proc \ {p} : fds'[r] = fds[r]
    BY <1>4, <1>7 DEF sys_close_hdlr, Calls, Del
  <2>2. PICK o, d, st : Closes(o, d, st)
    BY <1>7, CloseEffect
  <2>3. \A r \in Proc : state'[r] = "FREE" => state[r] = "FREE"
    BY <2>2 DEF Closes, CloseGives
  <2> QED BY <1>2, <2>1, <2>3
<1>8. ASSUME NEW p \in Proc, sys_vfork_hdlr(p)
      PROVE  FreeIsEmpty'
  <2>1. PICK c \in Proc : state' = [state EXCEPT ![c] = "READY", ![p] = "FORKED"] /\ Inherits(c, p)
    BY <1>8, VforkEffect
  <2> QED BY <1>4, <2>1 DEF Inherits
<1>9. ASSUME NEW p \in Proc, task_destroy(p)
      PROVE  FreeIsEmpty'
  <2>1. GivesUp(p) /\ \E S : CloseGives(S, [state EXCEPT ![p] = "FREE"])
    BY <1>9, DestroyEffect
  <2> QED BY <1>4, <2>1 DEF GivesUp, CloseGives
<1>10. ASSUME NEW p \in Proc, NEW call, NEW q,
              \/ sys_unlink_hdlr(p) \/ scheduler_exec(p) \/ Exit(p) \/ Signal(p)
              \/ pipe_read(p, call, q) \/ pipe_write(p, call, q)
       PROVE  FreeIsEmpty'
  <2>1. UNCHANGED fds
    BY <1>10 DEF sys_unlink_hdlr, scheduler_exec, Exit, Signal, pipe_read, pipe_write
  <2>2. \A r \in Proc : state'[r] = "FREE" => state[r] = "FREE"
    BY <1>4, <1>10
    DEF sys_unlink_hdlr, procs, scheduler_exec, Exit, Signal, pipe_read, pipe_write, Suspends, Answers
  <2> QED BY <1>1, <2>1, <2>2
<1>11. CASE Next
  BY <1>5, <1>6, <1>7, <1>8, <1>9, <1>10, <1>11 DEF Next
<1> QED BY <1>3, <1>11

(* The file that the path names, and the open ends of pipes, are           *)
(* allocated; an allocated pipe has an end that is open.                   *)
PathIsLive == linked # NULL => linked \in live
EndsAreOpen == \A n \in live \cap End : n[2] \in ends[n[1]]
PipesHaveEnds == \A q \in pp : ends[q] # {}
NodesInv == PathIsLive /\ EndsAreOpen /\ PipesHaveEnds

(* No close disturbs that. *)
LEMMA CloseNodes ==
  ASSUME TypeInv, NodesInv, UNCHANGED linked, NEW S, NEW st, CloseGives(S, st)
  PROVE  NodesInv'
<1>1. linked \in File \cup {NULL}
  BY DEF TypeInv, FileTyped
<1>2. PathIsLive'
  BY <1>1, NodeAssumption DEF CloseGives, NodesInv, PathIsLive
<1>3. EndsAreOpen'
  BY DEF CloseGives, NodesInv, EndsAreOpen
<1>4. PipesHaveEnds'
  BY DEF CloseGives, PipesHaveEnds
<1> QED BY <1>2, <1>3, <1>4 DEF NodesInv

LEMMA NodesStep == TypeInv /\ NodesInv /\ [Next]_vars => NodesInv'
<1> SUFFICES ASSUME TypeInv, NodesInv, [Next]_vars
             PROVE  NodesInv'
  OBVIOUS
<1>1. ASSUME UNCHANGED <<live, linked, pipes>> PROVE NodesInv'
  BY <1>1 DEF NodesInv, PathIsLive, EndsAreOpen, PipesHaveEnds, pipes
<1>2. CASE UNCHANGED vars
  BY <1>1, <1>2 DEF vars
<1>3. ASSUME NEW p \in Proc, NEW call, NEW q,
             \/ sys_dup_hdlr(p) \/ sys_vfork_hdlr(p) \/ scheduler_exec(p) \/ Exit(p) \/ Signal(p)
             \/ pipe_read(p, call, q) \/ pipe_write(p, call, q)
      PROVE  NodesInv'
  BY <1>1, <1>3 DEF sys_dup_hdlr, sys_vfork_hdlr, scheduler_exec, Exit, Signal, pipe_read, pipe_write
<1>4. ASSUME NEW p \in Proc, sys_open_hdlr(p)
      PROVE  NodesInv'
  <2>1. PICK f \in File : Opens(f)
    BY <1>4, OpenEffect
  <2>2. linked' = f /\ f \notin End /\ live' \subseteq live \cup {f} /\ UNCHANGED pipes
    BY <1>4, <2>1, NodeAssumption DEF Opens, sys_open_hdlr
  <2>3. PathIsLive'
    BY <2>1, NodeAssumption DEF Opens, NodesInv, PathIsLive, Node
  <2> QED BY <2>2, <2>3 DEF NodesInv, EndsAreOpen, PipesHaveEnds, pipes
<1>5. ASSUME NEW p \in Proc, sys_unlink_hdlr(p)
      PROVE  NodesInv'
  BY <1>5 DEF sys_unlink_hdlr, pipes, NodesInv, PathIsLive, EndsAreOpen, PipesHaveEnds
<1>6. ASSUME NEW p \in Proc, sys_pipe2_hdlr(p)
      PROVE  NodesInv'
  <2>1. PICK q, r, w, F : q \in Pipe \ pp /\ Pipes(q, r, w, F)
    BY <1>6, PipeEffect
  <2>2. UNCHANGED linked /\ live' = live \cup {r, w}
    BY <1>6, <2>1 DEF sys_pipe2_hdlr, Pipes
  <2>3. /\ ends'[q] = {"r", "w"} /\ \A x \in Pipe \ {q} : ends'[x] = ends[x]
        /\ pp' = pp \cup {q} /\ pp \subseteq Pipe /\ r[1] = q /\ w[1] = q
    BY <2>1 DEF Pipes, TypeInv, PipeTyped
  <2>4. EndsAreOpen'
    <3>1. ASSUME NEW n \in End, n \in live \cup {r, w}
          PROVE  n[2] \in ends'[n[1]]
      <4>1. n[1] \in Pipe /\ n[2] \in {"r", "w"}
        BY DEF End
      <4>2. CASE n[1] = q
        BY <2>3, <4>1, <4>2
      <4>3. CASE n[1] # q
        BY <2>3, <3>1, <4>1, <4>3 DEF NodesInv, EndsAreOpen
      <4> QED BY <4>2, <4>3
    <3> QED BY <2>2, <3>1 DEF EndsAreOpen
  <2>5. PathIsLive' /\ PipesHaveEnds'
    BY <2>2, <2>3 DEF NodesInv, PathIsLive, PipesHaveEnds
  <2> QED BY <2>4, <2>5 DEF NodesInv
<1>7. ASSUME NEW p \in Proc, sys_dup2_hdlr(p)
      PROVE  NodesInv'
  <2>1. PICK o \in Entry :
          IF o = NULL THEN UNCHANGED <<usage_count, state, live, pipes>>
          ELSE CloseGives({n \in {o} : usage_count'[n] <= 0}, state)
    BY <1>7, Dup2Effect
  <2>2. UNCHANGED linked
    BY <1>7 DEF sys_dup2_hdlr
  <2>3. PICK S : S = {n \in {o} : usage_count'[n] <= 0}
    OBVIOUS
  <2> QED BY <1>1, <2>1, <2>2, <2>3, CloseNodes
<1>8. ASSUME NEW p \in Proc, NEW i, sys_close_hdlr(p, i)
      PROVE  NodesInv'
  <2>1. PICK o, d, st : Closes(o, d, st)
    BY <1>8, CloseEffect
  <2>2. UNCHANGED linked /\ CloseGives({o}, st)
    BY <1>8, <2>1 DEF sys_close_hdlr, Closes
  <2> QED BY <2>2, CloseNodes
<1>9. ASSUME NEW p \in Proc, task_destroy(p)
      PROVE  NodesInv'
  <2>1. PICK S, st : CloseGives(S, st)
    BY <1>9, DestroyEffect
  <2>2. UNCHANGED linked
    BY <1>9 DEF task_destroy
  <2> QED BY <2>1, <2>2, CloseNodes
<1>10. CASE Next
  BY <1>3, <1>4, <1>5, <1>6, <1>7, <1>8, <1>9, <1>10 DEF Next
<1> QED BY <1>2, <1>10
-----------------------------------------------------------------------------
(* The accounts of nodes and descriptors.  The count of an allocated node  *)
(* is never more than its descriptors, and without dup2 it is exact.       *)
Below == \A n \in live : usage_count[n] <= Cardinality(Desc(fds, n))
Exact == "dup2" \notin setting => \A n \in live : usage_count[n] = Cardinality(Desc(fds, n))
(* An allocated end has a descriptor, just one where programs do not dup2  *)
(* or share ends.                                                          *)
Held == \A n \in live \cap End : Desc(fds, n) # {}
Owned ==
  setting \cap {"dup2", "share"} = {} => \A n \in End : \A d, e \in Desc(fds, n) : d = e
(* Where nothing is freed that is in use, what is not allocated has none.  *)
Gone ==
  setting \cap {"dup2", "unlink", "share"} = {} => \A n \in Node \ live : Desc(fds, n) = {}
Books == Below /\ Exact /\ Held /\ Owned /\ Gone

(* One descriptor more, or less.                                           *)
LEMMA AddsCounts ==
  ASSUME NEW F, NEW G, NEW m \in Node, AddsOne(F, G, m)
  PROVE  \A n \in Node :
           /\ Desc(F, n) \subseteq Desc(G, n)
           /\ n # m => Desc(G, n) = Desc(F, n)
           /\ Cardinality(Desc(G, n)) = IF n = m THEN Cardinality(Desc(F, n)) + 1 ELSE Cardinality(Desc(F, n))
<1>1. PICK d : /\ \A n \in Node : d \notin Desc(F, n)
               /\ \A n \in Node : Desc(G, n) = IF n = m THEN Desc(F, n) \cup {d} ELSE Desc(F, n)
  BY DEF AddsOne
<1>2. Cardinality(Desc(F, m) \cup {d}) = Cardinality(Desc(F, m)) + 1
  BY <1>1, DescFinite, FS_AddElement
<1> QED BY <1>1, <1>2

LEMMA TakesOne ==
  ASSUME NEW F, NEW G, NEW m, NEW d, Desc(G, m) = Desc(F, m) \ {d}, d \in Desc(F, m)
  PROVE  Cardinality(Desc(G, m)) = Cardinality(Desc(F, m)) - 1
<1>1. PICK A : A = Desc(F, m) /\ IsFiniteSet(A)
  BY DescFinite
<1>2. Cardinality(A \ {d}) = Cardinality(A) - 1
  BY <1>1, FS_RemoveElement
<1> QED BY <1>1, <1>2, Zenon

(* Nothing changes if the descriptors, the counts and what is allocated do *)
(* not.                                                                    *)
LEMMA BooksKept ==
  ASSUME Books, UNCHANGED <<fds, usage_count, live, setting>>
  PROVE  Books'
BY DEF Books, Below, Exact, Held, Owned, Gone

LEMMA OpenBooks ==
  ASSUME TypeInv, NodesInv, Books, NEW p \in Proc, sys_open_hdlr(p)
  PROVE  Books'
<1>1. PICK f \in File : Opens(f)
  BY OpenEffect
<1>2. f \in Node /\ f \notin End /\ UNCHANGED setting
  BY NodeAssumption DEF Node, sys_open_hdlr
<1>3. \A n \in Node :
        /\ n # f => Desc(fds', n) = Desc(fds, n)
        /\ Cardinality(Desc(fds', n))
             = IF n = f THEN Cardinality(Desc(fds, n)) + 1 ELSE Cardinality(Desc(fds, n))
  BY <1>1, <1>2, AddsCounts DEF Opens
<1>4. live \subseteq Node /\ usage_count \in [Node -> Int] /\ linked \in File \cup {NULL}
  BY DEF TypeInv, FileTyped
<1>5. live' \subseteq live \cup {f} /\ live \cap End = live' \cap End /\ live \ {linked} \subseteq live' /\ f \in live'
  BY <1>1, <1>2, <1>4, NodeAssumption DEF Opens, NodesInv, PathIsLive
<1>6. /\ \A n \in live' \ {f} : usage_count'[n] = usage_count[n] /\ n \in live
      /\ \/ f \in live /\ usage_count'[f] = usage_count[f] + 1
         \/ usage_count'[f] = 1 /\ Cardinality(Desc(fds, f)) = 0
  BY <1>1, <1>2, <1>4, <1>5, DescFinite, NodeAssumption DEF Opens, NodesInv, PathIsLive
<1>7. Cardinality(Desc(fds, f)) \in Nat /\ usage_count[f] \in Int
  BY <1>2, <1>4, DescFinite
<1>8. Below'
  BY <1>3, <1>4, <1>5, <1>6, <1>7, <1>2 DEF Books, Below
<1>9. Exact'
  BY <1>3, <1>4, <1>5, <1>6, <1>7, <1>2 DEF Books, Exact
<1>10. Held' /\ Owned'
  BY <1>2, <1>3, <1>4, <1>5 DEF Books, Held, Owned, Node
<1>11. Gone'
  <2>1. ASSUME "unlink" \notin setting, NEW n \in Node \ live', n \in live
        PROVE  Desc(fds, n) = {}
    <3>1. n = linked /\ linked # f /\ linked # NULL
      BY <1>4, <1>5, <2>1, NodeAssumption
    <3>2. MayUnlink
      BY <1>1, <3>1 DEF Opens
    <3> QED BY <2>1, <3>1, <3>2, DescIsDescriptors DEF MayUnlink
  <2> QED BY <1>2, <1>3, <1>5, <2>1 DEF Books, Gone
<1> QED BY <1>8, <1>9, <1>10, <1>11 DEF Books

LEMMA UnlinkBooks ==
  ASSUME TypeInv, NodesInv, Books, NEW p \in Proc, sys_unlink_hdlr(p)
  PROVE  Books'
<1>1. MayUnlink /\ live' = live \ {linked} /\ UNCHANGED <<fds, usage_count, setting>>
  BY DEF sys_unlink_hdlr
<1>2. linked \in File /\ linked \notin End
  BY <1>1, NodeAssumption DEF MayUnlink, TypeInv, FileTyped
<1>3. "unlink" \notin setting => Desc(fds, linked) = {}
  BY <1>1, DescIsDescriptors DEF MayUnlink
<1> QED BY <1>1, <1>2, <1>3 DEF Books, Below, Exact, Held, Owned, Gone

LEMMA PipeCallBooks ==
  ASSUME TypeInv, NodesInv, Books, NEW p \in Proc, sys_pipe2_hdlr(p)
  PROVE  Books'
<1>1. PICK q, r, w, F : q \in Pipe \ pp /\ Pipes(q, r, w, F)
  BY PipeEffect
<1>2. r \in Node /\ w \in Node /\ r # w /\ r \in End /\ w \in End /\ live' = live \cup {r, w}
      /\ r \notin live /\ w \notin live /\ Desc(fds, r) = {} /\ Desc(fds, w) = {} /\ UNCHANGED setting
  BY <1>1 DEF Pipes, sys_pipe2_hdlr
<1>3. \A n \in Node :
        /\ n # r => Desc(F, n) = Desc(fds, n)
        /\ Desc(fds, n) \subseteq Desc(F, n)
        /\ Cardinality(Desc(F, n)) = IF n = r THEN Cardinality(Desc(fds, n)) + 1 ELSE Cardinality(Desc(fds, n))
  BY <1>1, <1>2, AddsCounts DEF Pipes
<1>4. \A n \in Node :
        /\ n # w => Desc(fds', n) = Desc(F, n)
        /\ Desc(F, n) \subseteq Desc(fds', n)
        /\ Cardinality(Desc(fds', n)) = IF n = w THEN Cardinality(Desc(F, n)) + 1 ELSE Cardinality(Desc(F, n))
  BY <1>1, <1>2, AddsCounts DEF Pipes
<1>5. live \subseteq Node /\ usage_count \in [Node -> Int]
  BY DEF TypeInv, FileTyped
<1>6. usage_count'[r] = 1 /\ usage_count'[w] = 1 /\ \A n \in live : usage_count'[n] = usage_count[n]
  BY <1>1, <1>2, <1>5 DEF Pipes
<1>7. Cardinality(Desc(fds, r)) = 0 /\ Cardinality(Desc(fds, w)) = 0
  BY <1>2, DescFinite
<1>8. Cardinality(Desc(fds', r)) = 1 /\ Cardinality(Desc(fds', w)) = 1
  BY <1>2, <1>3, <1>4, <1>7
<1>9. \A n \in Node \ {r, w} :
        Desc(fds', n) = Desc(fds, n) /\ Cardinality(Desc(fds', n)) = Cardinality(Desc(fds, n))
  BY <1>3, <1>4
<1>10. Below' /\ Exact'
  BY <1>2, <1>5, <1>6, <1>8, <1>9 DEF Books, Below, Exact
<1>11. Held'
  <2>1. Desc(fds', r) # {} /\ Desc(fds', w) # {}
    BY <1>8, FS_EmptySet
  <2> QED BY <1>2, <1>5, <1>9, <2>1 DEF Books, Held
<1>12. Owned'
  <2>1. /\ \A d, e \in Desc(fds', r) : d = e
        /\ \A d, e \in Desc(fds', w) : d = e
    <3>1. PICK x : \A n \in Node : Desc(F, n) = IF n = r THEN Desc(fds, n) \cup {x} ELSE Desc(fds, n)
      BY <1>1 DEF Pipes, AddsOne
    <3>2. PICK y : \A n \in Node : Desc(fds', n) = IF n = w THEN Desc(F, n) \cup {y} ELSE Desc(F, n)
      BY <1>1 DEF Pipes, AddsOne
    <3>3. Desc(fds', r) = {x} /\ Desc(fds', w) = {y}
      BY <1>2, <3>1, <3>2
    <3> QED BY <3>3
  <2> QED BY <1>2, <1>9, <2>1 DEF Books, Owned, Node
<1>13. Gone'
  BY <1>2, <1>9 DEF Books, Gone
<1> QED BY <1>10, <1>11, <1>12, <1>13 DEF Books

LEMMA DupBooks ==
  ASSUME TypeInv, Books, NEW p \in Proc, sys_dup_hdlr(p)
  PROVE  Books'
<1>1. PICK m \in live :
           /\ AddsOne(fds, fds', m) /\ MayShare(m)
           /\ usage_count' = [usage_count EXCEPT ![m] = @ + 1]
  BY DupEffect
<1>2. live \subseteq Node /\ usage_count \in [Node -> Int] /\ m \in Node /\ UNCHANGED <<live, setting>>
  BY DEF TypeInv, FileTyped, sys_dup_hdlr
<1>3. \A n \in Node :
        /\ Desc(fds, n) \subseteq Desc(fds', n)
        /\ n # m => Desc(fds', n) = Desc(fds, n)
        /\ Cardinality(Desc(fds', n)) = IF n = m THEN Cardinality(Desc(fds, n)) + 1 ELSE Cardinality(Desc(fds, n))
  BY <1>1, <1>2, AddsCounts
<1>4. \A n \in Node : usage_count'[n] = IF n = m THEN usage_count[n] + 1 ELSE usage_count[n]
  BY <1>1, <1>2
<1>5. \A n \in Node : Cardinality(Desc(fds, n)) \in Nat
  BY DescFinite
<1>6. Below' /\ Exact'
  BY <1>2, <1>3, <1>4, <1>5 DEF Books, Below, Exact
<1>7. Held' /\ Gone'
  BY <1>2, <1>3 DEF Books, Held, Gone
<1>8. Owned'
  BY <1>1, <1>2, <1>3 DEF Books, Owned, MayShare, Node
<1> QED BY <1>6, <1>7, <1>8 DEF Books

(* An end that is still allocated was not closed. *)
LEMMA NotShut ==
  ASSUME NodesInv, NEW S, NEW st, CloseGives(S, st), NEW n \in live' \cap End
  PROVE  n \in live /\ n \notin S
BY DEF CloseGives, NodesInv, EndsAreOpen

LEMMA Dup2Books ==
  ASSUME TypeInv, NodesInv, Books, NEW p \in Proc, sys_dup2_hdlr(p)
  PROVE  Books'
<1>1. PICK m, o, d :
        /\ m \in Node /\ o \in Entry
        /\ \A n \in Node : Desc(fds', n) = IF n = m THEN Desc(fds, n) \cup {d} ELSE Desc(fds, n) \ {d}
        /\ \A n \in Node : d \in Desc(fds, n) <=> n = o
        /\ IF o = NULL THEN UNCHANGED <<usage_count, state, live, pipes>>
           ELSE /\ o \in live
                /\ usage_count' = [usage_count EXCEPT ![o] = @ - 1]
                /\ CloseGives({n \in {o} : usage_count'[n] <= 0}, state)
  BY Dup2Effect
<1>2. "dup2" \in setting /\ UNCHANGED setting
  BY DEF sys_dup2_hdlr, Calls
<1>3. live \subseteq Node /\ usage_count \in [Node -> Int]
  BY DEF TypeInv, FileTyped
<1>4. ASSUME NEW n \in Node
      PROVE  /\ Cardinality(Desc(fds, n)) \in Nat /\ Cardinality(Desc(fds', n)) \in Nat
             /\ n = o /\ n # m => Cardinality(Desc(fds', n)) = Cardinality(Desc(fds, n)) - 1
             /\ n # o \/ n = m =>
                  Desc(fds, n) \subseteq Desc(fds', n) /\ Cardinality(Desc(fds, n)) <= Cardinality(Desc(fds', n))
  <2>1. Cardinality(Desc(fds, n)) \in Nat /\ Cardinality(Desc(fds', n)) \in Nat
    BY DescFinite
  <2>2. n = o /\ n # m => Cardinality(Desc(fds', n)) = Cardinality(Desc(fds, n)) - 1
    BY <1>1, TakesOne
  <2>3. n # o \/ n = m => Desc(fds, n) \subseteq Desc(fds', n)
    BY <1>1
  <2>4. Desc(fds, n) \subseteq Desc(fds', n) => Cardinality(Desc(fds, n)) <= Cardinality(Desc(fds', n))
    BY DescFinite, FS_Subset
  <2> QED BY <2>1, <2>2, <2>3, <2>4
<1>5. live' \subseteq live
  BY <1>1 DEF CloseGives
<1>6. \A n \in Node : usage_count'[n] = IF n = o THEN usage_count[n] - 1 ELSE usage_count[n]
  BY <1>1, <1>3, NodeAssumption
<1>7. Below'
  BY <1>3, <1>4, <1>5, <1>6 DEF Books, Below
<1>8. Held'
  <2>1. ASSUME NEW n \in live' \cap End
        PROVE  Desc(fds', n) # {}
    <3>1. n \in Node /\ n \in live
      BY <1>3, <1>5
    <3>2. CASE n # o \/ n = m
      BY <1>4, <3>1, <3>2 DEF Books, Held
    <3>3. CASE n = o
      <4>1. PICK S : S = {x \in {o} : usage_count'[x] <= 0}
        OBVIOUS
      <4>2. CloseGives(S, state)
        BY <1>1, <3>1, <3>3, <4>1, NodeAssumption
      <4>3. n \notin S
        BY <2>1, <4>2, NotShut
      <4>4. usage_count'[n] > 0
        BY <1>3, <1>6, <3>1, <3>3, <4>1, <4>3
      <4>5. Cardinality(Desc(fds', n)) > 0
        BY <1>3, <1>4, <1>6, <1>7, <2>1, <3>1, <4>4 DEF Below
      <4> QED BY <4>5, FS_EmptySet
    <3> QED BY <3>2, <3>3
  <2> QED BY <2>1 DEF Held
<1> QED BY <1>2, <1>7, <1>8 DEF Books, Exact, Owned, Gone

LEMMA CloseBooks ==
  ASSUME TypeInv, NodesInv, Books, NEW p \in Proc, NEW i, sys_close_hdlr(p, i)
  PROVE  Books'
<1>1. PICK o, d, st : o \in live /\ Closes(o, d, st)
  BY CloseEffect
<1>2. live \subseteq Node /\ usage_count \in [Node -> Int] /\ o \in Node
  BY <1>1 DEF TypeInv, FileTyped
<1>3. live' = live \ {n \in {o} \cap End : n[2] \in ends[n[1]]} /\ live' \subseteq live /\ CloseGives({o}, st)
  BY <1>1 DEF Closes, CloseGives
<1>4. /\ Cardinality(Desc(fds', o)) = Cardinality(Desc(fds, o)) - 1
      /\ \A n \in Node : Desc(fds', n) \subseteq Desc(fds, n)
      /\ \A n \in Node : n # o => Desc(fds', n) = Desc(fds, n)
  <2>1. Desc(fds', o) = Desc(fds, o) \ {d} /\ d \in Desc(fds, o)
    BY <1>1, <1>2 DEF Closes
  <2>2. Cardinality(Desc(fds', o)) = Cardinality(Desc(fds, o)) - 1
    BY <2>1, TakesOne
  <2> QED BY <1>1, <2>2 DEF Closes
<1>5. \A n \in Node : usage_count'[n] = IF n = o THEN usage_count[n] - 1 ELSE usage_count[n]
  BY <1>1, <1>2 DEF Closes
<1>6. Cardinality(Desc(fds, o)) \in Nat /\ UNCHANGED setting
  BY DescFinite DEF sys_close_hdlr
<1>7. Below' /\ Exact'
  BY <1>2, <1>3, <1>4, <1>5, <1>6 DEF Books, Below, Exact
<1>8. Held'
  <2>1. ASSUME NEW n \in live' \cap End
        PROVE  n # o /\ n \in live
    BY <1>3, <2>1, NotShut
  <2> QED BY <1>2, <1>4, <2>1 DEF Books, Held
<1>9. Owned'
  <2>1. \A n \in End : Desc(fds', n) \subseteq Desc(fds, n)
    BY <1>4 DEF Node
  <2> QED BY <1>6, <2>1 DEF Books, Owned
<1>10. Gone'
  <2>1. ASSUME setting \cap {"dup2", "unlink", "share"} = {}, NEW n \in Node \ live'
        PROVE  Desc(fds', n) = {}
    <3>1. CASE n \notin live
      BY <1>4, <2>1, <3>1 DEF Books, Gone
    <3>2. CASE n \in live
      <4>1. n = o /\ o \in End
        BY <1>3, <2>1, <3>2
      <4>2. \A e, f \in Desc(fds, o) : e = f
        BY <2>1, <4>1 DEF Books, Owned
      <4>3. Desc(fds', o) = Desc(fds, o) \ {d} /\ d \in Desc(fds, o)
        BY <1>1, <1>2 DEF Closes
      <4> QED BY <4>1, <4>2, <4>3
    <3> QED BY <3>1, <3>2
  <2> QED BY <1>6, <2>1 DEF Gone
<1> QED BY <1>7, <1>8, <1>9, <1>10 DEF Books

LEMMA VforkBooks ==
  ASSUME TypeInv, FreeIsEmpty, Books, NEW p \in Proc, sys_vfork_hdlr(p)
  PROVE  Books'
<1>1. PICK c \in Proc :
        /\ state[c] = "FREE" /\ Inherits(c, p) /\ AllLive(p)
        /\ \A n \in End : At(fds[p], n) # {} => "share" \in setting
  BY VforkEffect
<1>2. live \subseteq Node /\ usage_count \in [Node -> Int] /\ fds \in Tables /\ UNCHANGED <<live, setting>>
  BY DEF TypeInv, FileTyped, sys_vfork_hdlr
<1>3. ASSUME NEW n
      PROVE  /\ Desc(fds', n) = Desc(fds, n) \cup ({c} \X At(fds[p], n))
             /\ Cardinality(Desc(fds', n)) = Cardinality(Desc(fds, n)) + Cardinality(At(fds[p], n))
  <2>1. fds[c] = <<>> /\ fds' = [fds EXCEPT ![c] = fds[p]]
    BY <1>1 DEF FreeIsEmpty, Inherits
  <2>2. Gains(fds, fds', c, p)
    BY <1>2, <2>1, InheritDesc
  <2> QED BY <2>2, Zenon DEF Gains
<1>4. ASSUME NEW n \in Node
      PROVE  /\ usage_count'[n] = usage_count[n] + Cardinality(At(fds[p], n))
             /\ Cardinality(At(fds[p], n)) \in Nat /\ Cardinality(Desc(fds, n)) \in Nat
  BY <1>1, <1>2, PlacesCount, DescFinite DEF Inherits
<1>5. Below' /\ Exact'
  BY <1>2, <1>3, <1>4 DEF Books, Below, Exact
<1>6. Held'
  BY <1>2, <1>3 DEF Books, Held
<1>7. Owned'
  <2>1. ASSUME "share" \notin setting, NEW n \in End
        PROVE  Desc(fds', n) = Desc(fds, n)
    <3>1. At(fds[p], n) = {}
      BY <1>1, <2>1
    <3>2. Desc(fds', n) = Desc(fds, n) \cup ({c} \X At(fds[p], n))
      BY <1>3
    <3> QED BY <3>1, <3>2
  <2> QED BY <1>2, <2>1 DEF Books, Owned
<1>8. Gone'
  <2>1. ASSUME NEW n \in Node \ live
        PROVE  Desc(fds', n) = Desc(fds, n)
    <3>1. At(fds[p], n) = {}
      BY <1>1, <2>1, NodeAssumption DEF At, AllLive, ToSet
    <3>2. Desc(fds', n) = Desc(fds, n) \cup ({c} \X At(fds[p], n))
      BY <1>3
    <3> QED BY <3>1, <3>2
  <2> QED BY <1>2, <2>1 DEF Books, Gone
<1> QED BY <1>5, <1>6, <1>7, <1>8 DEF Books

LEMMA DestroyBooks ==
  ASSUME TypeInv, NodesInv, Books, NEW p \in Proc, task_destroy(p)
  PROVE  Books'
<1>1. PICK S, st :
        /\ GivesUp(p) /\ CloseGives(S, st)
        /\ S = {n \in live : At(fds[p], n) # {} /\ usage_count'[n] <= 0}
  BY DestroyEffect
<1>2. live \subseteq Node /\ usage_count \in [Node -> Int] /\ fds \in Tables /\ UNCHANGED setting
  BY DEF TypeInv, FileTyped, task_destroy
<1>3. live' = live \ {n \in S \cap End : n[2] \in ends[n[1]]} /\ live' \subseteq live
  BY <1>1 DEF CloseGives
<1>4. ASSUME NEW n
      PROVE  /\ Desc(fds', n) \subseteq Desc(fds, n)
             /\ At(fds[p], n) = {} => Desc(fds', n) = Desc(fds, n)
             /\ Cardinality(Desc(fds', n)) = Cardinality(Desc(fds, n)) - Cardinality(At(fds[p], n))
  <2>1. fds' = [fds EXCEPT ![p] = <<>>]
    BY <1>1 DEF GivesUp
  <2>2. Loses(fds, fds', p)
    BY <1>2, <2>1, GiveUpDesc
  <2>3. At(fds[p], n) = {} => \A d \in Desc(fds, n) : d[1] # p
    BY DEF Desc, At
  <2> QED BY <2>2, <2>3 DEF Loses
<1>5. ASSUME NEW n \in Node
      PROVE  /\ usage_count'[n] = usage_count[n] - Cardinality(At(fds[p], n))
             /\ Cardinality(At(fds[p], n)) \in Nat /\ Cardinality(Desc(fds, n)) \in Nat
             /\ Cardinality(Desc(fds', n)) \in Nat
  BY <1>1, <1>2, PlacesCount, DescFinite DEF GivesUp
<1>6. Below' /\ Exact'
  BY <1>2, <1>3, <1>4, <1>5 DEF Books, Below, Exact
<1>7. Held'
  <2>1. ASSUME NEW n \in live' \cap End
        PROVE  Desc(fds', n) # {}
    <3>1. n \in live /\ n \notin S /\ n \in Node
      BY <1>1, <1>2, <2>1, NotShut
    <3>2. CASE At(fds[p], n) = {}
      BY <1>4, <2>1, <3>1, <3>2 DEF Books, Held
    <3>3. CASE At(fds[p], n) # {}
      <4>1. usage_count'[n] > 0
        BY <1>1, <1>2, <1>5, <3>1, <3>3
      <4>2. Cardinality(Desc(fds', n)) > 0
        BY <1>2, <1>5, <1>6, <2>1, <3>1, <4>1 DEF Below
      <4> QED BY <4>2, FS_EmptySet
    <3> QED BY <3>2, <3>3
  <2> QED BY <2>1 DEF Held
<1>8. Owned'
  BY <1>2, <1>4 DEF Books, Owned
<1>9. Gone'
  <2>1. ASSUME setting \cap {"dup2", "unlink", "share"} = {}, NEW n \in Node \ live'
        PROVE  Desc(fds', n) = {}
    <3>1. CASE n \notin live
      BY <1>4, <2>1, <3>1 DEF Books, Gone
    <3>2. CASE n \in live
      <4>1. usage_count'[n] <= 0
        BY <1>1, <1>3, <2>1, <3>2
      <4>2. usage_count[n] = Cardinality(Desc(fds, n))
        BY <2>1, <3>2 DEF Books, Exact
      <4>3. Cardinality(Desc(fds', n)) = 0
        BY <1>2, <1>4, <1>5, <2>1, <4>1, <4>2
      <4> QED BY <4>3, DescFinite
    <3> QED BY <3>1, <3>2
  <2> QED BY <1>2, <2>1 DEF Gone
<1> QED BY <1>6, <1>7, <1>8, <1>9 DEF Books

LEMMA BooksStep == TypeInv /\ FreeIsEmpty /\ NodesInv /\ Books /\ [Next]_vars => Books'
<1> SUFFICES ASSUME TypeInv, FreeIsEmpty, NodesInv, Books, [Next]_vars
             PROVE  Books'
  OBVIOUS
<1>1. CASE UNCHANGED vars
  BY <1>1, BooksKept DEF vars
<1>2. ASSUME NEW p \in Proc, NEW call, NEW q,
             \/ scheduler_exec(p) \/ Exit(p) \/ Signal(p)
             \/ pipe_read(p, call, q) \/ pipe_write(p, call, q)
      PROVE  Books'
  BY <1>2, BooksKept DEF scheduler_exec, Exit, Signal, pipe_read, pipe_write
<1>3. CASE Next
  BY <1>2, <1>3, OpenBooks, UnlinkBooks, PipeCallBooks, DupBooks, Dup2Books, CloseBooks, VforkBooks,
     DestroyBooks
  DEF Next
<1> QED BY <1>1, <1>3

LEMMA AccountsFirst == Init => FreeIsEmpty /\ NodesInv /\ Books
<1> SUFFICES ASSUME Init PROVE FreeIsEmpty /\ NodesInv /\ Books
  OBVIOUS
<1>1. FreeIsEmpty /\ NodesInv
  BY DEF Init, FreeIsEmpty, NodesInv, PathIsLive, EndsAreOpen, PipesHaveEnds
<1>2. \A n : Desc(fds, n) = {}
  BY DEF Init, Desc
<1> QED BY <1>1, <1>2 DEF Init, Books, Below, Exact, Held, Owned, Gone

LEMMA AccountsHold == Spec => [](TypeInv /\ FreeIsEmpty /\ NodesInv /\ Books)
<1>1. Init => TypeInv /\ FreeIsEmpty /\ NodesInv /\ Books
  BY TypeFirst, AccountsFirst
<1>2. TypeInv /\ FreeIsEmpty /\ NodesInv /\ Books /\ [Next]_vars => (TypeInv /\ FreeIsEmpty /\ NodesInv /\ Books)'
  BY TypeStep, FreeStep, NodesStep, BooksStep
<1> QED BY <1>1, <1>2, PTL DEF Spec

(* Without dup2, the usage count of an allocated node is the number of     *)
(* descriptors that name it.                                               *)
THEOREM CountsExactHolds == Spec => []CountsExact
<1>1. Books => CountsExact
  BY DescIsDescriptors DEF Books, Exact, CountsExact
<1> QED BY <1>1, AccountsHold, PTL

(* As long as programs do not unlink or truncate a file that is open, call *)
(* dup2 or share the end of a pipe, no descriptor names a freed node.      *)
THEOREM NoDanglingHolds == Spec => []NoDangling
<1>1. TypeInv /\ Books => NoDangling
  BY AllLiveMeans DEF TypeInv, FileTyped, Books, Gone, NoDangling, AllLive
<1> QED BY <1>1, AccountsHold, PTL

(* An allocated end of a pipe has a descriptor, and an allocated pipe has  *)
(* an end that is open.                                                    *)
THEOREM NothingLeaksHolds == Spec => []NothingLeaks
<1>1. NodesInv /\ Books => NothingLeaks
  BY DescIsDescriptors DEF NodesInv, PipesHaveEnds, Books, Held, NothingLeaks
<1> QED BY <1>1, AccountsHold, PTL
=============================================================================
