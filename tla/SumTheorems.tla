----------------------------- MODULE SumTheorems -----------------------------
(***************************************************************************)
(* Totals over finite sets: a total may be taken apart at any element or    *)
(* into disjoint parts, and depends on nothing but the values.  Also a     *)
(* principle of induction that the provers can instantiate.                *)
(***************************************************************************)
EXTENDS Totals, Integers, FiniteSetTheorems, WellFoundedInduction, TLAPS

(* Sums over finite sets.  The library's induction theorems take an operator *)
(* that the provers cannot instantiate; induction on a set of numbers does.  *)
LEMMA NumbersFromZero ==
    ASSUME NEW Z \in SUBSET Nat, 0 \in Z, \A n \in Z : n + 1 \in Z
    PROVE  \A n \in Nat : n \in Z
<1> DEFINE T == Nat \ Z
           R == OpToRel(<, Nat)
<1>1. SUFFICES ASSUME T # {} PROVE FALSE
  OBVIOUS
<1>2. \A x, y \in Nat : x < y => <<x, y>> \in R
  BY DEF OpToRel
<1>3. IsWellFoundedOn(R, Nat)
  BY NatLessThanWellFounded
<1> HIDE DEF R
<1>4. PICK t \in T : \A u \in T : ~(<<u, t>> \in R)
  BY <1>1, <1>3, WFMin
<1>5. t \in Nat /\ t # 0
  OBVIOUS
<1>6. t - 1 \in Nat /\ t - 1 < t /\ (t - 1) + 1 = t
  BY <1>5
<1>7. t - 1 \in Z
  BY <1>2, <1>4, <1>5, <1>6
<1> QED
  BY <1>6, <1>7

One(s) == CHOOSE x \in s : TRUE

LEMMA OneIn ==
    ASSUME NEW s, s # {}
    PROVE  One(s) \in s
BY DEF One

LEMMA OneLess ==
    ASSUME NEW s, IsFiniteSet(s), NEW x \in s
    PROVE  /\ IsFiniteSet(s \ {x})
           /\ Cardinality(s) \in Nat /\ Cardinality(s \ {x}) \in Nat
           /\ Cardinality(s \ {x}) = Cardinality(s) - 1
           /\ Cardinality(s) # 0
<1>1. Cardinality(s) \in Nat
  BY FS_CardinalityType
<1>2. IsFiniteSet(s \ {x}) /\ Cardinality(s \ {x}) = Cardinality(s) - 1
  BY FS_RemoveElement
<1>3. Cardinality(s \ {x}) \in Nat
  BY <1>2, FS_CardinalityType
<1> QED
  BY <1>1, <1>2, <1>3

Sums(f, S, g) ==
    g = [s \in SUBSET S |-> IF s = {} THEN 0 ELSE f[One(s)] + g[s \ {One(s)}]]

LEMMA TotalUnfolded ==
    ASSUME NEW f, NEW S
    PROVE  Total(f, S) = (CHOOSE g : Sums(f, S, g))[S]
BY DEF Total, MapThenSumSet, MapThenFoldSet, Sums, One

UpTo(S, n) == {s \in SUBSET S : Cardinality(s) <= n}

SumsUpTo(f, S, n, g) ==
    g = [s \in UpTo(S, n) |-> IF s = {} THEN 0 ELSE f[One(s)] + g[s \ {One(s)}]]

LEMMA SumsExist ==
    ASSUME NEW f, NEW S, IsFiniteSet(S)
    PROVE  \E g : Sums(f, S, g)
<1> DEFINE Z == {n \in Nat : \E g : SumsUpTo(f, S, n, g)}
<1>1. \A s \in SUBSET S : IsFiniteSet(s) /\ Cardinality(s) \in Nat
  BY FS_Subset, FS_CardinalityType
<1>2. 0 \in Z
  <2> DEFINE g == [s \in UpTo(S, 0) |-> 0]
  <2>1. \A s \in UpTo(S, 0) : s = {}
    BY <1>1, FS_EmptySet DEF UpTo
  <2>2. g = [s \in UpTo(S, 0) |-> IF s = {} THEN 0 ELSE f[One(s)] + g[s \ {One(s)}]]
    BY <2>1
  <2> QED
    BY <2>2 DEF SumsUpTo
<1>3. ASSUME NEW n \in Z PROVE n + 1 \in Z
  <2>1. PICK g : SumsUpTo(f, S, n, g)
    OBVIOUS
  <2> DEFINE h == [s \in UpTo(S, n + 1) |->
                      IF s = {} THEN 0 ELSE f[One(s)] + g[s \ {One(s)}]]
  <2>2. ASSUME NEW s \in UpTo(S, n + 1), s # {}
        PROVE  s \ {One(s)} \in UpTo(S, n)
    <3>1. One(s) \in s
      BY <2>2, OneIn
    <3>2. /\ Cardinality(s) \in Nat /\ Cardinality(s \ {One(s)}) = Cardinality(s) - 1
      BY <1>1, <3>1, OneLess DEF UpTo
    <3> QED
      BY <2>2, <3>2 DEF UpTo
  <2>3. \A s \in UpTo(S, n) : s \in UpTo(S, n + 1)
    BY <1>1 DEF UpTo
  <2>4. \A s \in UpTo(S, n) : g[s] = h[s]
    BY <2>1, <2>3 DEF SumsUpTo
  <2>5. h = [s \in UpTo(S, n + 1) |->
                IF s = {} THEN 0 ELSE f[One(s)] + h[s \ {One(s)}]]
    BY <2>2, <2>4
  <2> HIDE DEF h
  <2>6. SumsUpTo(f, S, n + 1, h)
    BY <2>5 DEF SumsUpTo
  <2> QED
    BY <2>6
<1>4. Cardinality(S) \in Z
  <2>1. Z \in SUBSET Nat
    OBVIOUS
  <2> HIDE DEF Z
  <2>2. \A n \in Nat : n \in Z
    BY <1>2, <1>3, <2>1, NumbersFromZero
  <2> QED
    BY <1>1, <2>2
<1>5. UpTo(S, Cardinality(S)) = SUBSET S
  BY FS_Subset DEF UpTo
<1> QED
  BY <1>4, <1>5 DEF SumsUpTo, Sums

LEMMA SumsAgree ==
    ASSUME NEW f, NEW S, IsFiniteSet(S), NEW T \in SUBSET S,
           NEW g, Sums(f, S, g), NEW h, Sums(f, T, h)
    PROVE  g[T] = h[T]
<1> DEFINE Z == {n \in Nat : \A s \in SUBSET T : Cardinality(s) <= n => g[s] = h[s]}
<1>1. \A s \in SUBSET T : IsFiniteSet(s) /\ Cardinality(s) \in Nat
  BY FS_Subset, FS_CardinalityType
<1>2. \A s \in SUBSET T :
          /\ g[s] = IF s = {} THEN 0 ELSE f[One(s)] + g[s \ {One(s)}]
          /\ h[s] = IF s = {} THEN 0 ELSE f[One(s)] + h[s \ {One(s)}]
  BY DEF Sums
<1>3. 0 \in Z
  <2>1. \A s \in SUBSET T : Cardinality(s) <= 0 => s = {}
    BY <1>1, FS_EmptySet
  <2> QED
    BY <1>2, <2>1
<1>4. ASSUME NEW n \in Z PROVE n + 1 \in Z
  <2>1. ASSUME NEW s \in SUBSET T, Cardinality(s) <= n + 1, s # {}
        PROVE  g[s] = h[s]
    <3>0. One(s) \in s
      BY <2>1, OneIn
    <3>1. Cardinality(s \ {One(s)}) <= n /\ s \ {One(s)} \in SUBSET T
      BY <1>1, <2>1, <3>0, OneLess
    <3>2. g[s \ {One(s)}] = h[s \ {One(s)}]
      BY <3>1
    <3> QED
      BY <1>2, <2>1, <3>2
  <2>2. g[{}] = h[{}]
    BY <1>2
  <2> QED
    BY <2>1, <2>2
<1>5. \A n \in Nat : n \in Z
  <2>1. Z \in SUBSET Nat
    OBVIOUS
  <2> HIDE DEF Z
  <2> QED
    BY <1>3, <1>4, <2>1, NumbersFromZero
<1>6. ASSUME NEW s \in SUBSET T PROVE g[s] = h[s]
  <2>1. Cardinality(s) \in Z /\ Cardinality(s) <= Cardinality(s)
    BY <1>1, <1>5
  <2> QED
    BY <2>1
<1> QED
  BY <1>6

(* A total, taken apart at the element the recursion takes first.            *)
LEMMA TotalChosen ==
    ASSUME NEW f, NEW S, IsFiniteSet(S)
    PROVE  Total(f, S) = IF S = {} THEN 0 ELSE f[One(S)] + Total(f, S \ {One(S)})
<1> DEFINE g == CHOOSE h : Sums(f, S, h)
           T == S \ {One(S)}
           k == CHOOSE h : Sums(f, T, h)
<1>1. IsFiniteSet(T) /\ T \in SUBSET S
  BY FS_Subset
<1>2. (\E h : Sums(f, S, h)) /\ (\E h : Sums(f, T, h))
  BY <1>1, SumsExist
<1>3. Sums(f, S, g) /\ Sums(f, T, k)
  BY <1>2
<1>4. Total(f, S) = g[S] /\ Total(f, T) = k[T]
  BY TotalUnfolded
<1> HIDE DEF g, k
<1>5. g[T] = k[T]
  BY <1>1, <1>3, SumsAgree
<1>6. g[S] = IF S = {} THEN 0 ELSE f[One(S)] + g[T]
  BY <1>3 DEF Sums
<1> QED
  BY <1>4, <1>5, <1>6

LEMMA TotalEmpty ==
    ASSUME NEW f
    PROVE  Total(f, {}) = 0
BY TotalChosen, FS_EmptySet

LEMMA TotalInt ==
    ASSUME NEW f, NEW S, IsFiniteSet(S), \A x \in S : f[x] \in Int
    PROVE  Total(f, S) \in Int
<1> DEFINE Z == {n \in Nat : \A s \in SUBSET S : Cardinality(s) = n => Total(f, s) \in Int}
<1>1. \A s \in SUBSET S : IsFiniteSet(s) /\ Cardinality(s) \in Nat
  BY FS_Subset, FS_CardinalityType
<1>2. 0 \in Z
  <2>1. \A s \in SUBSET S : Cardinality(s) = 0 => s = {}
    BY <1>1, FS_EmptySet
  <2> QED
    BY <2>1, TotalEmpty
<1>3. ASSUME NEW n \in Z PROVE n + 1 \in Z
  <2>1. ASSUME NEW s \in SUBSET S, Cardinality(s) = n + 1, s # {}
        PROVE  Total(f, s) \in Int
    <3>1. One(s) \in s
      BY <2>1, OneIn
    <3>2. s \ {One(s)} \in SUBSET S /\ Cardinality(s \ {One(s)}) = n
      BY <1>1, <2>1, <3>1, OneLess
    <3>3. Total(f, s \ {One(s)}) \in Int
      BY <3>2
    <3>4. Total(f, s) = f[One(s)] + Total(f, s \ {One(s)})
      BY <1>1, <2>1, TotalChosen
    <3> QED
      BY <3>1, <3>3, <3>4
  <2>2. Total(f, {}) \in Int
    BY TotalEmpty
  <2> QED
    BY <2>1, <2>2
<1>4. \A n \in Nat : n \in Z
  <2>1. Z \in SUBSET Nat
    OBVIOUS
  <2> HIDE DEF Z
  <2> QED
    BY <1>2, <1>3, <2>1, NumbersFromZero
<1>5. Cardinality(S) \in Z
  BY <1>1, <1>4
<1> QED
  BY <1>5

(* A total may be taken apart at any element.                                *)
LEMMA TotalRemove ==
    ASSUME NEW f, NEW S, IsFiniteSet(S), \A x \in S : f[x] \in Int, NEW y \in S
    PROVE  Total(f, S) = f[y] + Total(f, S \ {y})
<1> DEFINE Z == {n \in Nat : \A s \in SUBSET S : Cardinality(s) = n =>
                     \A x \in s : Total(f, s) = f[x] + Total(f, s \ {x})}
<1>1. \A s \in SUBSET S : IsFiniteSet(s) /\ Cardinality(s) \in Nat
  BY FS_Subset, FS_CardinalityType
<1>2. 0 \in Z
  <2>1. \A s \in SUBSET S : Cardinality(s) = 0 => s = {}
    BY <1>1, FS_EmptySet
  <2> QED
    BY <2>1
<1>3. ASSUME NEW n \in Z PROVE n + 1 \in Z
  <2>1. ASSUME NEW s \in SUBSET S, Cardinality(s) = n + 1, NEW x \in s
        PROVE  Total(f, s) = f[x] + Total(f, s \ {x})
    <3> DEFINE o == One(s)
               both == s \ {o, x}
    <3>1. o \in s
      BY <2>1, OneIn
    <3>2. Total(f, s) = f[o] + Total(f, s \ {o})
      BY <1>1, <2>1, TotalChosen
    <3> HIDE DEF o
    <3>3. CASE x = o
      BY <3>2, <3>3
    <3>4. CASE x # o
      <4>1. /\ s \ {o} \in SUBSET S /\ Cardinality(s \ {o}) = n
            /\ s \ {x} \in SUBSET S /\ Cardinality(s \ {x}) = n
        BY <1>1, <2>1, <3>1, OneLess
      <4>2. /\ x \in s \ {o} /\ (s \ {o}) \ {x} = both
            /\ o \in s \ {x} /\ (s \ {x}) \ {o} = both
        BY <3>1, <3>4
      <4> HIDE DEF both
      <4>3. Total(f, s \ {o}) = f[x] + Total(f, both)
        BY <4>1, <4>2
      <4>4. Total(f, s \ {x}) = f[o] + Total(f, both)
        BY <4>1, <4>2
      <4>5. Total(f, both) \in Int
        BY <1>1, TotalInt DEF both
      <4>6. f[x] \in Int /\ f[o] \in Int
        BY <3>1
      <4> QED
        BY <3>2, <4>3, <4>4, <4>5, <4>6
    <3> QED
      BY <3>3, <3>4
  <2> QED
    BY <2>1
<1>4. \A n \in Nat : n \in Z
  <2>1. Z \in SUBSET Nat
    OBVIOUS
  <2> HIDE DEF Z
  <2> QED
    BY <1>2, <1>3, <2>1, NumbersFromZero
<1>5. Cardinality(S) \in Z
  BY <1>1, <1>4
<1> QED
  BY <1>5

(* Totals of disjoint sets add up.                                           *)
LEMMA TotalUnion ==
    ASSUME NEW f, NEW A, IsFiniteSet(A), NEW B, IsFiniteSet(B), A \cap B = {},
           \A x \in A \cup B : f[x] \in Int
    PROVE  Total(f, A \cup B) = Total(f, A) + Total(f, B)
<1> DEFINE Z == {n \in Nat : \A s \in SUBSET A : Cardinality(s) = n =>
                     Total(f, s \cup B) = Total(f, s) + Total(f, B)}
<1>1. \A s \in SUBSET A : IsFiniteSet(s) /\ Cardinality(s) \in Nat
  BY FS_Subset, FS_CardinalityType
<1>2. Total(f, B) \in Int
  BY TotalInt
<1>3. 0 \in Z
  <2>1. \A s \in SUBSET A : Cardinality(s) = 0 => s = {}
    BY <1>1, FS_EmptySet
  <2>2. {} \cup B = B
    OBVIOUS
  <2>3. Total(f, {}) = 0
    BY TotalEmpty
  <2>4. Total(f, {} \cup B) = Total(f, {}) + Total(f, B)
    BY <1>2, <2>2, <2>3
  <2> QED
    BY <2>1, <2>4
<1>4. ASSUME NEW n \in Z PROVE n + 1 \in Z
  <2>1. ASSUME NEW s \in SUBSET A, Cardinality(s) = n + 1, NEW x \in s
        PROVE  Total(f, s \cup B) = Total(f, s) + Total(f, B)
    <3> DEFINE rest == s \ {x}
    <3>1. rest \in SUBSET A /\ Cardinality(rest) = n
      BY <1>1, <2>1, OneLess
    <3>2. Total(f, rest \cup B) = Total(f, rest) + Total(f, B)
      BY <3>1
    <3>3. IsFiniteSet(s \cup B) /\ x \in s \cup B
      BY <1>1, FS_Union
    <3>4. (s \cup B) \ {x} = rest \cup B
      OBVIOUS
    <3>5. Total(f, s \cup B) = f[x] + Total(f, (s \cup B) \ {x})
      <4>1. \A y \in s \cup B : f[y] \in Int
        OBVIOUS
      <4> QED
        BY ONLY <3>3, <4>1, TotalRemove
    <3>6. Total(f, s) = f[x] + Total(f, rest)
      BY <1>1, TotalRemove
    <3>7. Total(f, rest) \in Int /\ f[x] \in Int
      BY <1>1, <3>1, TotalInt
    <3>8. Total(f, s \cup B) = f[x] + Total(f, rest \cup B)
      BY <3>4, <3>5
    <3> HIDE DEF rest
    <3> QED
      BY ONLY <1>2, <3>2, <3>6, <3>7, <3>8
  <2>2. \A s \in SUBSET A : Cardinality(s) = n + 1 => \E x : x \in s
    BY FS_EmptySet
  <2> QED
    BY <2>1, <2>2
<1>5. \A n \in Nat : n \in Z
  <2>1. Z \in SUBSET Nat
    OBVIOUS
  <2> HIDE DEF Z
  <2> QED
    BY <1>3, <1>4, <2>1, NumbersFromZero
<1>6. Cardinality(A) \in Z
  BY <1>1, <1>5
<1> QED
  BY <1>6

(* Only the elements' values matter.                                         *)
LEMMA TotalSame ==
    ASSUME NEW f, NEW g, NEW S, IsFiniteSet(S), \A x \in S : f[x] = g[x]
    PROVE  Total(f, S) = Total(g, S)
<1> DEFINE Z == {n \in Nat : \A s \in SUBSET S : Cardinality(s) = n =>
                     Total(f, s) = Total(g, s)}
<1>1. \A s \in SUBSET S : IsFiniteSet(s) /\ Cardinality(s) \in Nat
  BY FS_Subset, FS_CardinalityType
<1>2. 0 \in Z
  <2>1. \A s \in SUBSET S : Cardinality(s) = 0 => s = {}
    BY <1>1, FS_EmptySet
  <2> QED
    BY <2>1, TotalEmpty
<1>3. ASSUME NEW n \in Z PROVE n + 1 \in Z
  <2>1. ASSUME NEW s \in SUBSET S, Cardinality(s) = n + 1, s # {}
        PROVE  Total(f, s) = Total(g, s)
    <3>1. One(s) \in s
      BY <2>1, OneIn
    <3>2. s \ {One(s)} \in SUBSET S /\ Cardinality(s \ {One(s)}) = n
      <4>1. /\ IsFiniteSet(s) /\ Cardinality(s \ {One(s)}) = Cardinality(s) - 1
        BY <1>1, <3>1, OneLess
      <4> QED
        BY ONLY <2>1, <4>1, n \in Nat, s \in SUBSET S
    <3>3. Total(f, s \ {One(s)}) = Total(g, s \ {One(s)})
      BY <3>2
    <3>4. /\ Total(f, s) = f[One(s)] + Total(f, s \ {One(s)})
          /\ Total(g, s) = g[One(s)] + Total(g, s \ {One(s)})
      BY <1>1, <2>1, TotalChosen
    <3> QED
      BY <3>1, <3>3, <3>4
  <2> QED
    BY <2>1, TotalEmpty
<1>4. \A n \in Nat : n \in Z
  <2>1. Z \in SUBSET Nat
    OBVIOUS
  <2> HIDE DEF Z
  <2> QED
    BY <1>2, <1>3, <2>1, NumbersFromZero
<1>5. Cardinality(S) \in Z
  BY <1>1, <1>4
<1> QED
  BY <1>5

LEMMA TotalZero ==
    ASSUME NEW f, NEW S, IsFiniteSet(S), \A x \in S : f[x] = 0
    PROVE  Total(f, S) = 0
<1> DEFINE Z == {n \in Nat : \A s \in SUBSET S : Cardinality(s) = n => Total(f, s) = 0}
<1>1. \A s \in SUBSET S : IsFiniteSet(s) /\ Cardinality(s) \in Nat
  BY FS_Subset, FS_CardinalityType
<1>2. 0 \in Z
  <2>1. \A s \in SUBSET S : Cardinality(s) = 0 => s = {}
    BY <1>1, FS_EmptySet
  <2> QED
    BY <2>1, TotalEmpty
<1>3. ASSUME NEW n \in Z PROVE n + 1 \in Z
  <2>1. ASSUME NEW s \in SUBSET S, Cardinality(s) = n + 1, s # {}
        PROVE  Total(f, s) = 0
    <3>1. One(s) \in s
      BY <2>1, OneIn
    <3>2. s \ {One(s)} \in SUBSET S /\ Cardinality(s \ {One(s)}) = n
      BY <1>1, <2>1, <3>1, OneLess
    <3>3. Total(f, s \ {One(s)}) = 0
      BY <3>2
    <3>4. Total(f, s) = f[One(s)] + Total(f, s \ {One(s)})
      BY <1>1, <2>1, TotalChosen
    <3> QED
      BY <3>1, <3>3, <3>4
  <2> QED
    BY <2>1, TotalEmpty
<1>4. \A n \in Nat : n \in Z
  <2>1. Z \in SUBSET Nat
    OBVIOUS
  <2> HIDE DEF Z
  <2> QED
    BY <1>2, <1>3, <2>1, NumbersFromZero
<1>5. Cardinality(S) \in Z
  BY <1>1, <1>4
<1> QED
  BY <1>5
LEMMA TotalOfOne ==
    ASSUME NEW f, NEW x, f[x] \in Int
    PROVE  Total(f, {x}) = f[x]
<1>1. IsFiniteSet({x}) /\ {x} \ {x} = {}
  BY FS_Singleton
<1>2. Total(f, {x}) = f[x] + Total(f, {x} \ {x})
  BY <1>1, TotalRemove
<1>3. Total(f, {x} \ {x}) = 0
  BY <1>1, TotalEmpty
<1> QED
  BY <1>2, <1>3

LEMMA TotalOfTwo ==
    ASSUME NEW f, NEW x, NEW y, x # y, f[x] \in Int, f[y] \in Int
    PROVE  Total(f, {x, y}) = f[x] + f[y]
<1>1. IsFiniteSet({x}) /\ IsFiniteSet({y}) /\ {x} \cap {y} = {} /\ {x, y} = {x} \cup {y}
  BY FS_Singleton
<1>2. Total(f, {x} \cup {y}) = Total(f, {x}) + Total(f, {y})
  BY <1>1, TotalUnion
<1> QED
  BY <1>1, <1>2, TotalOfOne

(* Elements of no value may be left out.                                     *)
LEMMA TotalWithout ==
    ASSUME NEW f, NEW S, IsFiniteSet(S), NEW T \in SUBSET S,
           \A x \in T : f[x] \in Int, \A x \in S \ T : f[x] = 0
    PROVE  Total(f, S) = Total(f, T)
<1>1. IsFiniteSet(T) /\ IsFiniteSet(S \ T)
  BY FS_Subset
<1>2. T \cap (S \ T) = {} /\ T \cup (S \ T) = S /\ \A x \in T \cup (S \ T) : f[x] \in Int
  OBVIOUS
<1>3. Total(f, T \cup (S \ T)) = Total(f, T) + Total(f, S \ T)
  BY <1>1, <1>2, TotalUnion
<1>4. Total(f, S \ T) = 0
  BY <1>1, TotalZero
<1>5. Total(f, T) \in Int
  BY <1>1, TotalInt
<1>6. Total(f, S) = Total(f, T) + Total(f, S \ T)
  BY <1>2, <1>3, Zenon
<1> QED
  BY <1>4, <1>5, <1>6

LEMMA TotalNat ==
    ASSUME NEW f, NEW S, IsFiniteSet(S), \A x \in S : f[x] \in Nat
    PROVE  Total(f, S) \in Nat
<1> DEFINE Z == {n \in Nat : \A s \in SUBSET S : Cardinality(s) = n => Total(f, s) \in Nat}
<1>1. \A s \in SUBSET S : IsFiniteSet(s) /\ Cardinality(s) \in Nat
  BY FS_Subset, FS_CardinalityType
<1>2. 0 \in Z
  <2>1. \A s \in SUBSET S : Cardinality(s) = 0 => s = {}
    BY <1>1, FS_EmptySet
  <2> QED
    BY <2>1, TotalEmpty
<1>3. ASSUME NEW n \in Z PROVE n + 1 \in Z
  <2>1. ASSUME NEW s \in SUBSET S, Cardinality(s) = n + 1, s # {}
        PROVE  Total(f, s) \in Nat
    <3>1. One(s) \in s
      BY <2>1, OneIn
    <3>2. s \ {One(s)} \in SUBSET S /\ Cardinality(s \ {One(s)}) = n
      BY <1>1, <2>1, <3>1, OneLess
    <3>3. Total(f, s \ {One(s)}) \in Nat
      BY <3>2
    <3>4. Total(f, s) = f[One(s)] + Total(f, s \ {One(s)})
      BY <1>1, <2>1, TotalChosen
    <3> QED
      BY <3>1, <3>3, <3>4
  <2> QED
    BY <2>1, TotalEmpty
<1>4. \A n \in Nat : n \in Z
  <2>1. Z \in SUBSET Nat
    OBVIOUS
  <2> HIDE DEF Z
  <2> QED
    BY <1>2, <1>3, <2>1, NumbersFromZero
<1>5. Cardinality(S) \in Z
  BY <1>1, <1>4
<1> QED
  BY <1>5

(* A part of a set is bounded, and so is the union of two.                   *)
Bounded(f, S, n) ==
    /\ IsFiniteSet(S) /\ \A x \in S : f[x] \in Nat
    /\ Total(f, S) \in Nat /\ Total(f, S) <= n

LEMMA BoundedUnion ==
    ASSUME NEW f, NEW A, NEW B, NEW m \in Nat, NEW n \in Nat, NEW k \in Nat, k = m + n,
           Bounded(f, A, m), Bounded(f, B, n)
    PROVE  Bounded(f, A \cup B, k)
<1> DEFINE rest == B \ A
           both == B \cap A
<1>1. /\ IsFiniteSet(A) /\ IsFiniteSet(B) /\ IsFiniteSet(rest) /\ IsFiniteSet(both)
      /\ IsFiniteSet(A \cup B)
  BY FS_Subset, FS_Union DEF Bounded
<1>2. /\ \A x \in A \cup B : f[x] \in Nat
      /\ \A x \in A \cup rest : f[x] \in Int
      /\ \A x \in both \cup rest : f[x] \in Int
      /\ \A x \in both : f[x] \in Nat
      /\ \A x \in rest : f[x] \in Nat
  BY DEF Bounded
<1>3. /\ A \cap rest = {} /\ A \cup rest = A \cup B
      /\ both \cap rest = {} /\ both \cup rest = B
  OBVIOUS
<1> HIDE DEF rest, both
<1>4. Total(f, A \cup rest) = Total(f, A) + Total(f, rest)
  BY <1>1, <1>2, <1>3, TotalUnion
<1>5. Total(f, both \cup rest) = Total(f, both) + Total(f, rest)
  BY <1>1, <1>2, <1>3, TotalUnion
<1>6. Total(f, A \cup B) = Total(f, A) + Total(f, rest)
  BY <1>3, <1>4, Zenon
<1>7. Total(f, B) = Total(f, both) + Total(f, rest)
  BY <1>3, <1>5, Zenon
<1>8. Total(f, both) \in Nat /\ Total(f, rest) \in Nat
  BY <1>1, <1>2, TotalNat
<1>9. /\ Total(f, A) \in Nat /\ Total(f, A) <= m
      /\ Total(f, B) \in Nat /\ Total(f, B) <= n
  BY DEF Bounded
<1>10. Total(f, A \cup B) \in Nat /\ Total(f, A \cup B) <= k
  BY <1>6, <1>7, <1>8, <1>9
<1> QED
  BY <1>1, <1>2, <1>10 DEF Bounded
=============================================================================
