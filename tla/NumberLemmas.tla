--------------------------- MODULE NumberLemmas ---------------------------
(***************************************************************************)
(* Sets of natural numbers: a least and a greatest element, and places in  *)
(* order.  What the modules choose from directories, publications and rows *)
(* by number is there because of these.  And sums over finite sets: what   *)
(* SumFunctionOnSet of the community modules returns, by a least subset.   *)
(***************************************************************************)
EXTENDS FiniteSetTheorems, WellFoundedInduction, Functions, FiniteSetsExt, TLAPS

\* A set of natural numbers that is not empty has a least element.
LEMMA LeastElement ==
  ASSUME NEW T, T \subseteq Nat, T # {}
  PROVE  \E x \in T : \A y \in T : x <= y
<1> DEFINE R == OpToRel(<, Nat)
<1>1. IsWellFoundedOn(R, Nat)
  BY NatLessThanWellFounded
<1>2. \A x, y \in T : y < x => <<y, x>> \in R
  BY DEF OpToRel
<1>. HIDE DEF R
<1>3. PICK x \in T : \A y \in T : <<y, x>> \notin R
  BY <1>1, WFMin
<1>4. \A y \in T : ~(y < x)
  BY <1>2, <1>3, Zenon
<1>5. \A y \in T : x <= y
  BY ONLY <1>4, T \subseteq Nat
<1>. QED  BY <1>5

\* A set of numbers up to n that is not empty has a greatest element.
LEMMA GreatestElement ==
  ASSUME NEW n \in Nat, NEW T, T \subseteq 0..n, T # {}
  PROVE  \E x \in T : \A y \in T : y <= x
<1> DEFINE D == {d \in Nat : n - d \in T}
<1>1. D # {}
  <2>1. PICK t \in T : TRUE
    OBVIOUS
  <2>2. n - t \in D
    BY <2>1
  <2>. QED  BY <2>2
<1>2. PICK d \in D : \A e \in D : d <= e
  <2>1. D \subseteq Nat
    OBVIOUS
  <2>. HIDE DEF D
  <2>. QED  BY <1>1, <2>1, LeastElement
<1>3. \A y \in T : n - y \in D
  OBVIOUS
<1>. QED  BY <1>2, <1>3

\* What is earlier than x in S by the relation R, a set of pairs.
Preceding(S, R, x) == {y \in S : <<y, x>> \in R}

\* Every place of a finite set that R orders is some member's.
LEMMA RankIsTaken ==
  ASSUME NEW S, IsFiniteSet(S), NEW R,
         \A x \in S : <<x, x>> \notin R,
         \A x, y, z \in S : <<x, y>> \in R /\ <<y, z>> \in R => <<x, z>> \in R,
         \A x, y \in S : x = y \/ <<x, y>> \in R \/ <<y, x>> \in R,
         NEW n \in 1..Cardinality(S)
  PROVE  \E x \in S : Cardinality(Preceding(S, R, x)) = n - 1
<1> DEFINE f == [x \in S |-> Cardinality(Preceding(S, R, x))]
           k == Cardinality(S)
           places == (0..(k - 1)) \ {n - 1}
<1>1. k \in Nat
  BY FS_CardinalityType
<1>2. \A x \in S : /\ IsFiniteSet(Preceding(S, R, x)) /\ f[x] \in Nat /\ f[x] < k
  <2>. SUFFICES ASSUME NEW x \in S
                PROVE  IsFiniteSet(Preceding(S, R, x)) /\ f[x] \in Nat /\ f[x] < k
    OBVIOUS
  <2>1. Preceding(S, R, x) \subseteq S /\ x \notin Preceding(S, R, x)
    BY DEF Preceding
  <2>2. /\ IsFiniteSet(Preceding(S, R, x)) /\ Cardinality(Preceding(S, R, x)) <= k
        /\ Cardinality(Preceding(S, R, x)) = k => Preceding(S, R, x) = S
    BY <2>1, FS_Subset
  <2>3. Cardinality(Preceding(S, R, x)) \in Nat
    BY <2>2, FS_CardinalityType
  <2>. QED  BY <1>1, <2>1, <2>2, <2>3
<1>3. \A x, y \in S : <<x, y>> \in R => f[x] < f[y]
  <2>. SUFFICES ASSUME NEW x \in S, NEW y \in S, <<x, y>> \in R
                PROVE  f[x] < f[y]
    OBVIOUS
  <2>1. Preceding(S, R, x) \subseteq Preceding(S, R, y) /\ x \in Preceding(S, R, y) /\ x \notin Preceding(S, R, x)
    BY Zenon DEF Preceding
  <2>2. /\ Cardinality(Preceding(S, R, x)) <= Cardinality(Preceding(S, R, y))
        /\ Cardinality(Preceding(S, R, x)) = Cardinality(Preceding(S, R, y))
             => Preceding(S, R, x) = Preceding(S, R, y)
    BY <1>2, <2>1, FS_Subset
  <2>. QED  BY <1>2, <2>1, <2>2
<1>4. \A x, y \in S : f[x] = f[y] => x = y
  <2>. SUFFICES ASSUME NEW x \in S, NEW y \in S, x # y PROVE f[x] # f[y]
    OBVIOUS
  <2>1. <<x, y>> \in R \/ <<y, x>> \in R
    BY Zenon
  <2>2. f[x] < f[y] \/ f[y] < f[x]
    BY <1>3, <2>1
  <2>. QED  BY <1>2, <2>2
<1>5. IsFiniteSet(places) /\ Cardinality(places) = k - 1
  <2>1. IsFiniteSet(0..(k - 1)) /\ Cardinality(0..(k - 1)) = k
    <3>1. \A b \in Int : /\ IsFiniteSet(0..b)
                         /\ Cardinality(0..b) = IF 0 > b THEN 0 ELSE b - 0 + 1
      BY FS_Interval
    <3>2. k - 1 \in Int /\ ~(0 > k - 1) /\ k - 1 - 0 + 1 = k
      BY <1>1
    <3>. HIDE DEF k
    <3>. QED  BY <3>1, <3>2
  <2>2. n - 1 \in 0..(k - 1)
    BY <1>1
  <2>. DEFINE all == 0..(k - 1)
  <2>3. \A x : /\ IsFiniteSet(all \ {x})
               /\ x \in all => Cardinality(all \ {x}) = Cardinality(all) - 1
    BY <2>1, FS_RemoveElement
  <2>. HIDE DEF k
  <2>. QED  BY <2>1, <2>2, <2>3
<1>. SUFFICES ASSUME \A x \in S : f[x] # n - 1 PROVE FALSE
  BY DEF f
<1>6. f \in [S -> places]
  BY <1>1, <1>2
<1>. HIDE DEF f, places
<1>7. \E x, y \in S : x # y /\ f[x] = f[y]
  <2>1. Cardinality(places) < Cardinality(S)
    BY <1>1, <1>5
  <2>. QED  BY <1>5, <1>6, <2>1, FS_PigeonHole
<1>. QED  BY <1>4, <1>7

\* The ids before one of a set have as many places before it.
Before(ids, i) == {j \in ids : j < i}

\* They are numbers below i, and grow with it.
LEMMA BeforeAre ==
  ASSUME NEW ids, ids \subseteq Nat, NEW i \in Nat
  PROVE  /\ Before(ids, i) \subseteq 0..i /\ Before(ids, i) \subseteq ids
         /\ \A j \in ids : j \in Nat /\ (j \in Before(ids, i) <=> j < i)
         /\ \A j \in Before(ids, i) : j \in Nat /\ j < i
         /\ i \in ids => Before(ids, i + 1) = Before(ids, i) \cup {i}
         /\ i \notin ids => Before(ids, i + 1) = Before(ids, i)
<1>1. \A j \in ids : j \in Nat
  OBVIOUS
<1>2. \A j : j \in Before(ids, i) <=> j \in ids /\ j < i
  BY Zenon DEF Before
<1>3. \A j : j \in Before(ids, i + 1) <=> j \in ids /\ j < i + 1
  BY Zenon DEF Before
<1>4. \A j \in Nat : (j < i + 1 <=> j < i \/ j = i) /\ (j < i => j \in 0..i)
  OBVIOUS
<1>5. Before(ids, i) \subseteq 0..i /\ Before(ids, i) \subseteq ids
  BY <1>1, <1>2, <1>4, Zenon
<1>6. i \in ids => Before(ids, i + 1) = Before(ids, i) \cup {i}
  BY <1>1, <1>2, <1>3, <1>4, Zenon
<1>7. i \notin ids => Before(ids, i + 1) = Before(ids, i)
  BY <1>1, <1>2, <1>3, <1>4, Zenon
<1>. QED  BY <1>1, <1>2, <1>5, <1>6, <1>7, Zenon

\* Every place of a finite set of numbers is some member's.
LEMMA PlaceIsTaken ==
  ASSUME NEW ids, IsFiniteSet(ids), ids \subseteq Nat, NEW n \in 1..Cardinality(ids)
  PROVE  \E i \in ids : Cardinality(Before(ids, i)) = n - 1
<1> DEFINE R == {p \in ids \X ids : p[1] < p[2]}
<1>1. \A i, j \in ids : <<i, j>> \in R <=> i < j
  OBVIOUS
<1>2. \A i \in ids : Preceding(ids, R, i) = Before(ids, i)
  BY <1>1 DEF Preceding, Before
<1>3. \A i \in ids : i \in Nat
  OBVIOUS
<1>. HIDE DEF R
<1>4. \A i \in ids : <<i, i>> \notin R
  BY <1>1, <1>3
<1>5. \A i, j, m \in ids : <<i, j>> \in R /\ <<j, m>> \in R => <<i, m>> \in R
  <2>1. \A i, j, m \in Nat : i < j /\ j < m => i < m
    OBVIOUS
  <2>. QED  BY <1>1, <1>3, <2>1, Zenon
<1>6. \A i, j \in ids : i = j \/ <<i, j>> \in R \/ <<j, i>> \in R
  <2>1. \A i, j \in Nat : i = j \/ i < j \/ j < i
    OBVIOUS
  <2>. QED  BY <1>1, <1>3, <2>1, Zenon
<1>7. PICK i \in ids : Cardinality(Preceding(ids, R, i)) = n - 1
  BY <1>4, <1>5, <1>6, RankIsTaken
<1>. QED  BY <1>2, <1>7

\* A finite set of numbers that is not empty has a greatest element: the one in the last place.
LEMMA FiniteHasGreatest ==
  ASSUME NEW T, IsFiniteSet(T), T \subseteq Nat, T # {}
  PROVE  \E x \in T : \A y \in T : y <= x
<1>1. Cardinality(T) \in Nat /\ Cardinality(T) # 0
  BY FS_CardinalityType, FS_EmptySet
<1>2. PICK x \in T : Cardinality(Before(T, x)) = Cardinality(T) - 1
  <2>1. Cardinality(T) \in 1..Cardinality(T)
    BY <1>1
  <2>. QED  BY <2>1, PlaceIsTaken
<1>3. IsFiniteSet(T \ {x}) /\ Cardinality(T \ {x}) = Cardinality(T) - 1
  BY FS_RemoveElement
<1>4. \A y \in T : y \in Nat
  OBVIOUS
<1>5. ~(x < x)
  BY <1>4
<1>6. Before(T, x) \subseteq T \ {x}
  BY <1>5, Zenon DEF Before
<1>7. Before(T, x) = T \ {x}
  BY <1>2, <1>3, <1>6, FS_Subset
<1>8. \A y \in T : y # x => y < x
  BY <1>7, Zenon DEF Before
<1>. QED  BY <1>4, <1>8

-----------------------------------------------------------------------------
(***************************************************************************)
(* Sums: what SumFunctionOnSet adds up, a fold in an unspecified order.    *)
(***************************************************************************)

\* One step of SumFunctionOnSet, from what it is for smaller sets.
AddTo(f, g, s) == IF s = {} THEN 0 ELSE LET x == CHOOSE x \in s : TRUE IN f[x] + g[s \ {x}]

LEMMA SumIs ==
  ASSUME NEW f, NEW S
  PROVE  SumFunctionOnSet(f, S) = (CHOOSE g : g = [s \in SUBSET S |-> AddTo(f, g, s)])[S]
  BY DEF SumFunctionOnSet, FoldFunctionOnSet, MapThenFoldSet, AddTo

\* What the sums of the subsets of S are, when there is such a function.
Sums(f, S) == CHOOSE g : g = [s \in SUBSET S |-> AddTo(f, g, s)]

\* There is: sets of n elements have sums when smaller ones do.
LEMMA SumsExist ==
  ASSUME NEW f, NEW S, IsFiniteSet(S)
  PROVE  \A s \in SUBSET S : Sums(f, S)[s] = AddTo(f, Sums(f, S), s)
<1>. DEFINE Small(n) == {s \in SUBSET S : Cardinality(s) < n}
            Summed(n) == \E g : g = [s \in Small(n) |-> AddTo(f, g, s)]
            T == {n \in Nat : ~Summed(n)}
<1>1. \A s \in SUBSET S : IsFiniteSet(s) /\ Cardinality(s) \in Nat
  BY FS_Subset, FS_CardinalityType
<1>2. \A s \in SUBSET S : s # {} =>
        LET x == CHOOSE x \in s : TRUE
        IN x \in s /\ s \ {x} \in SUBSET S /\ Cardinality(s \ {x}) = Cardinality(s) - 1
  BY <1>1, FS_RemoveElement
<1>3. Summed(0)
  <2>1. Small(0) = {}
    BY <1>1
  <2>. QED  BY <2>1
<1>4. ASSUME NEW n \in Nat, Summed(n) PROVE Summed(n + 1)
  <2>1. PICK g : g = [s \in Small(n) |-> AddTo(f, g, s)]
    BY <1>4
  <2>2. PICK h : h = [s \in Small(n + 1) |-> IF s \in Small(n) THEN g[s] ELSE AddTo(f, g, s)]
    OBVIOUS
  <2>3. \A s \in Small(n) : s \in Small(n + 1) /\ h[s] = g[s]
    BY <1>1, <2>2
  <2>4. ASSUME NEW s \in Small(n + 1) PROVE AddTo(f, h, s) = AddTo(f, g, s)
    <3>1. CASE s = {}
      BY <3>1 DEF AddTo
    <3>2. CASE s # {}
      <4>1. PICK x : x = CHOOSE y \in s : TRUE
        OBVIOUS
      <4>2. s \ {x} \in Small(n)
        BY <1>1, <1>2, <3>2, <4>1
      <4>. QED  BY <2>3, <4>1, <4>2 DEF AddTo
    <3>. QED  BY <3>1, <3>2
  <2>5. \A s \in Small(n + 1) : h[s] = AddTo(f, h, s)
    BY <2>1, <2>2, <2>3, <2>4
  <2>6. h = [s \in Small(n + 1) |-> AddTo(f, h, s)]
    BY <2>2, <2>5
  <2>. QED  BY <2>6
<1>. HIDE DEF Summed
<1>5. T = {}
  <2>. SUFFICES ASSUME T # {} PROVE FALSE
    OBVIOUS
  <2>1. PICK n \in T : \A m \in T : n <= m
    BY LeastElement
  <2>2. n # 0 /\ n \in Nat
    BY <1>3
  <2>3. n - 1 \in Nat /\ n - 1 \notin T
    BY <2>1, <2>2
  <2>. QED  BY <1>4, <2>2, <2>3
<1>6. Summed(Cardinality(S) + 1) /\ Small(Cardinality(S) + 1) = SUBSET S
  <2>1. \A s \in SUBSET S : Cardinality(s) <= Cardinality(S)
    BY FS_Subset
  <2>. QED  BY <1>1, <1>5, <2>1
<1>7. \E g : g = [s \in SUBSET S |-> AddTo(f, g, s)]
  BY <1>6 DEF Summed
<1>8. PICK g : g = Sums(f, S) /\ g = [s \in SUBSET S |-> AddTo(f, g, s)]
  BY <1>7 DEF Sums
<1>. QED  BY <1>8

LEMMA SumsAre ==
  ASSUME NEW f, NEW S, IsFiniteSet(S), NEW T \in SUBSET S
  PROVE  Sums(f, S)[T] = Sums(f, T)[T]
<1>. DEFINE g == Sums(f, S)
            h == Sums(f, T)
            D == {n \in Nat : \E s \in SUBSET T : Cardinality(s) = n /\ g[s] # h[s]}
<1>1. \A s \in SUBSET T : s \in SUBSET S /\ IsFiniteSet(s) /\ Cardinality(s) \in Nat
  BY FS_Subset, FS_CardinalityType
<1>2. \A s \in SUBSET T : g[s] = AddTo(f, g, s) /\ h[s] = AddTo(f, h, s)
  <2>1. IsFiniteSet(T)
    BY <1>1
  <2>2. \A s \in SUBSET S : g[s] = AddTo(f, g, s)
    BY SumsExist
  <2>3. \A s \in SUBSET T : h[s] = AddTo(f, h, s)
    BY <2>1, SumsExist
  <2>. HIDE DEF g, h
  <2>. QED  BY <1>1, <2>2, <2>3
<1>. HIDE DEF g, h
<1>3. D = {}
  <2>. SUFFICES ASSUME D # {} PROVE FALSE
    OBVIOUS
  <2>1. PICK n \in D : \A m \in D : n <= m
    BY LeastElement
  <2>2. PICK s \in SUBSET T : Cardinality(s) = n /\ g[s] # h[s]
    OBVIOUS
  <2>3. s # {}
    BY <1>2, <2>2 DEF AddTo
  <2>4. PICK x : x = CHOOSE y \in s : TRUE
    OBVIOUS
  <2>5. x \in s /\ s \ {x} \in SUBSET T
    BY <2>3, <2>4
  <2>6. Cardinality(s \ {x}) = n - 1
    BY <1>1, <2>2, <2>5, FS_RemoveElement
  <2>7. g[s \ {x}] = h[s \ {x}]
    BY <1>1, <2>1, <2>5, <2>6
  <2>. QED  BY <1>2, <2>2, <2>3, <2>4, <2>7 DEF AddTo
<1>. QED  BY <1>1, <1>3 DEF g, h

\* The sum of no number is 0, and another one adds one of its numbers to the sum of
\* the others.
LEMMA SumChooses ==
  ASSUME NEW f, NEW S, IsFiniteSet(S)
  PROVE  /\ S = {} => SumFunctionOnSet(f, S) = 0
         /\ S # {} => \E x \in S : SumFunctionOnSet(f, S) = f[x] + SumFunctionOnSet(f, S \ {x})
<1>1. \A T : SumFunctionOnSet(f, T) = Sums(f, T)[T]
  BY SumIs DEF Sums
<1>2. Sums(f, S)[S] = AddTo(f, Sums(f, S), S)
  BY SumsExist
<1>3. CASE S = {}
  BY <1>1, <1>2, <1>3 DEF AddTo
<1>4. CASE S # {}
  <2>1. PICK x : x = CHOOSE y \in S : TRUE
    OBVIOUS
  <2>2. x \in S /\ S \ {x} \in SUBSET S
    BY <1>4, <2>1
  <2>3. Sums(f, S)[S \ {x}] = Sums(f, S \ {x})[S \ {x}]
    BY <2>2, SumsAre
  <2>4. Sums(f, S)[S] = f[x] + Sums(f, S)[S \ {x}]
    BY <1>2, <1>4, <2>1 DEF AddTo
  <2>. QED  BY <1>1, <1>4, <2>2, <2>3, <2>4
<1>. QED  BY <1>3, <1>4

\* Some set of finite ones is not another one with an element more.
LEMMA LeastSubset ==
  ASSUME NEW S, IsFiniteSet(S), NEW B, B \subseteq SUBSET S, B # {}
  PROVE  \E T \in B : IsFiniteSet(T) /\ \A x \in T : T \ {x} \notin B
<1>. DEFINE D == {n \in Nat : \E T \in B : Cardinality(T) = n}
<1>1. \A T \in B : IsFiniteSet(T) /\ Cardinality(T) \in Nat
  BY FS_Subset, FS_CardinalityType
<1>2. D # {} /\ D \subseteq Nat
  BY <1>1
<1>3. PICK n \in D : \A m \in D : n <= m
  BY <1>2, LeastElement
<1>4. PICK T \in B : Cardinality(T) = n
  OBVIOUS
<1>5. ASSUME NEW x \in T, T \ {x} \in B PROVE FALSE
  <2>1. Cardinality(T \ {x}) = n - 1
    BY <1>1, <1>4, <1>5, FS_RemoveElement
  <2>2. Cardinality(T \ {x}) \in D
    BY <1>1, <1>5
  <2>3. n \in Nat /\ n <= Cardinality(T \ {x})
    BY <1>2, <1>3, <2>2
  <2>. QED  BY <2>1, <2>3
<1>. QED  BY <1>1, <1>4, <1>5

LEMMA SumType ==
  ASSUME NEW S, IsFiniteSet(S), NEW f, \A x \in S : f[x] \in Int
  PROVE  \A T \in SUBSET S : SumFunctionOnSet(f, T) \in Int
<1>. DEFINE B == {T \in SUBSET S : SumFunctionOnSet(f, T) \notin Int}
<1>. SUFFICES ASSUME B # {} PROVE FALSE
  OBVIOUS
<1>1. PICK T \in B : IsFiniteSet(T) /\ \A x \in T : T \ {x} \notin B
  BY LeastSubset
<1>2. CASE T = {}
  BY <1>1, <1>2, SumChooses
<1>3. CASE T # {}
  <2>1. PICK x \in T : SumFunctionOnSet(f, T) = f[x] + SumFunctionOnSet(f, T \ {x})
    BY <1>1, <1>3, SumChooses
  <2>2. SumFunctionOnSet(f, T \ {x}) \in Int /\ f[x] \in Int
    BY <1>1
  <2>. QED  BY <1>1, <2>1, <2>2
<1>. QED  BY <1>2, <1>3

\* Whatever the order in which they are added.
LEMMA SumRemoves ==
  ASSUME NEW S, IsFiniteSet(S), NEW f, \A x \in S : f[x] \in Int
  PROVE  \A T \in SUBSET S : \A y \in T :
           SumFunctionOnSet(f, T) = f[y] + SumFunctionOnSet(f, T \ {y})
<1>. DEFINE B == {T \in SUBSET S : \E y \in T :
                    SumFunctionOnSet(f, T) # f[y] + SumFunctionOnSet(f, T \ {y})}
<1>. SUFFICES ASSUME B # {} PROVE FALSE
  OBVIOUS
<1>1. PICK T \in B : IsFiniteSet(T) /\ \A x \in T : T \ {x} \notin B
  BY LeastSubset
<1>2. PICK y \in T : SumFunctionOnSet(f, T) # f[y] + SumFunctionOnSet(f, T \ {y})
  OBVIOUS
<1>3. PICK x \in T : SumFunctionOnSet(f, T) = f[x] + SumFunctionOnSet(f, T \ {x})
  <2>1. IsFiniteSet(T) /\ T # {}
    BY <1>1, <1>2
  <2>. QED  BY <2>1, SumChooses
<1>4. x # y
  BY <1>2, <1>3
<1>5. T \ {x} \in SUBSET S /\ T \ {y} \in SUBSET S /\ (T \ {x}) \ {y} \in SUBSET S
      /\ y \in T \ {x} /\ x \in T \ {y} /\ (T \ {x}) \ {y} = (T \ {y}) \ {x}
  BY <1>4
<1>6. SumFunctionOnSet(f, T \ {x}) = f[y] + SumFunctionOnSet(f, (T \ {x}) \ {y})
  BY <1>1, <1>5
<1>7. SumFunctionOnSet(f, T \ {y}) = f[x] + SumFunctionOnSet(f, (T \ {x}) \ {y})
  BY <1>1, <1>5
<1>8. f[x] \in Int /\ f[y] \in Int
  BY <1>5
<1>9. PICK q \in Int : q = SumFunctionOnSet(f, (T \ {x}) \ {y})
  BY <1>5, SumType
<1>10. SumFunctionOnSet(f, T) = f[y] + SumFunctionOnSet(f, T \ {y})
  BY <1>3, <1>6, <1>7, <1>8, <1>9
<1>. QED  BY <1>2, <1>10

\* A sum is of the numbers in it.
LEMMA SumAgrees ==
  ASSUME NEW S, IsFiniteSet(S), NEW f, NEW g, \A x \in S : f[x] \in Int /\ g[x] = f[x]
  PROVE  \A T \in SUBSET S : SumFunctionOnSet(f, T) = SumFunctionOnSet(g, T)
<1>. DEFINE B == {T \in SUBSET S : SumFunctionOnSet(f, T) # SumFunctionOnSet(g, T)}
<1>. SUFFICES ASSUME B # {} PROVE FALSE
  OBVIOUS
<1>1. PICK T \in B : IsFiniteSet(T) /\ \A x \in T : T \ {x} \notin B
  BY LeastSubset
<1>2. CASE T = {}
  BY <1>1, <1>2, SumChooses
<1>3. CASE T # {}
  <2>1. PICK x \in T : TRUE
    BY <1>3
  <2>2. SumFunctionOnSet(f, T) = f[x] + SumFunctionOnSet(f, T \ {x})
    BY SumRemoves
  <2>3. \A z \in S : g[z] \in Int
    OBVIOUS
  <2>4. SumFunctionOnSet(g, T) = g[x] + SumFunctionOnSet(g, T \ {x})
    BY <2>3, SumRemoves
  <2>5. SumFunctionOnSet(g, T \ {x}) = SumFunctionOnSet(f, T \ {x}) /\ g[x] = f[x]
    BY <1>1
  <2>. QED  BY <1>1, <2>2, <2>4, <2>5
<1>. QED  BY <1>2, <1>3

\* Numbers of the other sign have the sum of the other sign.
LEMMA SumNegates ==
  ASSUME NEW S, IsFiniteSet(S), NEW f, NEW g, \A x \in S : f[x] \in Int /\ g[x] = -f[x]
  PROVE  \A T \in SUBSET S : SumFunctionOnSet(g, T) = -SumFunctionOnSet(f, T)
<1>1. \A x \in S : f[x] \in Int /\ g[x] \in Int /\ g[x] = -f[x]
  OBVIOUS
<1>. DEFINE B == {T \in SUBSET S : SumFunctionOnSet(g, T) # -SumFunctionOnSet(f, T)}
<1>. SUFFICES ASSUME B # {} PROVE FALSE
  OBVIOUS
<1>2. PICK T \in B : IsFiniteSet(T) /\ \A x \in T : T \ {x} \notin B
  BY LeastSubset
<1>3. CASE T = {}
  BY <1>2, <1>3, SumChooses
<1>4. CASE T # {}
  <2>1. PICK x \in T : TRUE
    BY <1>4
  <2>2. SumFunctionOnSet(f, T) = f[x] + SumFunctionOnSet(f, T \ {x})
    BY <1>1, SumRemoves
  <2>3. SumFunctionOnSet(g, T) = g[x] + SumFunctionOnSet(g, T \ {x})
    BY <1>1, SumRemoves
  <2>4. SumFunctionOnSet(g, T \ {x}) = -SumFunctionOnSet(f, T \ {x})
    BY <1>2
  <2>5. SumFunctionOnSet(f, T \ {x}) \in Int /\ f[x] \in Int /\ g[x] = -f[x]
    BY <1>1, SumType
  <2>. QED  BY <1>2, <2>2, <2>3, <2>4, <2>5
<1>. QED  BY <1>3, <1>4

\* The sum of two sets of numbers that share none is the sum of their sums.
LEMMA SumOfBoth ==
  ASSUME NEW S, IsFiniteSet(S), NEW f, \A x \in S : f[x] \in Int,
         NEW R \in SUBSET S
  PROVE  \A T \in SUBSET (S \ R) :
           SumFunctionOnSet(f, R \cup T) = SumFunctionOnSet(f, R) + SumFunctionOnSet(f, T)
<1>. DEFINE B == {T \in SUBSET (S \ R) :
                    SumFunctionOnSet(f, R \cup T) # SumFunctionOnSet(f, R) + SumFunctionOnSet(f, T)}
<1>. SUFFICES ASSUME B # {} PROVE FALSE
  OBVIOUS
<1>1. IsFiniteSet(S \ R)
  BY FS_Subset
<1>2. PICK T \in B : IsFiniteSet(T) /\ \A x \in T : T \ {x} \notin B
  BY <1>1, LeastSubset
<1>0. SumFunctionOnSet(f, R) \in Int
  BY SumType
<1>3. CASE T = {}
  <2>1. SumFunctionOnSet(f, T) = 0 /\ R \cup T = R
    BY <1>2, <1>3, SumChooses
  <2>2. SumFunctionOnSet(f, R \cup T) = SumFunctionOnSet(f, R)
    BY <2>1
  <2>. QED  BY <1>0, <1>2, <2>1, <2>2
<1>4. CASE T # {}
  <2>1. PICK x \in T : TRUE
    BY <1>4
  <2>2. T \in SUBSET S /\ R \cup T \in SUBSET S /\ x \in R \cup T /\ T \ {x} \in SUBSET (S \ R)
        /\ T \ {x} \in SUBSET S /\ (R \cup T) \ {x} = R \cup (T \ {x})
    BY <1>2
  <2>3. SumFunctionOnSet(f, T) = f[x] + SumFunctionOnSet(f, T \ {x})
    BY <2>2, SumRemoves
  <2>4. SumFunctionOnSet(f, R \cup T) = f[x] + SumFunctionOnSet(f, R \cup (T \ {x}))
    BY <2>2, SumRemoves
  <2>5. SumFunctionOnSet(f, R \cup (T \ {x})) = SumFunctionOnSet(f, R) + SumFunctionOnSet(f, T \ {x})
    BY <1>2, <2>2
  <2>6. SumFunctionOnSet(f, T \ {x}) \in Int /\ f[x] \in Int
    BY <2>2, SumType
  <2>. QED  BY <1>0, <1>2, <2>3, <2>4, <2>5, <2>6
<1>. QED  BY <1>3, <1>4

-----------------------------------------------------------------------------
(***************************************************************************)
(* Folds of sequences: FoldLeft goes by the greatest of a set of places.   *)
(***************************************************************************)

\* The greatest of some places is one of them.
LEMMA MaxIs ==
  ASSUME NEW n \in Nat, NEW s \in SUBSET (1..n), s # {}
  PROVE  Max(s) \in s /\ \A y \in s : y <= Max(s)
<1>1. s \subseteq 0..n
  OBVIOUS
<1>2. PICK x \in s : \A y \in s : y <= x
  BY <1>1, GreatestElement
<1>3. x \in Int /\ \A y \in s : y \in Int
  OBVIOUS
<1>4. \A y \in s : x >= y
  BY <1>2, <1>3
<1>5. PICK m \in s : m = Max(s) /\ \A y \in s : m >= y
  BY <1>4 DEF Max
<1>. QED  BY <1>3, <1>5

\* The places up to one, and those before it.
LEMMA PlacesUpTo ==
  ASSUME NEW n \in Nat, NEW i \in 1..n
  PROVE  1..i \in SUBSET (1..n) /\ 1..i # {} /\ Max(1..i) = i /\ (1..i) \ {i} = 1..(i - 1)
         /\ 1..(i - 1) \in SUBSET (1..n)
<1>1. 1..i \in SUBSET (1..n) /\ 1..i # {} /\ i \in 1..i
  OBVIOUS
<1>2. Max(1..i) \in 1..i /\ i <= Max(1..i)
  BY <1>1, MaxIs
<1>. QED  BY <1>1, <1>2

\* g gives what a fold by the step P from b returns for each set of n places.
FoldOf(g, n, b, P) ==
  \A s \in SUBSET (1..n) : g[s] = IF s = {} THEN b ELSE P[<<g[s \ {Max(s)}], Max(s)>>]

\* There is such a function, when the step keeps to the values A.
LEMMA FoldsExist ==
  ASSUME NEW n \in Nat, NEW A, NEW b \in A, NEW P, \A a \in A, i \in 1..n : P[<<a, i>>] \in A
  PROVE  \E g \in [SUBSET (1..n) -> A] : FoldOf(g, n, b, P)
<1>. DEFINE Folds(k) == \E g : /\ g \in [SUBSET (1..k) -> A]
                               /\ \A s \in SUBSET (1..k) :
                                    g[s] = IF s = {} THEN b ELSE P[<<g[s \ {Max(s)}], Max(s)>>]
            T == {k \in 0..n : ~Folds(k)}
<1>1. Folds(0)
  <2>1. PICK g : g = [s \in SUBSET (1..0) |-> b]
    OBVIOUS
  <2>2. \A s \in SUBSET (1..0) : s = {}
    OBVIOUS
  <2>3. g \in [SUBSET (1..0) -> A] /\ \A s \in SUBSET (1..0) : g[s] = b
    BY <2>1
  <2>. QED  BY <2>2, <2>3
<1>2. ASSUME NEW k \in 0..n, k + 1 <= n, Folds(k) PROVE Folds(k + 1)
  <2>1. PICK g : /\ g \in [SUBSET (1..k) -> A]
                 /\ \A s \in SUBSET (1..k) : g[s] = IF s = {} THEN b ELSE P[<<g[s \ {Max(s)}], Max(s)>>]
    BY <1>2
  <2>2. PICK h : h = [s \in SUBSET (1..(k + 1)) |-> IF k + 1 \in s THEN P[<<g[s \ {k + 1}], k + 1>>] ELSE g[s]]
    OBVIOUS
  <2>3. \A s \in SUBSET (1..(k + 1)) : k + 1 \notin s => s \in SUBSET (1..k)
    OBVIOUS
  <2>4. \A s \in SUBSET (1..k) : s \in SUBSET (1..(k + 1)) /\ h[s] = g[s] /\ k + 1 \notin s
    BY <2>2
  <2>5. ASSUME NEW s \in SUBSET (1..(k + 1)), k + 1 \in s
        PROVE  h[s] \in A /\ s # {} /\ h[s] = P[<<h[s \ {Max(s)}], Max(s)>>]
    <3>1. k + 1 \in Nat /\ s # {}
      BY <2>5
    <3>2. Max(s) \in s /\ k + 1 <= Max(s)
      BY <2>5, <3>1, MaxIs
    <3>3. Max(s) = k + 1
      BY <3>1, <3>2
    <3>4. s \ {k + 1} \in SUBSET (1..k)
      OBVIOUS
    <3>5. h[s \ {k + 1}] = g[s \ {k + 1}] /\ g[s \ {k + 1}] \in A
      BY <2>1, <2>4, <3>4
    <3>6. h[s] = P[<<g[s \ {k + 1}], k + 1>>]
      BY <2>2, <2>5
    <3>7. k + 1 \in 1..n
      BY <1>2
    <3>. QED  BY <3>1, <3>3, <3>5, <3>6, <3>7
  <2>6. ASSUME NEW s \in SUBSET (1..(k + 1)), k + 1 \notin s
        PROVE  h[s] \in A /\ h[s] = IF s = {} THEN b ELSE P[<<h[s \ {Max(s)}], Max(s)>>]
    <3>1. s \in SUBSET (1..k) /\ s \ {Max(s)} \in SUBSET (1..k)
      BY <2>3, <2>6
    <3>2. h[s] = g[s] /\ h[s \ {Max(s)}] = g[s \ {Max(s)}]
      BY <2>4, <3>1
    <3>. QED  BY <2>1, <3>1, <3>2
  <2>7. \A s \in SUBSET (1..(k + 1)) : h[s] \in A
    BY <2>5, <2>6
  <2>8. h \in [SUBSET (1..(k + 1)) -> A]
    BY <2>2, <2>7
  <2>9. \A s \in SUBSET (1..(k + 1)) : h[s] = IF s = {} THEN b ELSE P[<<h[s \ {Max(s)}], Max(s)>>]
    BY <2>5, <2>6
  <2>. QED  BY <2>8, <2>9
<1>. HIDE DEF Folds
<1>3. T = {}
  <2>. SUFFICES ASSUME T # {} PROVE FALSE
    OBVIOUS
  <2>1. PICK k \in T : \A m \in T : k <= m
    <3>1. T \subseteq Nat
      OBVIOUS
    <3>. QED  BY <3>1, LeastElement
  <2>2. k # 0 /\ k \in 0..n
    BY <1>1
  <2>3. k - 1 \in 0..n /\ (k - 1) + 1 = k /\ k - 1 \notin T
    BY <2>1, <2>2
  <2>. QED  BY <1>2, <2>2, <2>3
<1>4. Folds(n)
  BY <1>3
<1>. QED  BY <1>4 DEF Folds, FoldOf

\* The values of a function on a set.
ValuesOn(f, T) == {f[x] : x \in T}

\* The sum over the values of a function that has each once.
LEMMA SumOfImage ==
  ASSUME NEW S, IsFiniteSet(S), NEW f, NEW g, NEW h,
         \A x \in S : g[f[x]] \in Int /\ h[x] = g[f[x]],
         \A x, y \in S : f[x] = f[y] => x = y
  PROVE  \A T \in SUBSET S : SumFunctionOnSet(g, ValuesOn(f, T)) = SumFunctionOnSet(h, T)
<1>. USE DEF ValuesOn
<1>. DEFINE image(T) == {f[x] : x \in T}
            B == {T \in SUBSET S : SumFunctionOnSet(g, image(T)) # SumFunctionOnSet(h, T)}
<1>. SUFFICES ASSUME B # {} PROVE FALSE
  OBVIOUS
<1>1. PICK T \in B : IsFiniteSet(T) /\ \A x \in T : T \ {x} \notin B
  BY LeastSubset
<1>2. IsFiniteSet(image(S))
  <2>1. PICK F : F = [x \in S |-> f[x]]
    OBVIOUS
  <2>2. F \in Surjection(S, image(S))
    BY <2>1 DEF Surjection
  <2>. QED  BY <2>2, FS_Surjection
<1>3. (\A y \in image(S) : g[y] \in Int) /\ image(T) \in SUBSET image(S) /\ \A x \in S : h[x] \in Int
  OBVIOUS
<1>4. CASE T = {}
  <2>1. image(T) = {} /\ IsFiniteSet({})
    BY <1>4, FS_EmptySet
  <2>2. SumFunctionOnSet(g, {}) = 0 /\ SumFunctionOnSet(h, {}) = 0
    BY <2>1, SumChooses
  <2>. QED  BY <1>1, <1>4, <2>1, <2>2
<1>5. CASE T # {}
  <2>1. PICK x \in T : TRUE
    BY <1>5
  <2>2. x \in S /\ T \ {x} \in SUBSET S /\ f[x] \in image(T) /\ image(T) \ {f[x]} = image(T \ {x})
    BY <1>1
  <2>3. SumFunctionOnSet(g, image(T)) = g[f[x]] + SumFunctionOnSet(g, image(T) \ {f[x]})
    BY <1>2, <1>3, <2>2, SumRemoves
  <2>4. SumFunctionOnSet(h, T) = h[x] + SumFunctionOnSet(h, T \ {x})
    BY <1>1, <1>3, SumRemoves
  <2>5. SumFunctionOnSet(g, image(T \ {x})) = SumFunctionOnSet(h, T \ {x})
    BY <1>1, <2>2
  <2>. QED  BY <1>1, <2>2, <2>3, <2>4, <2>5
<1>. QED  BY <1>4, <1>5

\* Numbers that are no less have a sum that is no less.
LEMMA SumAtMost ==
  ASSUME NEW S, IsFiniteSet(S), NEW f, NEW g, \A x \in S : f[x] \in Int /\ g[x] \in Int /\ f[x] <= g[x]
  PROVE  \A T \in SUBSET S : SumFunctionOnSet(f, T) <= SumFunctionOnSet(g, T)
<1>. DEFINE B == {T \in SUBSET S : ~(SumFunctionOnSet(f, T) <= SumFunctionOnSet(g, T))}
<1>. SUFFICES ASSUME B # {} PROVE FALSE
  OBVIOUS
<1>1. PICK T \in B : IsFiniteSet(T) /\ \A x \in T : T \ {x} \notin B
  BY LeastSubset
<1>2. CASE T = {}
  <2>1. SumFunctionOnSet(f, T) = 0 /\ SumFunctionOnSet(g, T) = 0
    BY <1>1, <1>2, SumChooses
  <2>. QED  BY <1>1, <2>1
<1>3. CASE T # {}
  <2>1. PICK x \in T : TRUE
    BY <1>3
  <2>2. SumFunctionOnSet(f, T) = f[x] + SumFunctionOnSet(f, T \ {x})
    BY SumRemoves
  <2>3. SumFunctionOnSet(g, T) = g[x] + SumFunctionOnSet(g, T \ {x})
    BY SumRemoves
  <2>4. SumFunctionOnSet(f, T \ {x}) <= SumFunctionOnSet(g, T \ {x})
    BY <1>1
  <2>5. SumFunctionOnSet(f, T \ {x}) \in Int /\ SumFunctionOnSet(g, T \ {x}) \in Int
    BY SumType
  <2>6. f[x] \in Int /\ g[x] \in Int /\ f[x] <= g[x]
    BY <1>1
  <2>. QED  BY <1>1, <2>2, <2>3, <2>4, <2>5, <2>6
<1>. QED  BY <1>2, <1>3

\* A multiple of the numbers has a multiple of the sum.
LEMMA SumMultiplies ==
  ASSUME NEW S, IsFiniteSet(S), NEW f, NEW g, NEW c \in Int, \A x \in S : f[x] \in Int /\ g[x] = c * f[x]
  PROVE  \A T \in SUBSET S : SumFunctionOnSet(g, T) = c * SumFunctionOnSet(f, T)
<1>1. \A x \in S : f[x] \in Int /\ g[x] \in Int /\ g[x] = c * f[x]
  OBVIOUS
<1>. DEFINE B == {T \in SUBSET S : SumFunctionOnSet(g, T) # c * SumFunctionOnSet(f, T)}
<1>. SUFFICES ASSUME B # {} PROVE FALSE
  OBVIOUS
<1>2. PICK T \in B : IsFiniteSet(T) /\ \A x \in T : T \ {x} \notin B
  BY LeastSubset
<1>3. CASE T = {}
  BY <1>2, <1>3, SumChooses
<1>4. CASE T # {}
  <2>1. PICK x \in T : TRUE
    BY <1>4
  <2>2. SumFunctionOnSet(f, T) = f[x] + SumFunctionOnSet(f, T \ {x})
    BY <1>1, SumRemoves
  <2>3. SumFunctionOnSet(g, T) = g[x] + SumFunctionOnSet(g, T \ {x})
    BY <1>1, SumRemoves
  <2>4. SumFunctionOnSet(g, T \ {x}) = c * SumFunctionOnSet(f, T \ {x})
    BY <1>2
  <2>5. SumFunctionOnSet(f, T \ {x}) \in Int /\ f[x] \in Int /\ g[x] = c * f[x]
    BY <1>1, SumType
  <2>. QED  BY <1>2, <2>2, <2>3, <2>4, <2>5
<1>. QED  BY <1>3, <1>4

\* The image of a finite set is finite.
LEMMA ImageIsFinite ==
  ASSUME NEW S, IsFiniteSet(S), NEW f
  PROVE  IsFiniteSet({f[x] : x \in S})
<1> DEFINE T == {f[x] : x \in S}
           h == [x \in S |-> f[x]]
<1>1. h \in Surjection(S, T)
  BY DEF Surjection
<1>. QED  BY <1>1, FS_Surjection

\* A part of finitely many numbers that are not negative adds up to no more.
LEMMA SumOfPart ==
  ASSUME NEW S, IsFiniteSet(S), NEW f, \A x \in S : f[x] \in Nat, NEW R \in SUBSET S
  PROVE  SumFunctionOnSet(f, R) <= SumFunctionOnSet(f, S)
<1> DEFINE B == {T \in SUBSET (S \ R) : ~(SumFunctionOnSet(f, T) >= 0)}
<1>0. \A x \in S : f[x] \in Int
  OBVIOUS
<1>1. SumFunctionOnSet(f, {}) = 0
  BY SumChooses, FS_EmptySet
<1>2. SumFunctionOnSet(f, S \ R) >= 0
  <2> SUFFICES ASSUME B # {} PROVE FALSE
    OBVIOUS
  <2>1. IsFiniteSet(S \ R)
    BY FS_Subset, S \ R \in SUBSET S
  <2>2. PICK T \in B : IsFiniteSet(T) /\ \A x \in T : T \ {x} \notin B
    BY <2>1, LeastSubset
  <2>3. T # {}
    BY <1>1, <2>2
  <2>4. PICK x \in T : SumFunctionOnSet(f, T) = f[x] + SumFunctionOnSet(f, T \ {x})
    BY <2>2, <2>3, SumChooses
  <2>5. SumFunctionOnSet(f, T \ {x}) \in Int /\ SumFunctionOnSet(f, T \ {x}) >= 0
    <3>1. T \ {x} \in SUBSET (S \ R) /\ T \ {x} \in SUBSET S
      BY <2>2
    <3>2. T \ {x} \notin B
      BY <2>2, <2>4
    <3>. QED  BY <1>0, <3>1, <3>2, SumType
  <2>6. f[x] \in Nat
    BY <2>2, <2>4
  <2>7. SumFunctionOnSet(f, T) >= 0
    BY <2>4, <2>5, <2>6
  <2>. QED  BY <2>2, <2>7
<1>3. R \cup (S \ R) = S /\ S \ R \in SUBSET (S \ R) /\ S \ R \in SUBSET S
  OBVIOUS
<1>4. SumFunctionOnSet(f, S) = SumFunctionOnSet(f, R) + SumFunctionOnSet(f, S \ R)
  BY <1>0, <1>3, SumOfBoth
<1>5. SumFunctionOnSet(f, R) \in Int /\ SumFunctionOnSet(f, S \ R) \in Int
  BY <1>0, <1>3, SumType
<1>. QED  BY <1>2, <1>4, <1>5

\* What is bounded class by class is bounded by the sum of the bounds.
LEMMA SumByClass ==
  ASSUME NEW S, IsFiniteSet(S), NEW f, \A x \in S : f[x] \in Int,
         NEW C, IsFiniteSet(C), NEW g, \A c \in C : g[c] \in Int,
         NEW h, \A x \in S : h[x] \in C,
         \A c \in C : SumFunctionOnSet(f, {x \in S : h[x] = c}) <= g[c]
  PROVE  SumFunctionOnSet(f, S) <= SumFunctionOnSet(g, C)
<1> DEFINE Of(D) == {x \in S : h[x] \in D}
           B == {D \in SUBSET C : ~(SumFunctionOnSet(f, Of(D)) <= SumFunctionOnSet(g, D))}
<1>1. Of(C) = S
  OBVIOUS
<1> SUFFICES ASSUME B # {} PROVE FALSE
  <2>1. C \notin B
    OBVIOUS
  <2>2. C \in SUBSET C
    OBVIOUS
  <2>3. SumFunctionOnSet(f, Of(C)) <= SumFunctionOnSet(g, C)
    BY <2>1, <2>2
  <2>. QED  BY <1>1, <2>3
<1>2. PICK D \in B : IsFiniteSet(D) /\ \A c \in D : D \ {c} \notin B
  BY LeastSubset
<1>3. D # {}
  <2>1. Of({}) = {}
    OBVIOUS
  <2>2. SumFunctionOnSet(f, {}) = 0 /\ SumFunctionOnSet(g, {}) = 0
    BY SumChooses, FS_EmptySet
  <2>. QED  BY <1>2, <2>1, <2>2
<1>4. PICK c \in D : SumFunctionOnSet(g, D) = g[c] + SumFunctionOnSet(g, D \ {c})
  BY <1>2, <1>3, SumChooses
<1> DEFINE One == {x \in S : h[x] = c}
           Rest == Of(D \ {c})
<1>5. One \in SUBSET S /\ Rest \in SUBSET (S \ One) /\ Rest \in SUBSET S /\ Of(D) = One \cup Rest
  BY <1>2, <1>4
<1>6. c \in C /\ D \in SUBSET C /\ D \ {c} \in SUBSET C /\ D \ {c} \notin B
  BY <1>2, <1>4
<1>7. SumFunctionOnSet(f, Rest) <= SumFunctionOnSet(g, D \ {c})
  BY <1>6
<1> HIDE DEF One, Rest
<1>8. SumFunctionOnSet(f, Of(D)) = SumFunctionOnSet(f, One) + SumFunctionOnSet(f, Rest)
  BY <1>5, SumOfBoth
<1>9. SumFunctionOnSet(f, One) \in Int /\ SumFunctionOnSet(f, Rest) \in Int
  BY <1>5, SumType
<1>10. SumFunctionOnSet(g, D \ {c}) \in Int
  BY <1>6, SumType
<1>11. SumFunctionOnSet(f, One) <= g[c]
  BY <1>6 DEF One
<1>12. SumFunctionOnSet(f, Of(D)) <= SumFunctionOnSet(g, D)
  BY <1>4, <1>6, <1>7, <1>8, <1>9, <1>10, <1>11
<1>. QED  BY <1>2, <1>12

\* Disjoint parts have no more elements together than the whole.
LEMMA PartsCount ==
  ASSUME NEW S, IsFiniteSet(S), NEW C, IsFiniteSet(C), NEW part, NEW g,
         \A c \in C : part[c] \subseteq S /\ g[c] = Cardinality(part[c]),
         \A c, d \in C : c # d => part[c] \cap part[d] = {}
  PROVE  SumFunctionOnSet(g, C) <= Cardinality(S)
<1> DEFINE Of(D) == {x \in S : \E c \in D : x \in part[c]}
           B == {D \in SUBSET C : SumFunctionOnSet(g, D) # Cardinality(Of(D))}
<1>1. \A D : IsFiniteSet(Of(D)) /\ Cardinality(Of(D)) \in Nat /\ Cardinality(Of(D)) <= Cardinality(S)
  <2> TAKE D
  <2>1. Of(D) \in SUBSET S
    OBVIOUS
  <2> HIDE DEF Of
  <2>. QED  BY <2>1, FS_Subset, FS_CardinalityType
<1>2. B = {}
  <2> SUFFICES ASSUME B # {} PROVE FALSE
    OBVIOUS
  <2>1. PICK D \in B : IsFiniteSet(D) /\ \A c \in D : D \ {c} \notin B
    BY LeastSubset
  <2>2. D # {}
    <3>1. Of({}) = {} /\ Cardinality(Of({})) = 0
      BY FS_EmptySet
    <3>2. SumFunctionOnSet(g, {}) = 0
      BY SumChooses, FS_EmptySet
    <3>3. {} \notin B
      BY <3>1, <3>2
    <3>. QED  BY <2>1, <3>3
  <2>3. PICK c \in D : SumFunctionOnSet(g, D) = g[c] + SumFunctionOnSet(g, D \ {c})
    BY <2>1, <2>2, SumChooses
  <2> DEFINE these == part[c]
             rest == Of(D \ {c})
  <2>4. SumFunctionOnSet(g, D \ {c}) = Cardinality(rest)
    BY <2>1, <2>3
  <2>5. these \in SUBSET S /\ Of(D) = these \cup rest /\ these \cap rest = {}
    BY <2>1, <2>3
  <2>6. IsFiniteSet(rest)
    BY <1>1
  <2>7. g[c] = Cardinality(these)
    BY <2>1, <2>3
  <2> HIDE DEF these, rest, Of
  <2>8. IsFiniteSet(these) /\ Cardinality(these) \in Nat /\ Cardinality(rest) \in Nat
    BY <2>5, <2>6, FS_Subset, FS_CardinalityType
  <2>9. Cardinality(these \cap rest) = 0
    BY <2>5, FS_EmptySet
  <2>10. Cardinality(these \cup rest) = Cardinality(these) + Cardinality(rest)
    <3>1. Cardinality(these \cup rest)
            = Cardinality(these) + Cardinality(rest) - Cardinality(these \cap rest)
      BY <2>6, <2>8, FS_Union
    <3>. QED  BY <2>8, <2>9, <3>1
  <2>. QED  BY <2>1, <2>3, <2>4, <2>5, <2>7, <2>10
<1>3. C \notin B /\ C \in SUBSET C
  BY <1>2
<1>4. SumFunctionOnSet(g, C) = Cardinality(Of(C))
  BY <1>3
<1>. QED  BY <1>1, <1>4

============================================================================
