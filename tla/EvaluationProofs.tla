-------------------------- MODULE EvaluationProofs --------------------------
(***************************************************************************)
(* What holds of every measurement and report, whatever the documents, the *)
(* questions, the search's rankings and the samples.                       *)
(***************************************************************************)
EXTENDS Evaluation, FiniteSetTheorems, NaturalsInduction, WellFoundedInduction, TLAPS

-----------------------------------------------------------------------------
(* Sums, which the library defines by a recursive function on subsets.    *)

\* A set of naturals has a least element.
LEMMA Least ==
    ASSUME NEW S \in SUBSET Nat, S # {}
    PROVE  \E x \in S : \A y \in S : x <= y
<1> DEFINE R == OpToRel(<, Nat)
<1>1. IsWellFoundedOn(R, Nat)
  BY NatLessThanWellFounded
<1>2. \A x, y \in Nat : x < y => <<x, y>> \in R
  BY DEF OpToRel
<1> HIDE DEF R
<1>3. PICK x \in S : \A y \in S : ~(<<y, x>> \in R)
  BY <1>1, WFMin
<1>4. ASSUME NEW y \in S PROVE x <= y
  <2>1. ~(y < x)
    BY <1>2, <1>3
  <2> QED
    BY <2>1
<1> QED
  BY <1>4

\* The element the library's sum takes next, and what the rest of s gives.
Chosen(s) == CHOOSE x \in s : TRUE
SumStep(h, f, s) == IF s = {} THEN 0 ELSE f[Chosen(s)] + h[s \ {Chosen(s)}]

\* h has the sum of f over every subset of S.
Sums(h, f, S) == \A s \in SUBSET S : h[s] = SumStep(h, f, s)

LEMMA ChosenIn == ASSUME NEW s, s # {} PROVE Chosen(s) \in s
  BY DEF Chosen

LEMMA Smaller ==
    ASSUME NEW s, IsFiniteSet(s), NEW x \in s
    PROVE  /\ IsFiniteSet(s \ {x}) /\ Cardinality(s \ {x}) \in Nat /\ Cardinality(s) \in Nat
           /\ Cardinality(s \ {x}) = Cardinality(s) - 1
           /\ ~(Cardinality(s) <= Cardinality(s \ {x}))
<1>1. /\ IsFiniteSet(s \ {x}) /\ Cardinality(s \ {x}) \in Nat /\ Cardinality(s) \in Nat
      /\ Cardinality(s \ {x}) = Cardinality(s) - 1
  BY FS_RemoveElement, FS_CardinalityType
<1> QED
  BY <1>1

\* Sets of a family that includes a set have a smallest.
LEMMA SmallestSet ==
    ASSUME NEW F, \A s \in F : IsFiniteSet(s), F # {}
    PROVE  \E s \in F : \A t \in F : Cardinality(s) <= Cardinality(t)
<1> DEFINE C == {Cardinality(s) : s \in F}
<1>1. C \in SUBSET Nat /\ C # {}
  BY FS_CardinalityType
<1>2. PICK c \in C : \A d \in C : c <= d
  <2> HIDE DEF C
  <2> QED
    BY <1>1, Least
<1> QED
  BY <1>2

\* There is such a function for every finite set.
LEMMA SomeSums ==
    ASSUME NEW f, NEW S, IsFiniteSet(S)
    PROVE  \E h : h = [s \in SUBSET S |-> SumStep(h, f, s)]
<1> DEFINE Small(n) == {s \in SUBSET S : Cardinality(s) <= n}
           Is(h, n) == \A s \in Small(n) : h[s] = SumStep(h, f, s)
           Missing == {n \in Nat : ~\E h : Is(h, n)}
<1>1. \A s \in SUBSET S : IsFiniteSet(s) /\ Cardinality(s) \in Nat /\ Cardinality(s) <= Cardinality(S)
  BY FS_Subset, FS_CardinalityType
<1>2. Missing = {}
  <2>1. SUFFICES ASSUME Missing # {} PROVE FALSE
    OBVIOUS
  <2>2. PICK n \in Missing : \A k \in Missing : n <= k
    <3>1. Missing \subseteq Nat
      OBVIOUS
    <3> HIDE DEF Missing
    <3> QED
      BY <2>1, <3>1, Least
  <2>3. n \in Nat /\ ~\E h : Is(h, n)
    BY <2>2
  <2> HIDE DEF Is
  <2>4. CASE n = 0
    <3>1. Is([s \in SUBSET S |-> 0], n)
      <4>1. \A s \in Small(n) : s = {}
        BY <1>1, <2>4, FS_EmptySet
      <4> QED
        BY <4>1 DEF Is, SumStep
    <3> QED
      BY <2>3, <3>1
  <2>5. CASE n # 0
    <3>1. n - 1 \in Nat /\ n - 1 \notin Missing
      <4>1. n - 1 \in Nat /\ ~(n <= n - 1)
        BY <2>3, <2>5
      <4> QED
        BY <2>2, <4>1
    <3>2. PICK h : Is(h, n - 1)
      BY <3>1
    <3> DEFINE g == [s \in SUBSET S |-> IF Cardinality(s) <= n - 1 THEN h[s] ELSE SumStep(h, f, s)]
    <3>3. ASSUME NEW s \in Small(n) PROVE g[s] = SumStep(h, f, s)
      <4>1. Cardinality(s) <= n - 1 => s \in Small(n - 1)
        OBVIOUS
      <4> QED
        BY <3>2, <4>1 DEF Is
    <3>4. ASSUME NEW s \in Small(n) PROVE SumStep(g, f, s) = SumStep(h, f, s)
      <4>1. CASE s = {}
        BY <4>1 DEF SumStep
      <4>2. CASE s # {}
        <5>1. Chosen(s) \in s
          BY <4>2, ChosenIn
        <5>2. s \ {Chosen(s)} \in SUBSET S /\ Cardinality(s \ {Chosen(s)}) <= n - 1
          BY <1>1, <2>3, <5>1, Smaller
        <5>3. g[s \ {Chosen(s)}] = h[s \ {Chosen(s)}]
          BY <5>2
        <5> HIDE DEF g
        <5> QED
          BY <5>3 DEF SumStep
      <4> QED
        BY <4>1, <4>2
    <3>5. Is(g, n)
      <4> HIDE DEF g
      <4> QED
        BY <3>3, <3>4 DEF Is
    <3> QED
      BY <2>3, <3>5
  <2> QED
    BY <2>4, <2>5
<1>3. PICK h : Is(h, Cardinality(S))
  <2>1. Cardinality(S) \in Nat
    BY FS_CardinalityType
  <2> QED
    BY <1>2, <2>1
<1> DEFINE g == [s \in SUBSET S |-> h[s]]
<1>4. ASSUME NEW s \in SUBSET S PROVE g[s] = SumStep(g, f, s)
  <2>1. h[s] = SumStep(h, f, s)
    BY <1>1, <1>3
  <2>2. SumStep(g, f, s) = SumStep(h, f, s)
    <3>1. s \ {Chosen(s)} \in SUBSET S
      OBVIOUS
    <3>2. g[s \ {Chosen(s)}] = h[s \ {Chosen(s)}]
      BY <3>1
    <3> HIDE DEF g
    <3> QED
      BY <3>2 DEF SumStep
  <2> QED
    BY <2>1, <2>2
<1>5. g = [s \in SUBSET S |-> g[s]]
  OBVIOUS
<1> HIDE DEF g
<1> QED
  BY <1>4, <1>5

LEMMA SumIs ==
    ASSUME NEW f, NEW S, IsFiniteSet(S)
    PROVE  \E h : Sums(h, f, S) /\ SumFunctionOnSet(f, S) = h[S]
<1> DEFINE h == CHOOSE g : g = [s \in SUBSET S |-> IF s = {} THEN 0 ELSE f[CHOOSE x \in s : TRUE] + g[s \ {CHOOSE x \in s : TRUE}]]
<1>1. SumFunctionOnSet(f, S) = h[S]
  BY DEF SumFunctionOnSet, FoldFunctionOnSet, MapThenFoldSet
<1>2. h = [s \in SUBSET S |-> SumStep(h, f, s)]
  <2>1. \E g : g = [s \in SUBSET S |-> IF s = {} THEN 0 ELSE f[CHOOSE x \in s : TRUE] + g[s \ {CHOOSE x \in s : TRUE}]]
    <3>1. PICK g : g = [s \in SUBSET S |-> SumStep(g, f, s)]
      BY SomeSums
    <3> QED
      BY <3>1, Zenon DEF SumStep, Chosen
  <2> QED
    BY <2>1 DEF SumStep, Chosen
<1> HIDE DEF h
<1>3. Sums(h, f, S)
  BY <1>2 DEF Sums
<1> QED
  BY <1>1, <1>3

\* The sums agree on what both have.
LEMMA SameSums ==
    ASSUME NEW f, NEW g, NEW h, NEW k, NEW S, NEW T, IsFiniteSet(S), T \subseteq S,
           Sums(h, f, S), Sums(k, g, T), \A x \in T : f[x] = g[x]
    PROVE  \A s \in SUBSET T : h[s] = k[s]
<1> DEFINE Differ == {s \in SUBSET T : h[s] # k[s]}
<1>1. SUFFICES ASSUME Differ # {} PROVE FALSE
  OBVIOUS
<1>2. PICK s \in Differ : \A t \in Differ : Cardinality(s) <= Cardinality(t)
  <2>1. \A t \in Differ : IsFiniteSet(t)
    BY FS_Subset
  <2> HIDE DEF Differ
  <2> QED
    BY <1>1, <2>1, SmallestSet
<1>3. s \in SUBSET T /\ h[s] # k[s] /\ IsFiniteSet(s)
  BY <1>2, FS_Subset
<1>4. h[s] = SumStep(h, f, s) /\ k[s] = SumStep(k, g, s)
  BY <1>3 DEF Sums
<1>5. s # {}
  BY <1>3, <1>4 DEF SumStep
<1> DEFINE x == Chosen(s)
           r == s \ {x}
<1>6. x \in s /\ r \in SUBSET T /\ f[x] = g[x]
  BY <1>3, <1>5, ChosenIn
<1>7. h[r] = k[r]
  <2>1. ~(Cardinality(s) <= Cardinality(r))
    BY <1>3, <1>6, Smaller
  <2>2. r \notin Differ
    BY <1>2, <2>1
  <2> QED
    BY <1>6, <2>2
<1>8. h[s] = f[x] + h[r] /\ k[s] = g[x] + k[r]
  BY <1>4, <1>5 DEF SumStep
<1> QED
  BY <1>3, <1>6, <1>7, <1>8

\* The sum over no elements, and over some.
LEMMA SumEmpty == ASSUME NEW f PROVE SumFunctionOnSet(f, {}) = 0
<1>1. PICK h : Sums(h, f, {}) /\ SumFunctionOnSet(f, {}) = h[{}]
  BY SumIs, FS_EmptySet
<1> QED
  BY <1>1 DEF Sums, SumStep

LEMMA SumNext ==
    ASSUME NEW f, NEW S, IsFiniteSet(S), S # {}
    PROVE  SumFunctionOnSet(f, S) = f[Chosen(S)] + SumFunctionOnSet(f, S \ {Chosen(S)})
<1> DEFINE T == S \ {Chosen(S)}
<1>1. IsFiniteSet(T) /\ T \subseteq S
  BY FS_Subset
<1>2. PICK h : Sums(h, f, S) /\ SumFunctionOnSet(f, S) = h[S]
  BY SumIs
<1>3. PICK k : Sums(k, f, T) /\ SumFunctionOnSet(f, T) = k[T]
  BY <1>1, SumIs
<1>4. h[T] = k[T]
  <2> HIDE DEF T
  <2> QED
    BY <1>1, <1>2, <1>3, SameSums
<1>5. h[S] = f[Chosen(S)] + h[T]
  BY <1>2 DEF Sums, SumStep
<1> QED
  BY <1>2, <1>3, <1>4, <1>5

LEMMA SameSum ==
    ASSUME NEW f, NEW g, NEW S, IsFiniteSet(S), \A x \in S : f[x] = g[x]
    PROVE  SumFunctionOnSet(f, S) = SumFunctionOnSet(g, S)
<1>1. PICK h : Sums(h, f, S) /\ SumFunctionOnSet(f, S) = h[S]
  BY SumIs
<1>2. PICK k : Sums(k, g, S) /\ SumFunctionOnSet(g, S) = k[S]
  BY SumIs
<1> QED
  BY <1>1, <1>2, SameSums

LEMMA SumType ==
    ASSUME NEW f, NEW S, IsFiniteSet(S), \A x \in S : f[x] \in Nat
    PROVE  SumFunctionOnSet(f, S) \in Nat
<1> DEFINE Bad == {s \in SUBSET S : SumFunctionOnSet(f, s) \notin Nat}
<1>1. SUFFICES ASSUME Bad # {} PROVE FALSE
  OBVIOUS
<1>2. PICK s \in Bad : \A t \in Bad : Cardinality(s) <= Cardinality(t)
  <2>1. \A t \in Bad : IsFiniteSet(t)
    BY FS_Subset
  <2> HIDE DEF Bad
  <2> QED
    BY <1>1, <2>1, SmallestSet
<1>3. s \in SUBSET S /\ IsFiniteSet(s) /\ SumFunctionOnSet(f, s) \notin Nat
  BY <1>2, FS_Subset
<1>4. s # {}
  BY <1>3, SumEmpty
<1>5. Chosen(s) \in s /\ s \ {Chosen(s)} \in SUBSET S
  BY <1>3, <1>4, ChosenIn
<1>6. SumFunctionOnSet(f, s \ {Chosen(s)}) \in Nat
  <2>1. ~(Cardinality(s) <= Cardinality(s \ {Chosen(s)}))
    BY <1>3, <1>5, Smaller
  <2> QED
    BY <1>2, <1>5, <2>1
<1>7. SumFunctionOnSet(f, s) = f[Chosen(s)] + SumFunctionOnSet(f, s \ {Chosen(s)})
  BY <1>3, <1>4, SumNext
<1> QED
  BY <1>3, <1>5, <1>6, <1>7

\* Any element may be taken out first.
LEMMA SumTake ==
    ASSUME NEW f, NEW S, IsFiniteSet(S), \A x \in S : f[x] \in Nat
    PROVE  \A x \in S : SumFunctionOnSet(f, S) = f[x] + SumFunctionOnSet(f, S \ {x})
<1> DEFINE Off(s, x) == SumFunctionOnSet(f, s) # f[x] + SumFunctionOnSet(f, s \ {x})
           Bad == {s \in SUBSET S : \E x \in s : Off(s, x)}
<1>1. SUFFICES ASSUME Bad # {} PROVE FALSE
  OBVIOUS
<1>2. PICK s \in Bad : \A t \in Bad : Cardinality(s) <= Cardinality(t)
  <2>1. \A t \in Bad : IsFiniteSet(t)
    BY FS_Subset
  <2> HIDE DEF Bad
  <2> QED
    BY <1>1, <2>1, SmallestSet
<1>3. PICK x \in s : Off(s, x)
  BY <1>2
<1> DEFINE c == Chosen(s)
<1>4. s \in SUBSET S /\ IsFiniteSet(s) /\ c \in s /\ s # {}
  BY <1>2, <1>3, FS_Subset, ChosenIn
<1>5. SumFunctionOnSet(f, s) = f[c] + SumFunctionOnSet(f, s \ {c})
  BY <1>4, SumNext
<1> HIDE DEF c
<1>6. x # c
  BY <1>3, <1>5
<1>7. \A y \in s : \A z \in s \ {y} :
        SumFunctionOnSet(f, s \ {y}) = f[z] + SumFunctionOnSet(f, (s \ {y}) \ {z})
  <2> SUFFICES ASSUME NEW y \in s, NEW z \in s \ {y} PROVE ~Off(s \ {y}, z)
    OBVIOUS
  <2>1. s \ {y} \in SUBSET S /\ ~(Cardinality(s) <= Cardinality(s \ {y}))
    BY <1>4, Smaller
  <2>2. s \ {y} \notin Bad
    BY <1>2, <2>1
  <2> HIDE DEF Off
  <2> QED
    BY <2>1, <2>2
<1>8. /\ SumFunctionOnSet(f, s \ {c}) = f[x] + SumFunctionOnSet(f, (s \ {c}) \ {x})
      /\ SumFunctionOnSet(f, s \ {x}) = f[c] + SumFunctionOnSet(f, (s \ {x}) \ {c})
  BY <1>4, <1>6, <1>7
<1>9. (s \ {c}) \ {x} = (s \ {x}) \ {c}
  OBVIOUS
<1>10. f[x] \in Nat /\ f[c] \in Nat /\ SumFunctionOnSet(f, (s \ {x}) \ {c}) \in Nat
  <2>1. IsFiniteSet((s \ {x}) \ {c}) /\ \A y \in (s \ {x}) \ {c} : f[y] \in Nat
    BY <1>4, FS_Subset
  <2> QED
    BY <1>4, <2>1, SumType
<1> QED
  BY <1>3, <1>5, <1>8, <1>9, <1>10

\* The sum over two sets that have nothing in common.
LEMMA SumUnion ==
    ASSUME NEW f, NEW S, NEW T, IsFiniteSet(S), IsFiniteSet(T), S \cap T = {},
           \A x \in S \cup T : f[x] \in Nat
    PROVE  SumFunctionOnSet(f, S \cup T) = SumFunctionOnSet(f, S) + SumFunctionOnSet(f, T)
<1> DEFINE Off(s) == SumFunctionOnSet(f, s \cup T) # SumFunctionOnSet(f, s) + SumFunctionOnSet(f, T)
           Bad == {s \in SUBSET S : Off(s)}
<1>1. SUFFICES ASSUME Bad # {} PROVE FALSE
  OBVIOUS
<1>2. PICK s \in Bad : \A t \in Bad : Cardinality(s) <= Cardinality(t)
  <2>1. \A t \in Bad : IsFiniteSet(t)
    BY FS_Subset
  <2> HIDE DEF Bad
  <2> QED
    BY <1>1, <2>1, SmallestSet
<1>3. s \in SUBSET S /\ IsFiniteSet(s) /\ Off(s) /\ IsFiniteSet(s \cup T) /\ s \cap T = {}
  BY <1>2, FS_Subset, FS_Union
<1>4. \A t \in SUBSET (S \cup T) : IsFiniteSet(t) => SumFunctionOnSet(f, t) \in Nat
  BY SumType
<1>5. s # {}
  <2>1. {} \cup T = T /\ SumFunctionOnSet(f, T) \in Nat
    BY <1>4
  <2> QED
    BY <1>3, <2>1, SumEmpty
<1>6. PICK x \in s : x \in s
  BY <1>5
<1>7. SumFunctionOnSet(f, (s \ {x}) \cup T) = SumFunctionOnSet(f, s \ {x}) + SumFunctionOnSet(f, T)
  <2>1. ~(Cardinality(s) <= Cardinality(s \ {x}))
    BY <1>3, <1>6, Smaller, Zenon
  <2>2. s \ {x} \in SUBSET S
    BY <1>3
  <2>3. s \ {x} \notin Bad
    BY <1>2, <2>1
  <2> QED
    BY <2>2, <2>3
<1>8. (s \ {x}) \cup T = (s \cup T) \ {x}
  BY <1>3, <1>6
<1>9. SumFunctionOnSet(f, s) = f[x] + SumFunctionOnSet(f, s \ {x})
  BY <1>3, <1>6, SumTake
<1>10. SumFunctionOnSet(f, s \cup T) = f[x] + SumFunctionOnSet(f, (s \cup T) \ {x})
  <2>1. x \in s \cup T /\ \A y \in s \cup T : f[y] \in Nat
    BY <1>3, <1>6
  <2> QED
    BY <1>3, <2>1, SumTake
<1>11. /\ f[x] \in Nat /\ SumFunctionOnSet(f, s \ {x}) \in Nat /\ SumFunctionOnSet(f, T) \in Nat
       /\ SumFunctionOnSet(f, (s \cup T) \ {x}) \in Nat
  BY <1>3, <1>4, <1>6, FS_Subset
<1>12. SumFunctionOnSet(f, s \cup T) # SumFunctionOnSet(f, s) + SumFunctionOnSet(f, T)
  BY <1>3
<1> HIDE DEF Off, Bad
<1> QED
  BY <1>7, <1>8, <1>9, <1>10, <1>11, <1>12

-----------------------------------------------------------------------------
(* Rates, in parts of Whole.                                              *)

LEMMA DivIs ==
    ASSUME NEW a \in Nat, NEW b \in Nat \ {0}
    PROVE  a \div b \in Nat /\ b * (a \div b) <= a /\ a < b * (a \div b) + b
  OBVIOUS

\* A rate is full for all there are and for no fewer, and nil for none.
LEMMA PartIs ==
    ASSUME NEW a \in Nat, NEW b \in Nat \ {0}, a <= b
    PROVE  /\ Part(a, b) \in Nat /\ Part(a, b) <= Whole /\ (Part(a, b) = Whole <=> a = b)
           /\ b <= Whole => (Part(a, b) > 0 <=> a > 0)
<1> DEFINE q == (Whole * a) \div b
<1>1. Whole \in Nat \ {0} /\ Whole * a \in Nat
  BY WholeAssumption
<1>2. q \in Nat /\ b * q <= Whole * a /\ Whole * a < b * q + b
  BY <1>1, DivIs
<1> HIDE DEF q
<1>3. q <= Whole /\ (q = Whole <=> a = b)
  BY <1>1, <1>2
<1>4. b <= Whole => (q = 0 <=> a = 0)
  BY <1>1, <1>2
<1>5. Part(a, b) = q
  BY DEF Part, q
<1> QED
  BY <1>2, <1>3, <1>4, <1>5

\* The reciprocal of a rank tells the ranks 1 to TOP_K from the later ones.
LEMMA RankIs ==
    ASSUME NEW r \in Nat \ {0}
    PROVE  /\ Part(1, r) \in Nat
           /\ Part(1, r) = Whole <=> r = 1
           /\ Part(1, r) * TOP_K >= Whole <=> r <= TOP_K
           /\ r >= 2 => Part(1, r) <= Part(1, 2)
           /\ r > TOP_K => Part(1, r) <= Part(1, TOP_K + 1)
           /\ Part(1, r) <= Whole
<1>1. Whole \in Nat \ {0} /\ TOP_K \in Nat \ {0} /\ Whole % TOP_K = 0 /\ 1 <= r
  BY WholeAssumption, SizeAssumption
<1>2. \A k \in Nat \ {0} :
         /\ Part(1, k) \in Nat
         /\ k * Part(1, k) <= Whole /\ Whole < k * Part(1, k) + k
  BY <1>1, DivIs DEF Part
<1>3. ASSUME NEW j \in Nat \ {0}, NEW k \in Nat \ {0}, j <= k PROVE Part(1, k) <= Part(1, j)
  <2> DEFINE p == Part(1, k)
             q == Part(1, j)
  <2>1. p \in Nat /\ q \in Nat /\ k * p <= Whole /\ Whole < j * q + j
    BY <1>2
  <2> HIDE DEF p, q
  <2>2. j * p <= k * p
    BY <1>3, <2>1
  <2>3. j * p < j * (q + 1)
    BY <1>1, <2>1, <2>2
  <2>4. p < q + 1
    BY <2>1, <2>3
  <2> QED
    BY <2>1, <2>4 DEF p, q
<1>4. TOP_K * Part(1, TOP_K) = Whole
  <2>1. \E n \in Nat : Whole = TOP_K * n
    BY <1>1
  <2>2. PICK n \in Nat : Whole = TOP_K * n
    BY <2>1
  <2> DEFINE p == Part(1, TOP_K)
  <2>3. p \in Nat /\ TOP_K * p <= TOP_K * n /\ TOP_K * n < TOP_K * p + TOP_K
    BY <1>1, <1>2, <2>2
  <2> HIDE DEF p
  <2>4. p <= n /\ n < p + 1
    BY <1>1, <2>3
  <2> QED
    BY <1>1, <2>2, <2>3, <2>4 DEF p
<1>5. r <= TOP_K => Part(1, r) * TOP_K >= Whole
  <2> DEFINE p == Part(1, r)
             q == Part(1, TOP_K)
  <2>1. r <= TOP_K => p >= q
    BY <1>1, <1>3
  <2>2. p \in Nat /\ q \in Nat /\ TOP_K * q = Whole
    BY <1>1, <1>2, <1>4
  <2> HIDE DEF p, q
  <2> QED
    BY <1>1, <2>1, <2>2 DEF p
<1>6. r > TOP_K => Part(1, r) * TOP_K < Whole
  <2> DEFINE p == Part(1, r)
  <2>1. p \in Nat /\ r * p <= Whole
    BY <1>2
  <2> HIDE DEF p
  <2> QED
    BY <1>1, <2>1 DEF p
<1>7. Part(1, r) <= Whole /\ (Part(1, r) = Whole <=> r = 1)
  BY <1>1, PartIs
<1>8. r >= 2 => Part(1, r) <= Part(1, 2)
  BY <1>3
<1>9. r > TOP_K => Part(1, r) <= Part(1, TOP_K + 1)
  BY <1>1, <1>3
<1> QED
  BY <1>1, <1>2, <1>5, <1>6, <1>7, <1>8, <1>9

-----------------------------------------------------------------------------
(* Bags of samples.                                                       *)

IsBag(bag) == IsFiniteSet(DOMAIN bag) /\ bag \in [DOMAIN bag -> Nat]

LEMMA CountIs ==
    ASSUME NEW bag, IsBag(bag), NEW kinds
    PROVE  /\ Count(bag, kinds) \in Nat /\ Size(bag) \in Nat /\ Count(bag, kinds) <= Size(bag)
           /\ \A k \in kinds \cap DOMAIN bag : bag[k] <= Count(bag, kinds)
           /\ \A more : kinds \cap more = {} =>
                Count(bag, kinds \cup more) = Count(bag, kinds) + Count(bag, more)
<1> DEFINE D == DOMAIN bag
           A == kinds \cap D
<1>1. \A s \in SUBSET D : IsFiniteSet(s) /\ \A x \in s : bag[x] \in Nat
  BY FS_Subset DEF IsBag
<1>2. \A s \in SUBSET D : SumFunctionOnSet(bag, s) \in Nat
  BY <1>1, SumType
<1>3. ASSUME NEW s \in SUBSET D, NEW t \in SUBSET D, s \cap t = {}
      PROVE  SumFunctionOnSet(bag, s \cup t) = SumFunctionOnSet(bag, s) + SumFunctionOnSet(bag, t)
  <2>1. \A x \in s \cup t : bag[x] \in Nat
    BY <1>1
  <2> QED
    BY <1>1, <1>3, <2>1, SumUnion
<1>4. SumFunctionOnSet(bag, D) = SumFunctionOnSet(bag, A) + SumFunctionOnSet(bag, D \ A)
  <2>1. A \in SUBSET D /\ D \ A \in SUBSET D /\ A \cap (D \ A) = {} /\ A \cup (D \ A) = D
    OBVIOUS
  <2> HIDE DEF A, D
  <2>2. SumFunctionOnSet(bag, A \cup (D \ A)) = SumFunctionOnSet(bag, A) + SumFunctionOnSet(bag, D \ A)
    BY <1>3, <2>1
  <2> QED
    BY <2>1, <2>2
<1>5. ASSUME NEW k \in A PROVE bag[k] <= SumFunctionOnSet(bag, A)
  <2>1. A \in SUBSET D /\ A \ {k} \in SUBSET D
    OBVIOUS
  <2>2. SumFunctionOnSet(bag, A) = bag[k] + SumFunctionOnSet(bag, A \ {k})
    <3>1. IsFiniteSet(A) /\ \A x \in A : bag[x] \in Nat
      BY <1>1
    <3> HIDE DEF A
    <3> QED
      BY <1>5, <3>1, SumTake
  <2> QED
    BY <1>1, <1>2, <2>1, <2>2
<1>6. ASSUME NEW more, kinds \cap more = {}
      PROVE  Count(bag, kinds \cup more) = Count(bag, kinds) + Count(bag, more)
  <2>1. (kinds \cup more) \cap D = A \cup (more \cap D) /\ A \cap (more \cap D) = {}
    BY <1>6
  <2> QED
    BY <1>3, <2>1 DEF Count
<1>7. Count(bag, kinds) = SumFunctionOnSet(bag, A) /\ Size(bag) = SumFunctionOnSet(bag, D)
  BY DEF Count, Size, SumFunction
<1>8. A \in SUBSET D /\ D \in SUBSET D /\ D \ A \in SUBSET D
  OBVIOUS
<1>9. SumFunctionOnSet(bag, A) \in Nat /\ SumFunctionOnSet(bag, D) \in Nat /\ SumFunctionOnSet(bag, D \ A) \in Nat
  BY <1>2, <1>8
<1> HIDE DEF D
<1>10. \A k \in kinds \cap DOMAIN bag : k \in A
  BY DEF D
<1> HIDE DEF A
<1> QED
  BY <1>4, <1>5, <1>6, <1>7, <1>9, <1>10

\* All kinds are the size, none is nothing, one is its number.
LEMMA CountAll ==
    ASSUME NEW bag, IsBag(bag)
    PROVE  /\ Count(bag, {}) = 0
           /\ \A kinds : DOMAIN bag \subseteq kinds => Count(bag, kinds) = Size(bag)
           /\ \A k \in DOMAIN bag : Count(bag, {k}) = bag[k]
<1>1. Count(bag, {}) = 0
  BY SumEmpty DEF Count
<1>2. ASSUME NEW kinds, DOMAIN bag \subseteq kinds PROVE Count(bag, kinds) = Size(bag)
  <2>1. kinds \cap DOMAIN bag = DOMAIN bag
    BY <1>2
  <2> QED
    BY <2>1 DEF Count, Size, SumFunction
<1>3. ASSUME NEW k \in DOMAIN bag PROVE Count(bag, {k}) = bag[k]
  <2>1. {k} \cap DOMAIN bag = {k} /\ {k} \ {k} = {}
    OBVIOUS
  <2>2. bag[k] \in Nat
    BY DEF IsBag
  <2>3. SumFunctionOnSet(bag, {k}) = bag[k] + SumFunctionOnSet(bag, {k} \ {k})
    BY <2>2, FS_Singleton, SumTake
  <2> QED
    BY <2>1, <2>2, <2>3, SumEmpty DEF Count
<1> QED
  BY <1>1, <1>2, <1>3

\* A finite set of naturals that is not empty has a greatest element.
LEMMA Greatest ==
    ASSUME NEW S \in SUBSET Nat, IsFiniteSet(S), S # {}
    PROVE  \E x \in S : \A y \in S : y <= x
<1> DEFINE Top(s) == \E x \in s : \A y \in s : y <= x
           Bad == {s \in SUBSET S : s # {} /\ ~Top(s)}
<1>1. SUFFICES ASSUME Bad # {} PROVE FALSE
  OBVIOUS
<1>2. PICK s \in Bad : \A t \in Bad : Cardinality(s) <= Cardinality(t)
  <2>1. \A t \in Bad : IsFiniteSet(t)
    BY FS_Subset
  <2> HIDE DEF Bad
  <2> QED
    BY <1>1, <2>1, SmallestSet
<1>3. s \in SUBSET S /\ s # {} /\ ~Top(s) /\ IsFiniteSet(s)
  BY <1>2, FS_Subset
<1>4. PICK x \in s : x \in s
  BY <1>3
<1> DEFINE r == s \ {x}
<1>5. r \notin Bad /\ r \in SUBSET S
  <2>1. ~(Cardinality(s) <= Cardinality(r))
    BY <1>3, <1>4, Smaller, Zenon
  <2> QED
    BY <1>2, <1>3, <2>1
<1>6. CASE r = {}
  BY <1>3, <1>4, <1>6
<1>7. CASE r # {}
  <2>1. PICK z \in r : \A y \in r : y <= z
    BY <1>5, <1>7
  <2>2. x \in Nat /\ \A y \in s : y \in Nat /\ (y = x \/ y <= z)
    BY <1>3, <1>4, <2>1
  <2>3. z \in Nat /\ z \in s
    BY <1>3, <2>1
  <2>4. IF x <= z THEN \A y \in s : y <= z ELSE \A y \in s : y <= x
    BY <2>2, <2>3
  <2> QED
    BY <1>3, <1>4, <2>3, <2>4
<1> QED
  BY <1>6, <1>7

\* The least value that so many samples do not exceed is one of a sample, and
\* fewer samples are below it.
LEMMA RankedIs ==
    ASSUME NEW bag, IsBag(bag), DOMAIN bag \subseteq Nat, NEW rank \in 1 .. Size(bag)
    PROVE  LET v == Min({ms \in DOMAIN bag : UpTo(bag, ms) >= rank})
           IN  /\ v \in DOMAIN bag /\ bag[v] > 0
               /\ UpTo(bag, v) >= rank /\ UpTo(bag, v) - bag[v] < rank
<1> DEFINE D == DOMAIN bag
           Below(v) == {m \in D : m < v}
           C == {ms \in D : UpTo(bag, ms) >= rank}
<1>1. Size(bag) \in Nat /\ rank \in Nat /\ rank >= 1 /\ rank <= Size(bag)
  BY CountIs
<1>2. IsFiniteSet(D) /\ D # {}
  <2>1. IsFiniteSet(D)
    BY DEF IsBag
  <2>2. ASSUME D = {} PROVE FALSE
    <3>1. DOMAIN bag \subseteq {}
      BY <2>2
    <3>2. Count(bag, {}) = 0 /\ Count(bag, {}) = Size(bag)
      BY <3>1, CountAll
    <3> QED
      BY <1>1, <3>2
  <2> QED
    BY <2>1, <2>2
<1>3. PICK top \in D : \A y \in D : y <= top
  BY <1>2, Greatest
<1>4. top \in C
  <2>1. {m \in D : m <= top} = D
    BY <1>3
  <2>2. UpTo(bag, top) = Size(bag)
    BY <2>1, CountAll DEF UpTo
  <2> QED
    BY <1>1, <1>3, <2>2
<1>5. PICK v \in C : \A y \in C : v <= y
  <2>1. C \in SUBSET Nat /\ C # {}
    BY <1>4
  <2> HIDE DEF C
  <2> QED
    BY <2>1, Least
<1>6. Min(C) = v
  <2>1. v \in C /\ C \subseteq Nat
    BY <1>5
  <2> HIDE DEF C
  <2>2. Min(C) \in C /\ \A y \in C : Min(C) <= y
    BY <1>5, <2>1 DEF Min
  <2>3. Min(C) <= v /\ v <= Min(C) /\ v \in Nat /\ Min(C) \in Nat
    BY <1>5, <2>1, <2>2
  <2> QED
    BY <2>3
<1>7. v \in D /\ v \in Nat /\ UpTo(bag, v) >= rank /\ \A y \in D : UpTo(bag, y) >= rank => v <= y
  BY <1>5
<1>8. UpTo(bag, v) = Count(bag, Below(v)) + bag[v] /\ Count(bag, Below(v)) \in Nat /\ bag[v] \in Nat
  <2>1. {m \in D : m <= v} = Below(v) \cup {v} /\ Below(v) \cap {v} = {}
    BY <1>7
  <2> HIDE DEF Below
  <2>2. Count(bag, Below(v) \cup {v}) = Count(bag, Below(v)) + Count(bag, {v})
    BY <2>1, CountIs
  <2>3. Count(bag, {v}) = bag[v]
    BY <1>7, CountAll
  <2>4. Count(bag, Below(v)) \in Nat /\ bag[v] \in Nat
    BY <1>7, CountIs DEF IsBag
  <2> QED
    BY <2>1, <2>2, <2>3, <2>4 DEF UpTo
<1>9. Count(bag, Below(v)) < rank
  <2>1. CASE Below(v) = {}
    BY <1>1, <2>1, CountAll
  <2>2. CASE Below(v) # {}
    <3>1. PICK p \in Below(v) : \A y \in Below(v) : y <= p
      <4>1. Below(v) \in SUBSET Nat /\ IsFiniteSet(Below(v))
        BY <1>2, FS_Subset
      <4> HIDE DEF Below
      <4> QED
        BY <2>2, <4>1, Greatest
    <3>2. p \in D /\ p < v /\ p \in Nat /\ \A y \in D : y < v => y <= p
      BY <3>1
    <3>3. {m \in D : m <= p} = Below(v)
      BY <1>7, <3>2
    <3>4. ~(UpTo(bag, p) >= rank)
      BY <1>7, <3>2
    <3>5. UpTo(bag, p) = Count(bag, Below(v))
      BY <3>3 DEF UpTo
    <3> HIDE DEF Below
    <3> QED
      BY <1>1, <1>8, <3>4, <3>5
  <2> QED
    BY <2>1, <2>2
<1> HIDE DEF Below
<1>10. bag[v] > 0 /\ UpTo(bag, v) - bag[v] < rank
  BY <1>1, <1>7, <1>8, <1>9
<1> QED
  BY <1>6, <1>7, <1>10

\* The rank the code takes, and the nearest rank.
RankOf(pct, n) == 1 + Clamped(Round(pct * (n - 1), 100), n - 1)
NearestOf(pct, n) == (pct * n + 99) \div 100

\* The rank the code takes is of a sample, and at most one from the nearest.
LEMMA RankNearest ==
    ASSUME NEW n \in Nat \ {0}, NEW pct \in {50, 95}
    PROVE  /\ RankOf(pct, n) \in 1 .. n /\ NearestOf(pct, n) \in Nat
           /\ RankOf(pct, n) >= NearestOf(pct, n) - 1
           /\ RankOf(pct, n) - 1 <= NearestOf(pct, n)
<1>1. CASE pct = 50
  BY <1>1 DEF Round, Clamped, RankOf, NearestOf
<1>2. CASE pct = 95
  BY <1>2 DEF Round, Clamped, RankOf, NearestOf
<1> QED
  BY <1>1, <1>2

\* So a percentile is a value that was observed, one rank off at most.
LEMMA PercentileIs ==
    ASSUME NEW bag, IsBag(bag), DOMAIN bag \subseteq Nat, Size(bag) > 0, NEW pct \in {50, 95}
    PROVE  LET value == Percentile(bag, pct)
               nearest == (pct * Size(bag) + 99) \div 100
           IN  /\ bag[value] > 0
               /\ UpTo(bag, value) >= nearest - 1
               /\ UpTo(bag, value) - bag[value] <= nearest
<1> DEFINE n == Size(bag)
           rank == RankOf(pct, n)
           nearest == NearestOf(pct, n)
           value == Percentile(bag, pct)
<1>1. n \in Nat \ {0}
  BY CountIs
<1>2. rank \in 1 .. n /\ nearest \in Nat /\ rank >= nearest - 1 /\ rank - 1 <= nearest
  <2> HIDE DEF n
  <2> QED
    BY <1>1, RankNearest
<1>3. value = Min({ms \in DOMAIN bag : UpTo(bag, ms) >= rank})
  BY <1>1 DEF Percentile, RankOf
<1> HIDE DEF rank, nearest, value
<1>4. /\ value \in DOMAIN bag /\ bag[value] > 0
      /\ UpTo(bag, value) >= rank /\ UpTo(bag, value) - bag[value] < rank
  BY <1>2, <1>3, RankedIs
<1>5. bag[value] \in Nat /\ UpTo(bag, value) \in Nat /\ rank \in Nat /\ nearest \in Nat
  BY <1>1, <1>2, <1>4, CountIs DEF IsBag, UpTo
<1>6. /\ bag[value] > 0
      /\ UpTo(bag, value) >= nearest - 1
      /\ UpTo(bag, value) - bag[value] <= nearest
  BY <1>2, <1>4, <1>5
<1> QED
  BY <1>6 DEF value, nearest, NearestOf

\* A log of queries, as the bags of what they took and of what a stage took.
LEMMA QueryBags ==
    ASSUME NEW queries, IsBag(queries), DOMAIN queries \subseteq Nat \X (Nat \cup {NoStage})
    PROVE  /\ IsBag(EndToEnd(queries)) /\ DOMAIN EndToEnd(queries) \subseteq Nat
           /\ IsBag(Stage(queries)) /\ DOMAIN Stage(queries) \subseteq Nat
<1> DEFINE Q == DOMAIN queries
           A == {q[1] : q \in Q}
           B == {q[2] : q \in Q} \ {NoStage}
<1>1. \A q \in Q : q[1] \in Nat /\ (q[2] \in Nat \/ q[2] = NoStage)
  OBVIOUS
<1>2. IsFiniteSet(A) /\ A \subseteq Nat
  <2>1. [q \in Q |-> q[1]] \in Surjection(Q, A)
    BY DEF Surjection
  <2> HIDE DEF A
  <2>2. IsFiniteSet(A)
    BY <2>1, FS_Surjection DEF IsBag
  <2> QED
    BY <1>1, <2>2 DEF A
<1>3. IsFiniteSet(B) /\ B \subseteq Nat
  <2> DEFINE T == {q[2] : q \in Q}
  <2>1. [q \in Q |-> q[2]] \in Surjection(Q, T)
    BY DEF Surjection
  <2> HIDE DEF T
  <2>2. IsFiniteSet(T)
    BY <2>1, FS_Surjection DEF IsBag
  <2>3. B \subseteq T
    BY DEF T
  <2> QED
    BY <1>1, <2>2, <2>3, FS_Subset
<1>4. \A kinds : Count(queries, kinds) \in Nat
  BY CountIs
<1>5. IsBag(EndToEnd(queries)) /\ DOMAIN EndToEnd(queries) \subseteq Nat
  <2>1. EndToEnd(queries) = [ms \in A |-> Count(queries, {q \in Q : q[1] = ms})]
    BY DEF EndToEnd
  <2> HIDE DEF A
  <2> QED
    BY <1>2, <1>4, <2>1 DEF IsBag
<1>6. IsBag(Stage(queries)) /\ DOMAIN Stage(queries) \subseteq Nat
  <2>1. Stage(queries) = [ms \in B |-> Count(queries, {q \in Q : q[2] = ms})]
    BY DEF Stage
  <2> HIDE DEF B
  <2> QED
    BY <1>3, <1>4, <2>1 DEF IsBag
<1> QED
  BY <1>5, <1>6

\* The queries a stage did not run on are nothing to it.
LEMMA StageOfThoseItRanOn ==
    ASSUME NEW queries, IsBag(queries)
    PROVE  LET ran == [q \in {p \in DOMAIN queries : p[2] # NoStage} |-> queries[q]]
           IN  Stage(queries) = Stage(ran)
<1> DEFINE Q == DOMAIN queries
           R == {p \in Q : p[2] # NoStage}
           ran == [q \in R |-> queries[q]]
           On(ms) == {q \in Q : q[2] = ms}
           B == {q[2] : q \in Q} \ {NoStage}
<1>1. {q[2] : q \in R} \ {NoStage} = B
  OBVIOUS
<1>2. ASSUME NEW ms \in B
      PROVE  Count(queries, On(ms)) = Count(ran, {q \in R : q[2] = ms})
  <2>1. {q \in R : q[2] = ms} = On(ms) /\ On(ms) \subseteq R /\ On(ms) \subseteq Q
    OBVIOUS
  <2>2. \A q \in On(ms) : queries[q] = ran[q]
    OBVIOUS
  <2>3. IsFiniteSet(On(ms))
    BY FS_Subset DEF IsBag
  <2>4. DOMAIN ran = R
    OBVIOUS
  <2> HIDE DEF On, ran, R
  <2>5. SumFunctionOnSet(queries, On(ms)) = SumFunctionOnSet(ran, On(ms))
    BY <2>2, <2>3, SameSum
  <2>6. On(ms) \cap Q = On(ms) /\ On(ms) \cap R = On(ms)
    BY <2>1
  <2> QED
    BY <2>1, <2>4, <2>5, <2>6 DEF Count
<1>3. Stage(queries) = [ms \in B |-> Count(queries, On(ms))]
  BY DEF Stage
<1>4. DOMAIN ran = R
  OBVIOUS
<1> HIDE DEF On, ran
<1>5. Stage(ran) = [ms \in B |-> Count(ran, {q \in R : q[2] = ms})]
  BY <1>1, <1>4 DEF Stage
<1> HIDE DEF B, R
<1>6. Stage(queries) = Stage(ran)
  BY <1>2, <1>3, <1>5
<1> QED
  BY <1>6 DEF ran, R


-----------------------------------------------------------------------------
(* Reports.                                                               *)

\* There are so many samples of each kind of the report's, up to the bound.
LogInv == job \in Reports => log \in [Kinds[job] -> Nat] /\ Size(log) <= MaxLog

LEMMA LogIs ==
    ASSUME LogInv, job \in Reports
    PROVE  /\ IsBag(log) /\ DOMAIN log = Kinds[job]
           /\ Size(log) \in Nat /\ Size(log) <= MaxLog /\ Size(log) <= Whole
<1>1. IsBag(log) /\ DOMAIN log = Kinds[job] /\ Size(log) <= MaxLog
  BY KindAssumption DEF LogInv, IsBag, Reports
<1>2. Size(log) \in Nat
  BY <1>1, CountIs
<1>3. MaxLog \in Nat /\ MaxLog <= Whole /\ Whole \in Nat
  BY WholeAssumption, SizeAssumption
<1> QED
  BY <1>1, <1>2, <1>3

LEMMA HonestPercentiles == ASSUME LogInv, job \in Scripts \cup Reports PROVE PercentilesAreHonest
<1> SUFFICES ASSUME job = "latency", NEW pct \in {50, 95}
             PROVE  /\ \A bag \in {b \in {EndToEnd(log), Stage(log)} : Size(b) > 0} :
                          LET value == Percentile(bag, pct)
                              nearest == (pct * Size(bag) + 99) \div 100
                          IN  /\ bag[value] > 0
                              /\ UpTo(bag, value) >= nearest - 1
                              /\ UpTo(bag, value) - bag[value] <= nearest
                    /\ LET ran == [q \in {p \in DOMAIN log : p[2] # NoStage} |-> log[q]]
                       IN  Size(ran) > 0 => Percentile(Stage(log), pct) = Percentile(Stage(ran), pct)
  BY DEF PercentilesAreHonest
<1>1. job \in Reports
  BY DEF Scripts
<1>2. IsBag(log) /\ DOMAIN log \subseteq Nat \X (Nat \cup {NoStage})
  BY <1>1, LogIs, KindAssumption DEF Reports
<1>3. ASSUME NEW bag \in {EndToEnd(log), Stage(log)} PROVE IsBag(bag) /\ DOMAIN bag \subseteq Nat
  BY <1>2, QueryBags
<1>4. Stage(log) = Stage([q \in {p \in DOMAIN log : p[2] # NoStage} |-> log[q]])
  BY <1>2, StageOfThoseItRanOn
<1>5. ASSUME NEW bag \in {b \in {EndToEnd(log), Stage(log)} : Size(b) > 0}
      PROVE  LET value == Percentile(bag, pct)
                 nearest == (pct * Size(bag) + 99) \div 100
             IN  /\ bag[value] > 0
                 /\ UpTo(bag, value) >= nearest - 1
                 /\ UpTo(bag, value) - bag[value] <= nearest
  <2>1. IsBag(bag) /\ DOMAIN bag \subseteq Nat /\ Size(bag) > 0
    BY <1>3, <1>5
  <2> QED
    BY <2>1, PercentileIs
<1>6. LET ran == [q \in {p \in DOMAIN log : p[2] # NoStage} |-> log[q]]
      IN  Size(ran) > 0 => Percentile(Stage(log), pct) = Percentile(Stage(ran), pct)
  <2> DEFINE ran == [q \in {p \in DOMAIN log : p[2] # NoStage} |-> log[q]]
  <2>1. Stage(log) = Stage(ran)
    BY <1>4
  <2> HIDE DEF ran
  <2>2. Percentile(Stage(log), pct) = Percentile(Stage(ran), pct)
    BY <2>1, Zenon
  <2> QED
    BY <2>2 DEF ran
<1> QED
  BY <1>5, <1>6, Zenon

\* What a rate of t among n says, n being 0 included.
LEMMA RateIs ==
    ASSUME NEW t \in Nat, NEW n \in Nat, t <= n, n <= Whole
    PROVE  LET rate == IF n = 0 THEN 0 ELSE Part(t, n)
           IN  /\ rate = Whole <=> n > 0 /\ t = n
               /\ rate = 0 <=> t = 0
<1>1. Whole \in Nat \ {0}
  BY WholeAssumption
<1>2. CASE n = 0
  BY <1>1, <1>2
<1>3. CASE n # 0
  <2> DEFINE p == Part(t, n)
  <2>1. p \in Nat /\ (p = Whole <=> t = n) /\ (p > 0 <=> t > 0)
    BY <1>3, PartIs
  <2> HIDE DEF p
  <2>2. n > 0 /\ (p = 0 <=> t = 0)
    BY <1>3, <2>1
  <2> QED
    BY <1>3, <2>1, <2>2 DEF p
<1> QED
  BY <1>2, <1>3

LEMMA PerfectClaims ==
    ASSUME LogInv, job \in Reports, job = "claims"
    PROVE  faithfulness(log) = Whole <=> Size(log) > 0 /\ log[FALSE] = 0
<1>1. IsBag(log) /\ DOMAIN log = BOOLEAN /\ Size(log) \in Nat /\ Size(log) <= Whole
  BY LogIs, KindAssumption DEF Reports
<1>2. Count(log, {TRUE}) = log[TRUE] /\ Count(log, {FALSE}) = log[FALSE]
  BY <1>1, CountAll
<1>3. Count(log, {TRUE} \cup {FALSE}) = Count(log, {TRUE}) + Count(log, {FALSE})
  <2>1. {TRUE} \cap {FALSE} = {}
    OBVIOUS
  <2> QED
    BY <1>1, <2>1, CountIs
<1>4. Count(log, {TRUE} \cup {FALSE}) = Size(log)
  BY <1>1, CountAll
<1>5. Count(log, {TRUE}) \in Nat /\ Count(log, {FALSE}) \in Nat
  BY <1>1, CountIs
<1> DEFINE t == Count(log, {TRUE})
           u == Count(log, {FALSE})
           n == Size(log)
<1>6. t \in Nat /\ n \in Nat /\ t <= n /\ n <= Whole /\ (t = n <=> log[FALSE] = 0)
  <2>1. n = t + u /\ t \in Nat /\ u \in Nat /\ n \in Nat /\ n <= Whole
    BY <1>1, <1>3, <1>4, <1>5, Zenon
  <2>2. u = log[FALSE]
    BY <1>2
  <2> HIDE DEF t, u, n
  <2>3. t <= n /\ (t = n <=> u = 0)
    BY <2>1
  <2> QED
    BY <2>1, <2>2, <2>3
<1>7. faithfulness(log) = IF n = 0 THEN 0 ELSE Part(t, n)
  BY DEF faithfulness
<1> HIDE DEF t, n
<1>8. faithfulness(log) = Whole <=> n > 0 /\ t = n
  BY <1>6, <1>7, RateIs
<1> QED
  BY <1>6, <1>8 DEF n

LEMMA Pairs ==
    ASSUME NEW a, NEW b, NEW k, NEW m
    PROVE  {a} \X {k, m} = {<<a, k>>} \cup {<<a, m>>} /\ {a, b} \X {k} = {<<a, k>>} \cup {<<b, k>>}
  OBVIOUS

LEMMA PerfectRefusals ==
    ASSUME LogInv, job \in Reports, job = "refusals", Size(log) > 0
    PROVE  LET r == refusal_correctness(log)
               wrong == Count(log, {<<"refuse", FALSE>>, <<"answer", TRUE>>})
               answered == Count(log, {"refuse", "answer"} \X {FALSE})
           IN  /\ r.correct_refusal_rate = Whole /\ r.false_refusal_rate = 0 => wrong = 0
               /\ wrong = 0 /\ r.n_should_refuse > 0 =>
                     r.correct_refusal_rate = Whole /\ r.false_refusal_rate = 0
               /\ answered = 0 /\ log[<<"answer", TRUE>>] > 0 => r.false_refusal_rate = Whole
<1> DEFINE r == refusal_correctness(log)
           yes(b) == Count(log, {<<b, TRUE>>})
           no(b) == Count(log, {<<b, FALSE>>})
           n(b) == Count(log, {b} \X BOOLEAN)
           rate(b) == IF n(b) = 0 THEN 0 ELSE Part(yes(b), n(b))
<1>1. IsBag(log) /\ DOMAIN log = {"answer", "refuse"} \X BOOLEAN /\ Size(log) <= Whole /\ Size(log) \in Nat
  BY LogIs, KindAssumption DEF Reports
<1>2. \A k, m : k # m => Count(log, {k} \cup {m}) = Count(log, {k}) + Count(log, {m})
  BY <1>1, CountIs
<1>3. \A kinds : Count(log, kinds) \in Nat /\ Count(log, kinds) <= Whole
  <2>1. \A kinds : Count(log, kinds) \in Nat /\ Count(log, kinds) <= Size(log)
    BY <1>1, CountIs
  <2>2. Whole \in Nat
    BY WholeAssumption
  <2> QED
    BY <1>1, <2>1, <2>2
<1>4. ASSUME NEW b \in {"answer", "refuse"}
      PROVE  /\ n(b) = yes(b) + no(b)
             /\ rate(b) = Whole <=> n(b) > 0 /\ no(b) = 0
             /\ rate(b) = 0 <=> yes(b) = 0
  <2>1. {b} \X BOOLEAN = {<<b, TRUE>>} \cup {<<b, FALSE>>} /\ <<b, TRUE>> # <<b, FALSE>>
    <3> DEFINE T == TRUE
               F == FALSE
    <3>1. BOOLEAN = {T, F}
      OBVIOUS
    <3>2. {b} \X {T, F} = {<<b, T>>} \cup {<<b, F>>}
      <4> HIDE DEF T, F
      <4> QED
        BY Pairs
    <3>3. <<b, TRUE>> # <<b, FALSE>>
      OBVIOUS
    <3> QED
      BY <3>1, <3>2, <3>3
  <2>2. n(b) = yes(b) + no(b)
    BY <1>2, <2>1
  <2>3. yes(b) \in Nat /\ no(b) \in Nat /\ n(b) \in Nat /\ n(b) <= Whole
    BY <1>3
  <2> HIDE DEF yes, no, n
  <2>4. yes(b) <= n(b) /\ (yes(b) = n(b) <=> no(b) = 0)
    BY <2>2, <2>3
  <2>5. /\ rate(b) = Whole <=> n(b) > 0 /\ yes(b) = n(b)
        /\ rate(b) = 0 <=> yes(b) = 0
    BY <2>3, <2>4, RateIs
  <2> QED
    BY <2>2, <2>4, <2>5
<1>5. /\ r.correct_refusal_rate = rate("refuse") /\ r.false_refusal_rate = rate("answer")
      /\ r.n_should_refuse = n("refuse")
  <2>1. Size(log) # 0
    BY <1>1
  <2> QED
    BY <2>1 DEF refusal_correctness
<1>6. Count(log, {<<"refuse", FALSE>>, <<"answer", TRUE>>}) = no("refuse") + yes("answer")
  <2>1. {<<"refuse", FALSE>>, <<"answer", TRUE>>} = {<<"refuse", FALSE>>} \cup {<<"answer", TRUE>>}
    OBVIOUS
  <2>2. <<"refuse", FALSE>> # <<"answer", TRUE>>
    OBVIOUS
  <2> QED
    BY <1>2, <2>1, <2>2
<1>7. Count(log, {"refuse", "answer"} \X {FALSE}) = no("refuse") + no("answer")
  <2>1. {"refuse", "answer"} \X {FALSE} = {<<"refuse", FALSE>>} \cup {<<"answer", FALSE>>}
    <3> DEFINE F == FALSE
    <3>1. {"refuse", "answer"} \X {F} = {<<"refuse", F>>} \cup {<<"answer", F>>}
      <4> HIDE DEF F
      <4> QED
        BY Pairs
    <3> QED
      BY <3>1
  <2>2. <<"refuse", FALSE>> # <<"answer", FALSE>>
    OBVIOUS
  <2> QED
    BY <1>2, <2>1, <2>2
<1>8. yes("answer") = log[<<"answer", TRUE>>]
  BY <1>1, CountAll
<1>9. \A b \in {"answer", "refuse"} : yes(b) \in Nat /\ no(b) \in Nat
  BY <1>3
<1> HIDE DEF r, yes, no, n, rate
<1>10. rate("refuse") = Whole /\ rate("answer") = 0 => no("refuse") + yes("answer") = 0
  BY <1>4
<1>11. no("refuse") + no("answer") = 0 /\ yes("answer") > 0 => rate("answer") = Whole
  BY <1>4, <1>9
<1>12. no("refuse") + yes("answer") = 0 /\ n("refuse") > 0 => rate("refuse") = Whole /\ rate("answer") = 0
  BY <1>4, <1>9
<1> QED
  BY <1>5, <1>6, <1>7, <1>8, <1>10, <1>11, <1>12 DEF r

LEMMA PerfectReports == ASSUME LogInv, job \in Scripts \cup Reports PROVE PerfectMeansPerfect
<1>1. job \in {"claims", "refusals"} => job \in Reports
  BY DEF Scripts
<1> QED
  BY <1>1, PerfectClaims, PerfectRefusals DEF PerfectMeansPerfect

-----------------------------------------------------------------------------
(* Measurements.                                                          *)

Scores == [DOMAIN Score -> Nat]

\* What is true of one question's score and of any sum of such scores.
Fair(s) ==
    /\ s \in Scores
    /\ s.hit5 + s.undecidable <= s.n
    /\ s.hit1 * Whole <= s.mrr
    /\ s.mrr <= s.hit1 * Whole + (s.hit5 - s.hit1) * Part(1, 2) + (s.n - s.hit5) * Part(1, TOP_K + 1)

RowType ==
    [all : Scores,
     per_category_hit_at_5 : UNION {[types -> [sum : Nat, len : Nat]] : types \in SUBSET Types}]

TypeInv ==
    /\ job \in Scripts \cup Reports
    /\ pc \in {"row", "search", "write", "text", "written", "failed", "log"}
    /\ row \in Nat \ {0}
    /\ asked \in 0 .. Len(Golden)
    /\ tally \in [Types -> Scores]
    /\ results \in Seq(RowType)
    /\ \A q \in Questions : \A o \in places[q] :
          o.doc \in Docs /\ o.from \in 1 .. o.to /\ o.to \in 1 .. Length[o.doc]

\* Rows are measured in turn, each in a table of its own chunks.
RowInv ==
    /\ pc \in {"row", "search"} => row <= Rows
    /\ pc \in {"write", "text", "written"} => row = Rows + 1
    /\ pc = "search" => table = IF Naive THEN NaiveChunks ELSE SharedChunks

\* So many questions have been scored, each fairly.
TallyInv ==
    /\ \A t \in Types : Fair(tally[t])
    /\ tally["answerable_single"].n + tally["answerable_multi"].n = asked

\* The questions asked so far, of a type, whose answer no boundary cuts.
AskedUncut(t) == {q \in Uncut({t}) : q <= asked}

\* The naive row's hits so far are among them, and the rest is undecidable.
NaiveInv ==
    Naive /\ pc = "search" => \A t \in Types :
        /\ tally[t].hit5 <= Cardinality(AskedUncut(t))
        /\ tally[t].undecidable + Cardinality(AskedUncut(t)) = tally[t].n

\* A row that is done is over every question, and the file is touched when all
\* are.
ResultInv ==
    /\ Len(results) = row - 1
    /\ \A i \in 1 .. Len(results) : Fair(results[i].all) /\ results[i].all.n = Len(Golden)
    /\ file # Older => pc \in {"text", "written", "failed"} /\ Len(results) = Rows
    /\ file.of = "this" => file.rows = results /\ Len(results) = Rows

\* While HEAD stays, every document is of the commit it was at.
HeadInv ==
    /\ head \in Nat \ {0}
    /\ head = 1 => read \subseteq {1} /\ (file.of = "this" => file.read \subseteq {1})

\* The last question is one of the row's that is being measured.
LastInv ==
    last # Nothing =>
        /\ pc \in {"search", "failed"}
        /\ last.hit1 <=> last.rr = Whole
        /\ last.hit5 <=> last.rr * TOP_K >= Whole
        /\ last.hit5 <=> recall_at_k(last.ranked, last.expected, TOP_K) > 0

IInv ==
    /\ TypeInv /\ LogInv /\ RowInv /\ TallyInv /\ NaiveInv /\ ResultInv /\ HeadInv /\ LastInv
    /\ NaiveHitsAreAnswers

\* There are finitely many chunks, and a document's only chunk is its first.
LEMMA Chunks ==
    /\ IsFiniteSet(NaiveChunks) /\ Cardinality(NaiveChunks) <= Whole
    /\ SharedChunks \subseteq NaiveChunks
<1>1. ASSUME NEW d \in Docs PROVE 1 \in Windows(d) /\ IsFiniteSet(Windows(d))
  <2> DEFINE top == IF Length[d] = 0 THEN 1 ELSE (Length[d] + Window - 1) \div Window
  <2>1. Length[d] \in Nat /\ Window \in Nat \ {0}
    BY DocAssumption, SizeAssumption
  <2>2. top \in Nat /\ top >= 1
    <3>1. Length[d] # 0 => (Length[d] + Window - 1) \div Window \in Nat
      BY <2>1, DivIs
    <3>2. Length[d] # 0 => (Length[d] + Window - 1) \div Window >= 1
      BY <2>1
    <3> QED
      BY <3>1, <3>2
  <2>3. Windows(d) = 1 .. top
    BY DEF Windows
  <2> HIDE DEF top
  <2> QED
    BY <2>2, <2>3, FS_Interval
<1>2. ASSUME NEW d \in Docs PROVE IsFiniteSet({[doc |-> d, n |-> i] : i \in Windows(d)})
  <2> DEFINE T == {[doc |-> d, n |-> i] : i \in Windows(d)}
  <2>1. [i \in Windows(d) |-> [doc |-> d, n |-> i]] \in Surjection(Windows(d), T)
    BY DEF Surjection
  <2> HIDE DEF T
  <2>2. IsFiniteSet(T)
    BY <1>1, <2>1, FS_Surjection
  <2> QED
    BY <2>2 DEF T
<1>3. IsFiniteSet(NaiveChunks)
  <2> DEFINE of(d) == {[doc |-> d, n |-> i] : i \in Windows(d)}
             All == {of(d) : d \in Docs}
  <2>1. [d \in Docs |-> of(d)] \in Surjection(Docs, All)
    BY DEF Surjection
  <2>2. \A T \in All : IsFiniteSet(T)
    BY <1>2
  <2>3. NaiveChunks = UNION All
    BY DEF NaiveChunks
  <2> HIDE DEF of, All
  <2>4. IsFiniteSet(All)
    BY <2>1, DocAssumption, FS_Surjection
  <2> QED
    BY <2>2, <2>3, <2>4, FS_UNION
<1>4. SharedChunks \subseteq NaiveChunks
  <2> SUFFICES ASSUME NEW d \in Docs PROVE [doc |-> d, n |-> 1] \in NaiveChunks
    BY DEF SharedChunks
  <2>1. [doc |-> d, n |-> 1] \in {[doc |-> d, n |-> i] : i \in Windows(d)}
    BY <1>1
  <2> QED
    BY <2>1 DEF NaiveChunks
<1> QED
  BY <1>3, <1>4, WholeAssumption

\* What is expected of a question is among the chunks there could be.
LEMMA ExpectedIs ==
    ASSUME NEW q \in Questions
    PROVE  Expected(q) \subseteq NaiveChunks
<1>1. \A d \in Golden[q].docs : [doc |-> d, n |-> 1] \in NaiveChunks
  BY Chunks, GoldenAssumption DEF SharedChunks
<1> QED
  BY <1>1 DEF Expected, _row1_expected_chunk_ids, GoldenIds

\* An answer of the search's is a sequence of chunks of the table.
LEMMA RankingIs ==
    ASSUME IsFiniteSet(table), NEW tenant, NEW ranked \in Rankings(tenant)
    PROVE  \E n \in Nat : ranked \in [1 .. n -> table]
<1>1. PICK found \in SUBSET table : ranked \in SetToSeqs(found)
  BY DEF Rankings
<1>2. Cardinality(found) \in Nat
  BY FS_Subset, FS_CardinalityType
<1>3. ranked \in [1 .. Cardinality(found) -> found]
  BY <1>1 DEF SetToSeqs
<1>4. ranked \in [1 .. Cardinality(found) -> table]
  BY <1>3
<1> QED
  BY <1>2, <1>4

\* A question is a hit at k if the first of its ranks is k or less.
LEMMA HitIs ==
    ASSUME NEW n \in Nat, NEW T, NEW ranked \in [1 .. n -> T], NEW expected
    PROVE  LET ranks == {i \in DOMAIN ranked : ranked[i] \in expected}
           IN  /\ ranks = {} => \A k \in Nat : TopOf(ranked, k) \cap expected = {}
               /\ ranks # {} =>
                    /\ Min(ranks) \in Nat \ {0}
                    /\ \A k \in Nat : TopOf(ranked, k) \cap expected # {} <=> Min(ranks) <= k
<1> DEFINE ranks == {i \in DOMAIN ranked : ranked[i] \in expected}
<1>1. ranks = {} => \A k \in Nat : TopOf(ranked, k) \cap expected = {}
  BY DEF TopOf
<1>2. ASSUME ranks # {}
      PROVE  /\ Min(ranks) \in Nat \ {0}
             /\ \A k \in Nat : TopOf(ranked, k) \cap expected # {} <=> Min(ranks) <= k
  <2>1. ranks \in SUBSET Nat /\ \A i \in ranks : i \in 1 .. n /\ ranked[i] \in expected
    OBVIOUS
  <2> HIDE DEF ranks
  <2>2. \E m \in ranks : \A i \in ranks : m <= i
    BY <1>2, <2>1, Least
  <2>3. Min(ranks) \in ranks /\ \A i \in ranks : Min(ranks) <= i
    BY <2>2 DEF Min
  <2> DEFINE m == Min(ranks)
  <2>4. m \in Nat /\ m \in 1 .. n /\ ranked[m] \in expected
    BY <2>1, <2>3
  <2>5. ASSUME NEW k \in Nat, m <= k PROVE TopOf(ranked, k) \cap expected # {}
    <3>1. m \in {j \in DOMAIN ranked : j <= k}
      BY <2>4, <2>5
    <3> HIDE DEF m
    <3>2. ranked[m] \in TopOf(ranked, k)
      BY <3>1 DEF TopOf
    <3> QED
      BY <2>4, <3>2
  <2>6. ASSUME NEW k \in Nat, TopOf(ranked, k) \cap expected # {} PROVE m <= k
    <3>1. PICK j \in DOMAIN ranked : j <= k /\ ranked[j] \in expected
      BY <2>6 DEF TopOf
    <3>2. j \in ranks
      BY <3>1 DEF ranks
    <3>3. m <= j /\ j \in Nat
      BY <2>1, <2>3, <3>2
    <3> HIDE DEF m
    <3> QED
      BY <2>4, <3>1, <3>3
  <2>7. m \in Nat \ {0}
    BY <2>4
  <2> QED
    BY <2>5, <2>6, <2>7
<1> HIDE DEF ranks
<1>3. ranks # {} =>
        /\ Min(ranks) \in Nat \ {0}
        /\ \A k \in Nat : TopOf(ranked, k) \cap expected # {} <=> Min(ranks) <= k
  BY <1>2
<1> QED
  BY <1>1, <1>3 DEF ranks

\* What a question scores: its rank is told by hit@1, hit@k and its reciprocal
\* alike, and by its recall.
LEMMA QuestionIs ==
    ASSUME NEW n \in Nat, NEW T, NEW ranked \in [1 .. n -> T],
           NEW expected, IsFiniteSet(expected), Cardinality(expected) <= Whole
    PROVE  /\ mrr(ranked, expected) \in Nat /\ mrr(ranked, expected) <= Whole
           /\ hit_rate_at_k(ranked, expected, 1) <=> mrr(ranked, expected) = Whole
           /\ hit_rate_at_k(ranked, expected, TOP_K) <=> mrr(ranked, expected) * TOP_K >= Whole
           /\ hit_rate_at_k(ranked, expected, TOP_K) <=> recall_at_k(ranked, expected, TOP_K) > 0
           /\ hit_rate_at_k(ranked, expected, 1) => hit_rate_at_k(ranked, expected, TOP_K)
           /\ hit_rate_at_k(ranked, expected, TOP_K) => expected # {}
           /\ hit_rate_at_k(ranked, expected, 1) \/ mrr(ranked, expected) <= Part(1, 2)
           /\ hit_rate_at_k(ranked, expected, TOP_K) \/ mrr(ranked, expected) <= Part(1, TOP_K + 1)
<1> DEFINE ranks == {i \in DOMAIN ranked : ranked[i] \in expected}
           top(k) == TopOf(ranked, k) \cap expected
           rr == mrr(ranked, expected)
<1>1. Whole \in Nat \ {0} /\ TOP_K \in Nat \ {0} /\ TOP_K + 1 \in Nat \ {0} /\ 2 \in Nat \ {0}
  BY WholeAssumption, SizeAssumption
<1>2. Part(1, 2) \in Nat /\ Part(1, TOP_K + 1) \in Nat
  BY <1>1, RankIs
<1>3. rr = IF ranks = {} THEN 0 ELSE Part(1, Min(ranks))
  BY DEF mrr
<1>4. /\ ranks = {} => \A k \in Nat : top(k) = {}
      /\ ranks # {} => Min(ranks) \in Nat \ {0} /\ \A k \in Nat : top(k) # {} <=> Min(ranks) <= k
  BY HitIs
<1>5. recall_at_k(ranked, expected, TOP_K) > 0 <=> top(TOP_K) # {}
  <2> DEFINE s == top(TOP_K)
             a == Cardinality(s)
             b == Cardinality(expected)
  <2>1. s \in SUBSET expected
    OBVIOUS
  <2>2. recall_at_k(ranked, expected, TOP_K) = IF expected = {} THEN 0 ELSE Part(a, b)
    BY DEF recall_at_k
  <2> HIDE DEF s
  <2>3. a \in Nat /\ b \in Nat /\ a <= b /\ b <= Whole /\ (a = 0 <=> s = {}) /\ (b = 0 <=> expected = {})
    BY <2>1, FS_Subset, FS_CardinalityType, FS_EmptySet
  <2> HIDE DEF a, b
  <2>4. CASE expected = {}
    BY <2>1, <2>2, <2>4 DEF s
  <2>5. CASE expected # {}
    <3>1. b \in Nat \ {0}
      BY <2>3, <2>5
    <3>2. Part(a, b) > 0 <=> a > 0
      BY <2>3, <3>1, PartIs
    <3>3. a > 0 <=> s # {}
      BY <2>3
    <3> QED
      BY <2>2, <2>5, <3>2, <3>3 DEF s
  <2> QED
    BY <2>4, <2>5
<1>6. top(TOP_K) # {} => expected # {}
  OBVIOUS
<1>7. \A k : hit_rate_at_k(ranked, expected, k) <=> top(k) # {}
  BY DEF hit_rate_at_k
<1> HIDE DEF ranks, top, rr
<1>8. CASE ranks = {}
  <2>1. rr = 0 /\ top(1) = {} /\ top(TOP_K) = {}
    BY <1>1, <1>3, <1>4, <1>8
  <2>2. ~(rr * TOP_K >= Whole) /\ rr # Whole
    BY <1>1, <2>1
  <2> QED
    BY <1>1, <1>2, <1>5, <1>7, <2>1, <2>2 DEF rr
<1>9. CASE ranks # {}
  <2> DEFINE m == Min(ranks)
  <2>1. m \in Nat \ {0} /\ rr = Part(1, m)
    BY <1>3, <1>4, <1>9
  <2>2. (top(1) # {} <=> m <= 1) /\ (top(TOP_K) # {} <=> m <= TOP_K)
    BY <1>1, <1>4, <1>9
  <2> HIDE DEF m
  <2>3. /\ rr \in Nat /\ rr <= Whole
        /\ rr = Whole <=> m = 1
        /\ rr * TOP_K >= Whole <=> m <= TOP_K
        /\ m >= 2 => rr <= Part(1, 2)
        /\ m > TOP_K => rr <= Part(1, TOP_K + 1)
    BY <2>1, RankIs
  <2>4. (m <= 1 <=> m = 1) /\ (~(m <= 1) => m >= 2) /\ (~(m <= TOP_K) => m > TOP_K) /\ (m <= 1 => m <= TOP_K)
    BY <1>1, <2>1
  <2> QED
    BY <1>5, <1>6, <1>7, <2>2, <2>3, <2>4 DEF rr
<1> QED
  BY <1>8, <1>9

\* Sums of fair scores are fair.
LEMMA FairPlus ==
    ASSUME NEW a, NEW b, Fair(a), Fair(b)
    PROVE  Fair([f \in DOMAIN Score |-> a[f] + b[f]])
<1> DEFINE s == [f \in DOMAIN Score |-> a[f] + b[f]]
           P == Part(1, 2)
           Q == Part(1, TOP_K + 1)
<1>1. Whole \in Nat /\ P \in Nat /\ Q \in Nat
  BY WholeAssumption, SizeAssumption, RankIs
<1>2. DOMAIN Score = {"hit1", "hit5", "mrr", "n", "undecidable"}
  BY DEF Score
<1>3. \A f \in DOMAIN Score : a[f] \in Nat /\ b[f] \in Nat
  BY DEF Fair, Scores
<1>4. s \in Scores
  BY <1>3 DEF Scores
<1>5. /\ s.hit1 = a.hit1 + b.hit1 /\ s.hit5 = a.hit5 + b.hit5 /\ s.mrr = a.mrr + b.mrr
      /\ s.n = a.n + b.n /\ s.undecidable = a.undecidable + b.undecidable
  BY <1>2
<1>6. /\ a.hit1 \in Nat /\ a.hit5 \in Nat /\ a.mrr \in Nat /\ a.n \in Nat /\ a.undecidable \in Nat
      /\ b.hit1 \in Nat /\ b.hit5 \in Nat /\ b.mrr \in Nat /\ b.n \in Nat /\ b.undecidable \in Nat
  BY <1>2, <1>3
<1> HIDE DEF s, P, Q
<1>7. /\ a.hit5 + a.undecidable <= a.n /\ b.hit5 + b.undecidable <= b.n
      /\ a.hit1 * Whole <= a.mrr /\ b.hit1 * Whole <= b.mrr
      /\ a.mrr <= a.hit1 * Whole + (a.hit5 - a.hit1) * P + (a.n - a.hit5) * Q
      /\ b.mrr <= b.hit1 * Whole + (b.hit5 - b.hit1) * P + (b.n - b.hit5) * Q
  BY DEF Fair, P, Q
<1>8. \A x, y, k \in Int : (x + y) * k = x * k + y * k /\ x * k \in Int
  OBVIOUS
<1>9. s.hit5 + s.undecidable <= s.n
  BY <1>5, <1>6, <1>7
<1>10. /\ s.hit1 * Whole = a.hit1 * Whole + b.hit1 * Whole
       /\ a.hit1 * Whole \in Int /\ b.hit1 * Whole \in Int
  BY <1>1, <1>5, <1>6, <1>8
<1>11. /\ (s.hit5 - s.hit1) * P = (a.hit5 - a.hit1) * P + (b.hit5 - b.hit1) * P
       /\ (a.hit5 - a.hit1) * P \in Int /\ (b.hit5 - b.hit1) * P \in Int
  <2>1. s.hit5 - s.hit1 = (a.hit5 - a.hit1) + (b.hit5 - b.hit1)
    BY <1>5, <1>6
  <2>2. a.hit5 - a.hit1 \in Int /\ b.hit5 - b.hit1 \in Int /\ P \in Int
    BY <1>1, <1>6
  <2> QED
    BY <1>8, <2>1, <2>2
<1>12. /\ (s.n - s.hit5) * Q = (a.n - a.hit5) * Q + (b.n - b.hit5) * Q
       /\ (a.n - a.hit5) * Q \in Int /\ (b.n - b.hit5) * Q \in Int
  <2>1. s.n - s.hit5 = (a.n - a.hit5) + (b.n - b.hit5)
    BY <1>5, <1>6
  <2>2. a.n - a.hit5 \in Int /\ b.n - b.hit5 \in Int /\ Q \in Int
    BY <1>1, <1>6
  <2> QED
    BY <1>8, <2>1, <2>2
<1>13. s.hit1 * Whole <= s.mrr
  BY <1>5, <1>6, <1>7, <1>10
<1>14. s.mrr <= s.hit1 * Whole + (s.hit5 - s.hit1) * P + (s.n - s.hit5) * Q
  <2> DEFINE u == a.hit1 * Whole
             v == (a.hit5 - a.hit1) * P
             w == (a.n - a.hit5) * Q
             x == b.hit1 * Whole
             y == (b.hit5 - b.hit1) * P
             z == (b.n - b.hit5) * Q
  <2>1. /\ u \in Int /\ v \in Int /\ w \in Int /\ x \in Int /\ y \in Int /\ z \in Int
        /\ a.mrr <= u + v + w /\ b.mrr <= x + y + z
        /\ s.hit1 * Whole = u + x /\ (s.hit5 - s.hit1) * P = v + y /\ (s.n - s.hit5) * Q = w + z
    BY <1>7, <1>10, <1>11, <1>12
  <2> HIDE DEF u, v, w, x, y, z
  <2>2. a.mrr + b.mrr <= (u + x) + (v + y) + (w + z)
    BY <1>6, <2>1
  <2> QED
    BY <1>5, <2>1, <2>2
<1>15. Fair(s)
  BY <1>4, <1>9, <1>13, <1>14 DEF Fair, P, Q
<1> QED
  BY <1>15 DEF s

LEMMA FairNone == Fair(Score)
<1>1. Whole \in Nat /\ Part(1, 2) \in Nat /\ Part(1, TOP_K + 1) \in Nat
  BY WholeAssumption, SizeAssumption, RankIs
<1>2. 0 * Whole = 0 /\ (0 - 0) * Part(1, 2) = 0 /\ (0 - 0) * Part(1, TOP_K + 1) = 0
  BY <1>1
<1>3. Score \in Scores
  BY DEF Score, Scores
<1>4. /\ Score.hit1 = 0 /\ Score.hit5 = 0 /\ Score.mrr = 0 /\ Score.n = 0 /\ Score.undecidable = 0
  BY DEF Score
<1> QED
  BY <1>2, <1>3, <1>4 DEF Fair

\* One question's score is fair.
LEMMA FairQuestion ==
    ASSUME NEW n \in Nat, NEW T, NEW ranked \in [1 .. n -> T],
           NEW expected, IsFiniteSet(expected), Cardinality(expected) <= Whole
    PROVE  Fair([hit1 |-> One(hit_rate_at_k(ranked, expected, 1)),
                 hit5 |-> One(hit_rate_at_k(ranked, expected, TOP_K)),
                 mrr |-> mrr(ranked, expected), n |-> 1, undecidable |-> One(expected = {})])
<1> DEFINE x == One(hit_rate_at_k(ranked, expected, 1))
           y == One(hit_rate_at_k(ranked, expected, TOP_K))
           u == One(expected = {})
           rr == mrr(ranked, expected)
           s == [hit1 |-> x, hit5 |-> y, mrr |-> rr, n |-> 1, undecidable |-> u]
           P == Part(1, 2)
           Q == Part(1, TOP_K + 1)
<1>1. Whole \in Nat /\ P \in Nat /\ Q \in Nat
  BY WholeAssumption, SizeAssumption, RankIs
<1>2. /\ rr \in Nat /\ rr <= Whole
      /\ x = 1 => rr = Whole
      /\ x = 1 => y = 1
      /\ y = 1 => u = 0
      /\ x = 0 => rr <= P
      /\ y = 0 => rr <= Q
      /\ x \in {0, 1} /\ y \in {0, 1} /\ u \in {0, 1}
  <2> DEFINE h(k) == hit_rate_at_k(ranked, expected, k)
  <2>1. /\ x = IF h(1) THEN 1 ELSE 0
        /\ y = IF h(TOP_K) THEN 1 ELSE 0
        /\ u = IF expected = {} THEN 1 ELSE 0
    BY DEF One
  <2>2. /\ rr \in Nat /\ rr <= Whole
        /\ h(1) <=> rr = Whole
        /\ h(1) => h(TOP_K)
        /\ h(TOP_K) => expected # {}
        /\ h(1) \/ rr <= P
        /\ h(TOP_K) \/ rr <= Q
    BY QuestionIs
  <2> HIDE DEF h, x, y, u, rr, P, Q
  <2> QED
    BY <2>1, <2>2
<1> HIDE DEF x, y, u, rr, P, Q
<1>3. s \in Scores
  BY <1>2 DEF Scores, Score
<1>4. /\ y + u <= 1
      /\ x * Whole <= rr
      /\ rr <= x * Whole + (y - x) * P + (1 - y) * Q
  <2>1. CASE x = 1
    BY <1>1, <1>2, <2>1
  <2>2. CASE x = 0 /\ y = 1
    BY <1>1, <1>2, <2>2
  <2>3. CASE x = 0 /\ y = 0
    BY <1>1, <1>2, <2>3
  <2> QED
    BY <1>2, <2>1, <2>2, <2>3
<1>5. Fair(s)
  BY <1>3, <1>4 DEF Fair, P, Q
<1> QED
  BY <1>5 DEF x, y, u, rr

\* A row's score is the sum over both types.
LEMMA BothTypes ==
    ASSUME tally \in [Types -> Scores]
    PROVE  [f \in DOMAIN Score |-> SumFunction([t \in Types |-> tally[t][f]])]
           = [f \in DOMAIN Score |-> tally["answerable_single"][f] + tally["answerable_multi"][f]]
<1> SUFFICES ASSUME NEW f \in DOMAIN Score
             PROVE  SumFunction([t \in Types |-> tally[t][f]])
                    = tally["answerable_single"][f] + tally["answerable_multi"][f]
  OBVIOUS
<1> DEFINE g == [t \in Types |-> tally[t][f]]
           A == {"answerable_single"}
           B == {"answerable_multi"}
<1>1. DOMAIN g = Types /\ g \in [Types -> Nat] /\ Types = A \cup B /\ A \cap B = {}
  BY DEF Types, Scores
<1>2. IsFiniteSet(A) /\ IsFiniteSet(B) /\ IsFiniteSet(Types)
  BY <1>1, FS_Singleton, FS_Union
<1>3. g["answerable_single"] = tally["answerable_single"][f]
      /\ g["answerable_multi"] = tally["answerable_multi"][f]
  BY <1>1 DEF Types
<1> HIDE DEF g
<1>4. IsBag(g) /\ "answerable_single" \in DOMAIN g /\ "answerable_multi" \in DOMAIN g
  BY <1>1, <1>2 DEF IsBag
<1>5. Count(g, A) = g["answerable_single"] /\ Count(g, B) = g["answerable_multi"]
  BY <1>4, CountAll
<1>6. Count(g, A \cup B) = Count(g, A) + Count(g, B)
  BY <1>1, <1>4, CountIs
<1>7. Count(g, A \cup B) = Size(g)
  BY <1>1, <1>4, CountAll
<1>8. Size(g) = SumFunction(g)
  BY DEF Size
<1> QED
  BY <1>3, <1>5, <1>6, <1>7, <1>8 DEF g

-----------------------------------------------------------------------------
(* The invariant.                                                         *)

LEMMA SumZero ==
    ASSUME NEW f, NEW S, IsFiniteSet(S), \A x \in S : f[x] = 0
    PROVE  SumFunctionOnSet(f, S) = 0
<1> DEFINE Bad == {s \in SUBSET S : SumFunctionOnSet(f, s) # 0}
<1>1. SUFFICES ASSUME Bad # {} PROVE FALSE
  OBVIOUS
<1>2. PICK s \in Bad : \A t \in Bad : Cardinality(s) <= Cardinality(t)
  <2>1. \A t \in Bad : IsFiniteSet(t)
    BY FS_Subset
  <2> HIDE DEF Bad
  <2> QED
    BY <1>1, <2>1, SmallestSet
<1>3. s \in SUBSET S /\ IsFiniteSet(s) /\ SumFunctionOnSet(f, s) # 0
  BY <1>2, FS_Subset
<1>4. s # {}
  BY <1>3, SumEmpty
<1>5. Chosen(s) \in s /\ s \ {Chosen(s)} \in SUBSET S
  BY <1>3, <1>4, ChosenIn
<1>6. SumFunctionOnSet(f, s \ {Chosen(s)}) = 0
  <2>1. ~(Cardinality(s) <= Cardinality(s \ {Chosen(s)}))
    BY <1>3, <1>5, Smaller
  <2> QED
    BY <1>2, <1>5, <2>1
<1>7. SumFunctionOnSet(f, s) = f[Chosen(s)] + SumFunctionOnSet(f, s \ {Chosen(s)})
  BY <1>3, <1>4, SumNext
<1> QED
  BY <1>3, <1>5, <1>6, <1>7

LEMMA InitIInv == ASSUME Init PROVE IInv
<1>1. Len(Golden) \in Nat /\ Fair(Score) /\ Score \in Scores /\ Score.n = 0
  BY GoldenAssumption, FairNone DEF Fair, Score
<1>2. TypeInv
  <2>1. results \in Seq(RowType)
    BY DEF Init, Nothing
  <2>2. \A q \in Questions : places[q] \in Occurrences \/ places[q] = {}
    BY DEF Init
  <2>3. \A q \in Questions : \A o \in places[q] :
          o.doc \in Docs /\ o.from \in 1 .. o.to /\ o.to \in 1 .. Length[o.doc]
    BY <2>2, OccurrenceAssumption
  <2> QED
    BY <1>1, <2>1, <2>3 DEF Init, TypeInv
<1>3. LogInv
  <2>1. SUFFICES ASSUME job \in Reports PROVE log \in [Kinds[job] -> Nat] /\ Size(log) <= MaxLog
    BY DEF LogInv
  <2>2. log = [k \in Kinds[job] |-> 0] /\ IsFiniteSet(Kinds[job])
    BY <2>1, KindAssumption DEF Init, Reports
  <2>3. DOMAIN log = Kinds[job] /\ \A k \in DOMAIN log : log[k] = 0
    BY <2>2
  <2>4. Size(log) = 0
    BY <2>2, <2>3, SumZero DEF Size, SumFunction
  <2> QED
    BY <2>2, <2>4, SizeAssumption
<1>4. RowInv
  BY SizeAssumption DEF Init, RowInv, Rows
<1>5. TallyInv
  BY <1>1 DEF Init, TallyInv, Types
<1>6. ResultInv
  BY DEF Init, ResultInv, Nothing, Older
<1>7. LastInv /\ NaiveInv /\ NaiveHitsAreAnswers
  BY DEF Init, LastInv, NaiveInv, NaiveHitsAreAnswers, Nothing
<1>8. HeadInv
  BY DEF Init, HeadInv, Older
<1> QED
  BY <1>2, <1>3, <1>4, <1>5, <1>6, <1>7, <1>8 DEF IInv

\* What a row reports is of where the answers are, which does not change.
LEMMA HitsKept ==
    ASSUME NaiveHitsAreAnswers, job' = job, places' = places, results' = results
    PROVE  NaiveHitsAreAnswers'
  BY DEF NaiveHitsAreAnswers, Uncut

LEMMA LogKept == ASSUME LogInv, job' = job, log' = log PROVE LogInv'
  BY DEF LogInv

LEMMA HeadKept ==
    ASSUME HeadInv, UNCHANGED <<head, read>>, file' = file \/ file'.of # "this" \/ file'.read = read
    PROVE  HeadInv'
  BY DEF HeadInv

LEMMA ReadDocumentStep == ASSUME IInv, ReadDocument PROVE IInv'
<1>1. TypeInv'
  BY DEF IInv, TypeInv, ReadDocument
<1>2. LogInv' /\ NaiveHitsAreAnswers'
  BY LogKept, HitsKept DEF IInv, ReadDocument
<1>3. RowInv'
  BY DEF IInv, RowInv, Rows, Naive, ReadDocument
<1>4. TallyInv' /\ ResultInv'
  BY SizeAssumption DEF IInv, TypeInv, TallyInv, RowInv, ResultInv, Rows, Fair, Scores, ReadDocument
<1>5. LastInv' /\ NaiveInv'
  <2>1. last = Nothing
    BY DEF IInv, LastInv, ReadDocument
  <2> QED
    BY <2>1 DEF ReadDocument, LastInv, NaiveInv
<1>6. HeadInv'
  BY DEF IInv, HeadInv, ReadDocument
<1> QED
  BY <1>1, <1>2, <1>3, <1>4, <1>5, <1>6 DEF IInv

LEMMA MoveHeadStep == ASSUME IInv, MoveHead PROVE IInv'
<1>1. TypeInv'
  BY DEF IInv, TypeInv, MoveHead
<1>2. LogInv' /\ NaiveHitsAreAnswers'
  BY LogKept, HitsKept DEF IInv, MoveHead
<1>3. RowInv'
  BY DEF IInv, RowInv, Rows, Naive, MoveHead
<1>4. TallyInv' /\ ResultInv'
  BY SizeAssumption DEF IInv, TypeInv, TallyInv, RowInv, ResultInv, Rows, Fair, Scores, MoveHead
<1>5. LastInv' /\ NaiveInv'
  <2>1. last = Nothing
    BY DEF IInv, LastInv, MoveHead
  <2> QED
    BY <2>1 DEF MoveHead, LastInv, NaiveInv
<1>6. HeadInv'
  BY SizeAssumption DEF IInv, HeadInv, MoveHead
<1> QED
  BY <1>1, <1>2, <1>3, <1>4, <1>5, <1>6 DEF IInv

LEMMA CreateTableStep == ASSUME IInv, CreateTable PROVE IInv'
<1>1. Len(Golden) \in Nat /\ Fair(Score) /\ Score \in Scores /\ Score.n = 0
  BY GoldenAssumption, FairNone DEF Fair, Score
<1>2. TypeInv'
  BY <1>1 DEF IInv, TypeInv, CreateTable
<1>3. LogInv' /\ NaiveHitsAreAnswers'
  BY LogKept, HitsKept DEF IInv, CreateTable
<1>4. RowInv'
  BY DEF IInv, RowInv, Rows, Naive, CreateTable
<1>5. TallyInv'
  BY <1>1 DEF CreateTable, TallyInv, Types
<1>6. ResultInv'
  BY DEF IInv, ResultInv, Rows, CreateTable
<1>7. LastInv'
  BY DEF IInv, LastInv, CreateTable
<1>8. NaiveInv'
  <2>1. \A t \in Types : tally'[t] = Score /\ asked' = 0
    BY DEF CreateTable
  <2>2. \A t \in Types : AskedUncut(t)' = {}
    <3>1. \A q \in Questions : ~(q <= 0)
      BY GoldenAssumption
    <3>2. \A t \in Types : AskedUncut(t)' \subseteq {q \in Questions : q <= asked'}
      BY DEF AskedUncut, Uncut
    <3>3. asked' = 0
      BY DEF CreateTable
    <3> QED
      BY <3>1, <3>2, <3>3
  <2>3. Score.hit5 = 0 /\ Score.undecidable = 0 /\ Score.n = 0 /\ Cardinality({}) = 0
    BY FS_EmptySet DEF Score
  <2> QED
    BY <2>1, <2>2, <2>3 DEF NaiveInv
<1>9. HeadInv'
  BY HeadKept DEF IInv, CreateTable, sources
<1> QED
  BY <1>2, <1>3, <1>4, <1>5, <1>6, <1>7, <1>8, <1>9 DEF IInv

LEMMA OpenFileStep == ASSUME IInv, OpenFile PROVE IInv'
<1>1. TypeInv'
  BY DEF IInv, TypeInv, OpenFile
<1>2. LogInv' /\ NaiveHitsAreAnswers'
  BY LogKept, HitsKept DEF IInv, OpenFile
<1>3. RowInv'
  BY DEF IInv, RowInv, Rows, Naive, OpenFile
<1>4. TallyInv' /\ ResultInv'
  <2>1. Rows' = Rows /\ Rows \in Nat
    BY SizeAssumption DEF OpenFile, Rows
  <2>2. TallyInv'
    BY DEF IInv, TallyInv, OpenFile
  <2>3. results' = results /\ row' = row /\ Len(results) = row - 1 /\ row = Rows + 1
    BY DEF IInv, RowInv, ResultInv, OpenFile
  <2>4. Len(results) = Rows
    BY <2>1, <2>3
  <2>5. ResultInv'
    BY <2>1, <2>3, <2>4 DEF IInv, ResultInv, OpenFile, Torn, Older
  <2> QED
    BY <2>2, <2>5
<1>5. LastInv' /\ NaiveInv'
  <2>1. last = Nothing
    BY DEF IInv, LastInv, OpenFile
  <2> QED
    BY <2>1 DEF OpenFile, LastInv, NaiveInv
<1>6. HeadInv'
  BY HeadKept DEF IInv, OpenFile, Torn, sources
<1> QED
  BY <1>1, <1>2, <1>3, <1>4, <1>5, <1>6 DEF IInv

LEMMA WriteStep == ASSUME IInv, Write PROVE IInv'
<1>1. TypeInv'
  BY DEF IInv, TypeInv, Write
<1>2. LogInv' /\ NaiveHitsAreAnswers'
  BY LogKept, HitsKept DEF IInv, Write
<1>3. RowInv'
  BY DEF IInv, RowInv, Rows, Naive, Write
<1>4. TallyInv' /\ ResultInv'
  <2>1. Rows' = Rows /\ Rows \in Nat
    BY SizeAssumption DEF Write, Rows
  <2>2. TallyInv'
    BY DEF IInv, TallyInv, Write
  <2>3. results' = results /\ row' = row /\ Len(results) = row - 1 /\ row = Rows + 1
    BY DEF IInv, RowInv, ResultInv, Write
  <2>4. Len(results) = Rows
    BY <2>1, <2>3
  <2>5. ResultInv'
    BY <2>1, <2>3, <2>4 DEF IInv, ResultInv, Write, This, Older
  <2> QED
    BY <2>2, <2>5
<1>5. LastInv' /\ NaiveInv'
  <2>1. last = Nothing
    BY DEF IInv, LastInv, Write
  <2> QED
    BY <2>1 DEF Write, LastInv, NaiveInv
<1>6. HeadInv'
  BY HeadKept DEF IInv, Write, This, sources
<1> QED
  BY <1>1, <1>2, <1>3, <1>4, <1>5, <1>6 DEF IInv

LEMMA FailStep == ASSUME IInv, Fail PROVE IInv'
<1>1. TypeInv'
  BY DEF IInv, TypeInv, Fail
<1>2. LogInv' /\ NaiveHitsAreAnswers'
  BY LogKept, HitsKept DEF IInv, Fail
<1>3. RowInv' /\ NaiveInv'
  BY DEF RowInv, NaiveInv, Fail
<1>4. TallyInv' /\ ResultInv'
  BY DEF IInv, TallyInv, ResultInv, Rows, Fair, Scores, Fail
<1>5. LastInv'
  BY DEF IInv, LastInv, Fail
<1>6. HeadInv'
  BY HeadKept DEF IInv, Fail, sources
<1> QED
  BY <1>1, <1>2, <1>3, <1>4, <1>5, <1>6 DEF IInv

LEMMA RecordStep == ASSUME IInv, NEW k \in DOMAIN log, Record(k) PROVE IInv'
<1>1. TypeInv'
  BY DEF IInv, TypeInv, Record
<1>2. LogInv'
  <2>1. SUFFICES ASSUME job \in Reports PROVE log' \in [Kinds[job] -> Nat] /\ Size(log') <= MaxLog
    BY DEF LogInv, Record
  <2>2. IsBag(log) /\ DOMAIN log = Kinds[job] /\ Size(log) \in Nat
    BY <2>1, LogIs DEF IInv
  <2>3. log' = [log EXCEPT ![k] = @ + 1] /\ Size(log) < MaxLog
    BY DEF Record
  <2>4. IsBag(log') /\ DOMAIN log' = DOMAIN log /\ log' \in [Kinds[job] -> Nat]
    BY <2>2, <2>3 DEF IsBag
  <2> DEFINE D == DOMAIN log
             R == D \ {k}
  <2>5. /\ IsFiniteSet(D) /\ IsFiniteSet(R) /\ k \in D
        /\ \A x \in D : log[x] \in Nat /\ log'[x] \in Nat
        /\ \A x \in R : log[x] = log'[x]
    BY <2>2, <2>3, <2>4, FS_Subset DEF IsBag
  <2>6. log'[k] = log[k] + 1
    BY <2>2, <2>3 DEF IsBag
  <2> HIDE DEF D, R
  <2>7. SumFunctionOnSet(log, D) = log[k] + SumFunctionOnSet(log, D \ {k})
    BY <2>5, SumTake
  <2>8. SumFunctionOnSet(log', D) = log'[k] + SumFunctionOnSet(log', D \ {k})
    BY <2>5, SumTake
  <2>9. SumFunctionOnSet(log, R) = SumFunctionOnSet(log', R) /\ SumFunctionOnSet(log, R) \in Nat
    <3>1. \A x \in R : log[x] \in Nat
      BY <2>5 DEF R
    <3> QED
      BY <2>5, <3>1, SameSum, SumType
  <2>10. Size(log) = SumFunctionOnSet(log, D) /\ Size(log') = SumFunctionOnSet(log', D)
    BY <2>4 DEF Size, SumFunction, D
  <2>11. log[k] \in Nat /\ MaxLog \in Nat
    BY <2>5, SizeAssumption
  <2>12. Size(log') = Size(log) + 1
    BY <2>6, <2>7, <2>8, <2>9, <2>10, <2>11 DEF R
  <2> QED
    BY <2>2, <2>3, <2>4, <2>11, <2>12
<1>3. RowInv'
  BY DEF IInv, RowInv, Record, Rows, Naive
<1>4. TallyInv' /\ ResultInv'
  BY DEF IInv, TallyInv, ResultInv, Rows, Record
<1>5. LastInv' /\ NaiveInv' /\ NaiveHitsAreAnswers'
  BY HitsKept DEF IInv, Record, LastInv, NaiveInv
<1>6. HeadInv'
  BY HeadKept DEF IInv, Record, sources
<1> QED
  BY <1>1, <1>2, <1>3, <1>4, <1>5, <1>6 DEF IInv

\* The quotient is the one number between these bounds.
LEMMA DivUnique ==
    ASSUME NEW a \in Nat, NEW b \in Nat \ {0}, NEW k \in Nat, b * k <= a, a < b * k + b
    PROVE  a \div b = k
<1> DEFINE m == a \div b
<1>1. m \in Nat /\ b * m <= a /\ a < b * m + b
  BY DivIs
<1> HIDE DEF m
<1>2. \A x, y \in Nat : x < y => b * x + b <= b * y
  <2> SUFFICES ASSUME NEW x \in Nat, NEW y \in Nat, x < y PROVE b * x + b <= b * y
    OBVIOUS
  <2>1. PICK d \in Nat : y = x + 1 + d
    <3>1. y - x - 1 \in Nat /\ y = x + 1 + (y - x - 1)
      OBVIOUS
    <3> QED
      BY <3>1
  <2>2. b * y = b * x + b + b * d /\ b * d \in Nat /\ b * x \in Nat
    BY <2>1
  <2> QED
    BY <2>2
<1>3. b * m \in Nat /\ b * k \in Nat
  BY <1>1
<1>4. ~(m < k) /\ ~(k < m)
  BY <1>1, <1>2, <1>3
<1>5. m = k
  BY <1>1, <1>4
<1> QED
  BY <1>5 DEF m

\* An answer is whole in one of its document's chunks exactly if it begins and
\* ends in the same window.
LEMMA InOneWindow ==
    ASSUME NEW o, o.doc \in Docs, o.from \in 1 .. o.to, o.to \in 1 .. Length[o.doc]
    PROVE  /\ \A c \in NaiveChunks : HasAnswer(c, o) =>
                 c.doc = o.doc /\ (o.from - 1) \div Window = (o.to - 1) \div Window
           /\ (o.from - 1) \div Window = (o.to - 1) \div Window =>
                 \E c \in NaiveChunks : HasAnswer(c, o)
<1> DEFINE W == Window
           f == o.from
           t == o.to
           len == Length[o.doc]
<1>1. /\ W \in Nat \ {0} /\ len \in Nat /\ f \in Nat /\ t \in Nat
      /\ 1 <= f /\ f <= t /\ t <= len /\ f - 1 \in Nat /\ t - 1 \in Nat
  BY SizeAssumption, DocAssumption
<1>2. ASSUME NEW c \in NaiveChunks, HasAnswer(c, o)
      PROVE  c.doc = o.doc /\ (f - 1) \div W = (t - 1) \div W
  <2>1. PICK d \in Docs : \E n \in Windows(d) : c = [doc |-> d, n |-> n]
    BY DEF NaiveChunks
  <2>10. PICK n \in Windows(d) : c = [doc |-> d, n |-> n]
    BY <2>1
  <2>2. c.n = n /\ n \in Nat /\ n >= 1 /\ c.doc = o.doc /\ (n - 1) * W < f /\ t <= n * W
    BY <1>2, <2>10 DEF HasAnswer, Windows
  <2> HIDE DEF W, f, t, len
  <2> DEFINE k == n - 1
  <2>3. k \in Nat /\ n = k + 1
    BY <2>2
  <2> HIDE DEF k
  <2>4. W * k \in Nat /\ W * k < f /\ t <= W * k + W
    BY <1>1, <2>2, <2>3
  <2>5. (f - 1) \div W = k /\ (t - 1) \div W = k
    <3>1. W * k <= f - 1 /\ f - 1 < W * k + W /\ W * k <= t - 1 /\ t - 1 < W * k + W
      BY <1>1, <2>4
    <3> QED
      BY <1>1, <2>3, <3>1, DivUnique
  <2> QED
    BY <2>2, <2>5
<1>3. ASSUME (f - 1) \div W = (t - 1) \div W
      PROVE  \E c \in NaiveChunks : HasAnswer(c, o)
  <2> DEFINE k == (f - 1) \div W
             top == (len + W - 1) \div W
             c == [doc |-> o.doc, n |-> k + 1]
  <2> HIDE DEF W, f, t, len
  <2>1. k \in Nat /\ W * k <= f - 1 /\ t - 1 < W * k + W
    <3>1. k \in Nat /\ W * k <= f - 1
      BY <1>1, DivIs
    <3>2. t - 1 < W * ((t - 1) \div W) + W
      BY <1>1, DivIs
    <3> QED
      BY <1>3, <3>1, <3>2
  <2>2. k + 1 <= top
    <3>1. len + W - 1 \in Nat
      BY <1>1
    <3>2. top \in Nat /\ len + W - 1 < W * top + W
      BY <1>1, <3>1, DivIs
    <3> HIDE DEF k, top
    <3>3. W * k < W * top
      <4>1. W * k \in Nat /\ W * top \in Nat
        BY <1>1, <2>1, <3>2
      <4> QED
        BY <1>1, <2>1, <3>2, <4>1
    <3> QED
      BY <1>1, <2>1, <3>2, <3>3
  <2>3. k + 1 \in Windows(o.doc)
    <3>1. Windows(o.doc) = 1 .. top /\ top \in Int
      <4>1. len # 0
        BY <1>1
      <4> QED
        BY <1>1, <4>1 DEF Windows, W, len
    <3> HIDE DEF k, top
    <3> QED
      BY <2>1, <2>2, <3>1
  <2>4. c \in NaiveChunks
    BY <2>3 DEF NaiveChunks
  <2> HIDE DEF k
  <2>5. c.doc = o.doc /\ c.n = k + 1
    OBVIOUS
  <2>6. (c.n - 1) * W < f /\ t <= c.n * W
    <3>1. c.n - 1 = k /\ k * W = W * k /\ (k + 1) * W = W * k + W /\ W * k \in Nat
      BY <1>1, <2>1, <2>5
    <3> HIDE DEF c
    <3> QED
      BY <1>1, <2>1, <2>5, <3>1
  <2>7. HasAnswer(c, o)
    BY <2>5, <2>6 DEF HasAnswer, W, f, t
  <2> QED
    BY <2>4, <2>7
<1> QED
  BY <1>2, <1>3

\* There is a chunk to be expected of a question exactly if its answer is whole
\* in one of its documents' windows.
LEMMA ExpectedIfUncut ==
    ASSUME TypeInv, NEW q \in Questions
    PROVE  _row1_expected_chunk_ids(q) # {} <=> q \in Uncut({Golden[q].type})
<1>1. ASSUME NEW o \in places[q]
      PROVE  /\ \A c \in NaiveChunks : HasAnswer(c, o) =>
                    c.doc = o.doc /\ (o.from - 1) \div Window = (o.to - 1) \div Window
             /\ (o.from - 1) \div Window = (o.to - 1) \div Window =>
                    \E c \in NaiveChunks : HasAnswer(c, o)
  <2>1. o.doc \in Docs /\ o.from \in 1 .. o.to /\ o.to \in 1 .. Length[o.doc]
    BY DEF TypeInv
  <2> QED
    BY <2>1, InOneWindow
<1>2. ASSUME NEW c \in _row1_expected_chunk_ids(q) PROVE q \in Uncut({Golden[q].type})
  <2>1. c \in NaiveChunks /\ c.doc \in Golden[q].docs
    BY DEF _row1_expected_chunk_ids
  <2>2. PICK o \in places[q] : HasAnswer(c, o)
    BY DEF _row1_expected_chunk_ids
  <2> QED
    BY <1>1, <2>1, <2>2 DEF Uncut
<1>3. ASSUME q \in Uncut({Golden[q].type}) PROVE _row1_expected_chunk_ids(q) # {}
  <2>1. PICK o \in places[q] : /\ o.doc \in Golden[q].docs
                               /\ (o.from - 1) \div Window = (o.to - 1) \div Window
    BY <1>3 DEF Uncut
  <2>2. PICK c \in NaiveChunks : HasAnswer(c, o)
    BY <1>1, <2>1
  <2>3. c.doc \in Golden[q].docs
    BY <2>1, <2>2 DEF HasAnswer
  <2>4. c \in _row1_expected_chunk_ids(q)
    BY <2>2, <2>3 DEF _row1_expected_chunk_ids
  <2> QED
    BY <2>4
<1> QED
  BY <1>2, <1>3

LEMMA UncutFinite ==
    ASSUME NEW types
    PROVE  IsFiniteSet(Questions) /\ Cardinality(Questions) = Len(Golden)
           /\ Uncut(types) \subseteq Questions /\ IsFiniteSet(Uncut(types))
           /\ Cardinality(Uncut(types)) \in Nat
<1> DEFINE n == Len(Golden)
<1>1. n \in Nat /\ Questions = 1 .. n
  BY GoldenAssumption
<1> HIDE DEF n
<1>2. IsFiniteSet(Questions) /\ Cardinality(Questions) = n
  BY <1>1, FS_Interval
<1>3. Uncut(types) \subseteq Questions
  BY DEF Uncut
<1>4. IsFiniteSet(Uncut(types)) /\ Cardinality(Uncut(types)) \in Nat
  BY <1>2, <1>3, FS_Subset, FS_CardinalityType
<1> QED
  BY <1>2, <1>3, <1>4 DEF n

LEMMA SearchStep == ASSUME IInv, Search PROVE IInv'
<1> DEFINE q == asked + 1
           ty == Golden[q].type
           E == Expected(q)
<1>1. pc = "search" /\ asked < Len(Golden) /\ asked' = q
      /\ UNCHANGED <<job, places, long, pc, row, table, results, file, log>>
  BY DEF Search
<1>2. q \in Questions /\ ty \in Types /\ asked \in Nat /\ q \in 0 .. Len(Golden)
  BY <1>1, GoldenAssumption DEF IInv, TypeInv, Types
<1>3. PICK ranked \in Rankings(Golden[q].tenant) :
        LET hit1 == hit_rate_at_k(ranked, E, 1)
            hit5 == hit_rate_at_k(ranked, E, TOP_K)
            rr == mrr(ranked, E)
        IN  /\ last' = [ranked |-> ranked, expected |-> E,
                        hit1 |-> hit1, hit5 |-> hit5, rr |-> rr]
            /\ tally' = [tally EXCEPT ![ty] =
                           [hit1 |-> @.hit1 + One(hit1), hit5 |-> @.hit5 + One(hit5),
                            mrr |-> @.mrr + rr, n |-> @.n + 1,
                            undecidable |-> @.undecidable + One(E = {})]]
  BY DEF Search
<1> DEFINE hit1 == hit_rate_at_k(ranked, E, 1)
           hit5 == hit_rate_at_k(ranked, E, TOP_K)
           rr == mrr(ranked, E)
           s == [hit1 |-> One(hit1), hit5 |-> One(hit5), mrr |-> rr, n |-> 1, undecidable |-> One(E = {})]
<1>4. table = IF Naive THEN NaiveChunks ELSE SharedChunks
  BY <1>1 DEF IInv, RowInv
<1>5. IsFiniteSet(table)
  BY <1>4, Chunks, FS_Subset
<1>6. PICK n \in Nat : ranked \in [1 .. n -> table]
  BY <1>5, RankingIs
<1>7. IsFiniteSet(E) /\ Cardinality(E) <= Whole
  <2>1. E \in SUBSET NaiveChunks
    BY <1>2, ExpectedIs
  <2> HIDE DEF E
  <2>2. IsFiniteSet(E) /\ Cardinality(E) <= Cardinality(NaiveChunks)
    BY <2>1, Chunks, FS_Subset
  <2>3. Cardinality(E) \in Nat /\ Cardinality(NaiveChunks) \in Nat /\ Whole \in Nat
    BY <2>2, Chunks, FS_CardinalityType, WholeAssumption
  <2> QED
    BY <2>2, <2>3, Chunks
<1>8. Fair(s)
  <2> HIDE DEF q, E
  <2> QED
    BY <1>6, <1>7, FairQuestion
<1>9. /\ tally' \in [Types -> Scores]
      /\ \A t \in Types : Fair(tally'[t])
      /\ tally'["answerable_single"].n + tally'["answerable_multi"].n = asked'
  <2>1. /\ tally \in [Types -> Scores] /\ \A t \in Types : Fair(tally[t])
        /\ tally["answerable_single"].n + tally["answerable_multi"].n = asked
    BY DEF IInv, TypeInv, TallyInv
  <2> DEFINE new == [f \in DOMAIN Score |-> tally[ty][f] + s[f]]
  <2>2. tally' = [tally EXCEPT ![ty] = [hit1 |-> @.hit1 + s.hit1, hit5 |-> @.hit5 + s.hit5,
                    mrr |-> @.mrr + s.mrr, n |-> @.n + s.n, undecidable |-> @.undecidable + s.undecidable]]
    BY <1>3
  <2> HIDE DEF s, ty
  <2>3. tally' = [tally EXCEPT ![ty] = new]
    BY <2>2 DEF Score
  <2>4. Fair(new)
    BY <1>2, <1>8, <2>1, FairPlus
  <2>5. new.n = tally[ty].n + 1
    <3>1. s.n = 1
      BY DEF s
    <3> QED
      BY <3>1 DEF Score
  <2> HIDE DEF new
  <2>6. \A t \in Types : tally'[t] = IF t = ty THEN new ELSE tally[t]
    BY <2>1, <2>3
  <2>7. new \in Scores /\ \A t \in Types : tally[t].n \in Nat
    BY <2>1, <2>4 DEF Fair, Scores, Score
  <2>8. tally' \in [Types -> Scores]
    BY <2>1, <2>3, <2>7
  <2>9. \A t \in Types : Fair(tally'[t])
    BY <2>1, <2>4, <2>6
  <2>10. tally'["answerable_single"].n + tally'["answerable_multi"].n = asked'
    <3> DEFINE one == "answerable_single"
               more == "answerable_multi"
    <3>1. one \in Types /\ more \in Types /\ (ty = one \/ ty = more) /\ one # more
      BY <1>2 DEF Types
    <3> HIDE DEF one, more
    <3>2. tally[one].n \in Nat /\ tally[more].n \in Nat /\ tally[one].n + tally[more].n = asked
      BY <2>1, <2>7, <3>1 DEF one, more
    <3>3. CASE ty = one
      <4>1. tally'[one].n = tally[one].n + 1 /\ tally'[more].n = tally[more].n
        BY <2>5, <2>6, <3>1, <3>3
      <4> QED
        BY <1>1, <1>2, <3>2, <4>1 DEF one, more
    <3>4. CASE ty = more
      <4>1. tally'[more].n = tally[more].n + 1 /\ tally'[one].n = tally[one].n
        BY <2>5, <2>6, <3>1, <3>4
      <4> QED
        BY <1>1, <1>2, <3>2, <4>1 DEF one, more
    <3> QED
      BY <3>1, <3>3, <3>4
  <2> QED
    BY <2>8, <2>9, <2>10
<1>10. TypeInv'
  BY <1>1, <1>2, <1>9 DEF IInv, TypeInv, Scores
<1>11. LogInv'
  BY <1>1, LogKept DEF IInv
<1>12. RowInv'
  BY <1>1 DEF IInv, RowInv, Rows, Naive
<1>13. TallyInv'
  BY <1>9 DEF TallyInv, Fair, Scores
<1>14. ResultInv'
  BY <1>1 DEF IInv, ResultInv, Rows
<1>15. /\ last'.ranked = ranked /\ last'.expected = E
       /\ last'.rr = rr /\ (last'.hit1 <=> hit1) /\ (last'.hit5 <=> hit5)
  BY <1>3
<1>16. LastInv'
  <2>1. /\ hit1 <=> rr = Whole
        /\ hit5 <=> rr * TOP_K >= Whole
        /\ hit5 <=> recall_at_k(ranked, E, TOP_K) > 0
    <3> HIDE DEF E
    <3> QED
      BY <1>6, <1>7, QuestionIs
  <2> HIDE DEF q, E, hit1, hit5, rr
  <2> QED
    BY <1>1, <1>15, <2>1 DEF LastInv
<1>17. NaiveHitsAreAnswers'
  BY <1>1, HitsKept DEF IInv
<1>18. NaiveInv'
  <2>1. SUFFICES ASSUME Naive, NEW t \in Types
                 PROVE  /\ tally'[t].hit5 <= Cardinality(AskedUncut(t)')
                        /\ tally'[t].undecidable + Cardinality(AskedUncut(t)') = tally'[t].n
    BY <1>1 DEF NaiveInv, Naive
  <2> DEFINE A == AskedUncut(t)
             A2 == AskedUncut(t)'
  <2>2. A2 = {p \in Uncut({t}) : p <= q}
    BY <1>1 DEF AskedUncut, Uncut
  <2>3. A = {p \in Uncut({t}) : p <= asked}
    BY DEF AskedUncut
  <2>4. E # {} <=> q \in Uncut({ty})
    BY <1>2, <2>1, ExpectedIfUncut DEF IInv, Expected
  <2>5. Uncut({t}) \subseteq Nat /\ IsFiniteSet(A) /\ Cardinality(A) \in Nat
    <3>1. Questions \subseteq Nat
      BY GoldenAssumption
    <3>2. A \subseteq Uncut({t})
      BY <2>3
    <3> HIDE DEF A
    <3> QED
      BY <3>1, <3>2, UncutFinite, FS_Subset, FS_CardinalityType
  <2>6. A2 = IF q \in Uncut({t}) THEN A \cup {q} ELSE A
    <3>1. \A p \in Uncut({t}) : p <= q <=> p <= asked \/ p = q
      BY <1>2, <2>5
    <3> HIDE DEF q
    <3> QED
      BY <2>2, <2>3, <3>1
  <2>7. q \notin A /\ (q \in Uncut({t}) => t = ty)
    BY <1>2, <2>3 DEF Uncut
  <2>8. /\ Cardinality(A2) = Cardinality(A) + IF q \in Uncut({t}) THEN 1 ELSE 0
    <3> HIDE DEF A, A2, q
    <3>1. CASE q \in Uncut({t})
      BY <2>5, <2>6, <2>7, <3>1, FS_AddElement
    <3>2. CASE q \notin Uncut({t})
      BY <2>5, <2>6, <3>2
    <3> QED
      BY <3>1, <3>2
  <2>9. /\ tally[t].hit5 <= Cardinality(A)
        /\ tally[t].undecidable + Cardinality(A) = tally[t].n
    BY <1>1, <2>1 DEF IInv, NaiveInv
  <2>10. tally[t] \in Scores /\ tally \in [Types -> Scores]
    BY DEF IInv, TypeInv
  <2>11. tally[t].hit5 \in Nat /\ tally[t].undecidable \in Nat /\ tally[t].n \in Nat
    BY <2>10 DEF Scores, Score
  <2>12. CASE t # ty
    <3>1. tally'[t] = tally[t]
      BY <1>3, <2>10, <2>12
    <3>2. Cardinality(A2) = Cardinality(A)
      BY <2>5, <2>7, <2>8, <2>12
    <3> HIDE DEF A, A2
    <3>3. /\ tally'[t].hit5 <= Cardinality(A2)
          /\ tally'[t].undecidable + Cardinality(A2) = tally'[t].n
      BY <2>9, <3>1, <3>2
    <3> QED
      BY <3>3 DEF A2
  <2>13. CASE t = ty
    <3> DEFINE h == One(hit5)
               u == One(E = {})
               k == IF q \in Uncut({t}) THEN 1 ELSE 0
    <3>1. /\ tally'[t].hit5 = tally[t].hit5 + h
          /\ tally'[t].undecidable = tally[t].undecidable + u
          /\ tally'[t].n = tally[t].n + 1
      BY <1>3, <2>10, <2>13
    <3>2. hit5 => E # {}
      <4> HIDE DEF E
      <4> QED
        BY <1>6, <1>7, QuestionIs
    <3>3. u + k = 1 /\ h <= k /\ h \in {0, 1} /\ u \in {0, 1} /\ k \in {0, 1}
      <4>1. u = (IF E = {} THEN 1 ELSE 0) /\ h = (IF hit5 THEN 1 ELSE 0)
        BY DEF One
      <4> HIDE DEF E, hit5, h, u
      <4> QED
        BY <2>4, <2>13, <3>2, <4>1
    <3>4. Cardinality(A2) = Cardinality(A) + k
      BY <2>8
    <3> HIDE DEF A, A2, h, u, k
    <3>5. /\ tally'[t].hit5 <= Cardinality(A2)
          /\ tally'[t].undecidable + Cardinality(A2) = tally'[t].n
      BY <2>5, <2>9, <2>11, <3>1, <3>3, <3>4
    <3> QED
      BY <3>5 DEF A2
  <2> QED
    BY <2>12, <2>13
<1>19. HeadInv'
  BY HeadKept DEF IInv, Search, sources
<1> QED
  BY <1>10, <1>11, <1>12, <1>13, <1>14, <1>16, <1>17, <1>18, <1>19 DEF IInv

\* The whole naive row: every question has been asked, and is of one type.
LEMMA NaiveRowIs ==
    ASSUME IInv, Naive, pc = "search", asked = Len(Golden),
           NEW r, r = [f \in DOMAIN Score |-> tally["answerable_single"][f] + tally["answerable_multi"][f]]
    PROVE  /\ \A t \in Types : tally[t].hit5 <= Cardinality(Uncut({t}))
           /\ r.hit5 <= Cardinality(Uncut(Types))
           /\ r.undecidable = Cardinality(Questions) - Cardinality(Uncut(Types))
<1> DEFINE one == "answerable_single"
           more == "answerable_multi"
           A == Uncut({one})
           B == Uncut({more})
<1>1. \A t \in Types : AskedUncut(t) = Uncut({t})
  <2>1. Questions = 1 .. Len(Golden) /\ Len(Golden) \in Nat
    BY GoldenAssumption
  <2> QED
    BY <2>1 DEF AskedUncut, Uncut
<1>2. \A t \in Types : /\ tally[t].hit5 <= Cardinality(Uncut({t}))
                       /\ tally[t].undecidable + Cardinality(Uncut({t})) = tally[t].n
  BY <1>1 DEF IInv, NaiveInv
<1>3. IsFiniteSet(A) /\ IsFiniteSet(B) /\ Cardinality(A) \in Nat /\ Cardinality(B) \in Nat
  BY UncutFinite
<1>4. Uncut(Types) = A \cup B /\ A \cap B = {}
  BY DEF Uncut, Types
<1> HIDE DEF A, B
<1>5. Cardinality(Uncut(Types)) = Cardinality(A) + Cardinality(B)
  <2>1. Cardinality(A \cup B) = Cardinality(A) + Cardinality(B) - Cardinality(A \cap B)
    BY <1>3, FS_Union
  <2>2. Cardinality(A \cap B) = 0
    BY <1>4, FS_EmptySet
  <2> QED
    BY <1>3, <1>4, <2>1, <2>2
<1>6. /\ r.hit5 = tally[one].hit5 + tally[more].hit5
      /\ r.undecidable = tally[one].undecidable + tally[more].undecidable
  BY DEF Score
<1>7. /\ tally[one].hit5 <= Cardinality(A) /\ tally[one].undecidable + Cardinality(A) = tally[one].n
      /\ tally[more].hit5 <= Cardinality(B) /\ tally[more].undecidable + Cardinality(B) = tally[more].n
  BY <1>2 DEF Types, A, B
<1>8. /\ tally[one].hit5 \in Nat /\ tally[one].undecidable \in Nat /\ tally[one].n \in Nat
      /\ tally[more].hit5 \in Nat /\ tally[more].undecidable \in Nat /\ tally[more].n \in Nat
  BY DEF IInv, TypeInv, Scores, Score, Types
<1>9. tally[one].n + tally[more].n = Cardinality(Questions)
  BY UncutFinite DEF IInv, TallyInv
<1> HIDE DEF one, more
<1>10. /\ r.hit5 <= Cardinality(Uncut(Types))
       /\ r.undecidable = Cardinality(Questions) - Cardinality(Uncut(Types))
  <2> DEFINE a == Cardinality(A)
             b == Cardinality(B)
             c == Cardinality(Uncut(Types))
             d == Cardinality(Questions)
             x == tally[one]
             y == tally[more]
  <2>1. /\ a \in Nat /\ b \in Nat /\ c = a + b /\ d = x.n + y.n
        /\ r.hit5 = x.hit5 + y.hit5 /\ r.undecidable = x.undecidable + y.undecidable
        /\ x.hit5 <= a /\ x.undecidable + a = x.n /\ y.hit5 <= b /\ y.undecidable + b = y.n
        /\ x.hit5 \in Nat /\ x.undecidable \in Nat /\ x.n \in Nat
        /\ y.hit5 \in Nat /\ y.undecidable \in Nat /\ y.n \in Nat
    BY <1>3, <1>5, <1>6, <1>7, <1>8, <1>9
  <2> HIDE DEF a, b, c, d, x, y
  <2>2. r.hit5 <= c
    BY <2>1
  <2>3. r.undecidable = d - c
    BY <2>1
  <2> QED
    BY <2>2, <2>3 DEF c, d
<1> QED
  BY <1>2, <1>10

LEMMA ScoreRowStep == ASSUME IInv, ScoreRow PROVE IInv'
<1>1. /\ pc = "search" /\ asked = Len(Golden) /\ last' = Nothing
      /\ UNCHANGED <<job, places, long, sources, table, asked, tally, file, log>>
  BY DEF ScoreRow
<1>2. LogInv'
  BY <1>1, LogKept DEF IInv
<1>3. TallyInv'
  BY <1>1 DEF IInv, TallyInv
<1>4. LastInv'
  BY <1>1 DEF LastInv
<1>5. file = Older
  BY <1>1 DEF IInv, ResultInv
<1>6. TypeInv' /\ RowInv' /\ NaiveInv' /\ ResultInv' /\ NaiveHitsAreAnswers'
  <2>1. CASE pc' = "failed" /\ UNCHANGED <<row, results>>
    <3>1. TypeInv' /\ NaiveInv'
      BY <1>1, <2>1 DEF IInv, TypeInv, NaiveInv
    <3>2. RowInv'
      BY <2>1 DEF RowInv
    <3>3. ResultInv'
      <4>1. file' = Older /\ Older.of = "older"
        BY <1>1, <1>5 DEF Older
      <4> QED
        BY <2>1, <4>1 DEF IInv, ResultInv
    <3>4. NaiveHitsAreAnswers'
      BY <1>1, <2>1, HitsKept DEF IInv
    <3> QED
      BY <3>1, <3>2, <3>3, <3>4
  <2> DEFINE r == [f \in DOMAIN Score |-> SumFunction([t \in Types |-> tally[t][f]])]
             hits == [t \in {u \in Types : tally[u].n > 0} |-> [sum |-> tally[t].hit5, len |-> tally[t].n]]
  <2>2. CASE /\ results' = Append(results, [all |-> r, per_category_hit_at_5 |-> hits])
             /\ row' = row + 1
             /\ pc' = IF row < Rows THEN "row" ELSE "write"
    <3> DEFINE new == [all |-> r, per_category_hit_at_5 |-> hits]
    <3>1. r = [f \in DOMAIN Score |-> tally["answerable_single"][f] + tally["answerable_multi"][f]]
      BY BothTypes DEF IInv, TypeInv
    <3> HIDE DEF r
    <3>2. Fair(r)
      BY <3>1, FairPlus DEF IInv, TallyInv, Types
    <3>3. r.n = Len(Golden)
      BY <1>1, <3>1 DEF IInv, TallyInv, Score
    <3>4. row \in Nat \ {0} /\ row <= Rows /\ Rows \in Nat /\ results \in Seq(RowType) /\ Len(results) = row - 1
      BY <1>1, SizeAssumption DEF IInv, TypeInv, RowInv, ResultInv, Rows
    <3>5. new \in RowType /\ new.all = r /\ new.per_category_hit_at_5 = hits
      <4>1. \A t \in Types : tally[t].hit5 \in Nat /\ tally[t].n \in Nat
        BY DEF IInv, TypeInv, Scores, Score
      <4>2. hits \in [{u \in Types : tally[u].n > 0} -> [sum : Nat, len : Nat]]
        BY <4>1
      <4> HIDE DEF hits
      <4>3. hits \in UNION {[types -> [sum : Nat, len : Nat]] : types \in SUBSET Types}
        BY <4>2
      <4> QED
        BY <3>2, <4>3 DEF RowType, Fair
    <3>6. \A t \in DOMAIN hits : t \in Types /\ hits[t].sum = tally[t].hit5
      OBVIOUS
    <3> HIDE DEF new, hits
    <3>7. /\ results' \in Seq(RowType) /\ Len(results') = row
          /\ \A i \in 1 .. Len(results') : results'[i] = IF i <= Len(results) THEN results[i] ELSE new
      BY <2>2, <3>4, <3>5 DEF new
    <3>8. TypeInv'
      BY <1>1, <2>2, <3>4, <3>7 DEF IInv, TypeInv, Scores, RowType
    <3>9. Rows' = Rows
      BY <1>1 DEF Rows
    <3>10. RowInv' /\ NaiveInv'
      BY <2>2, <3>4, <3>9 DEF RowInv, NaiveInv
    <3>11. \A i \in 1 .. Len(results') : Fair(results'[i].all) /\ results'[i].all.n = Len(Golden)
      <4>1. \A i \in 1 .. Len(results) : Fair(results[i].all) /\ results[i].all.n = Len(Golden)
        BY DEF IInv, ResultInv
      <4>2. \A i \in 1 .. Len(results') : i <= Len(results) => i \in 1 .. Len(results)
        BY <3>4
      <4> QED
        BY <3>2, <3>3, <3>5, <3>7, <4>1, <4>2
    <3>12. ResultInv'
      <4>1. file' = Older /\ file'.of = "older"
        BY <1>1, <1>5 DEF Older
      <4> QED
        BY <2>2, <3>4, <3>7, <3>11, <4>1 DEF ResultInv, Fair, Scores
    <3>13. NaiveHitsAreAnswers'
      <4>1. SUFFICES ASSUME job = "impact", NEW naive, naive = results'[1]
                     PROVE  /\ naive.all.hit5 <= Cardinality(Uncut(Types))
                            /\ naive.all.undecidable = Cardinality(Questions) - Cardinality(Uncut(Types))
                            /\ \A t \in DOMAIN naive.per_category_hit_at_5 :
                                  naive.per_category_hit_at_5[t].sum <= Cardinality(Uncut({t}))
        BY <1>1 DEF NaiveHitsAreAnswers, Uncut
      <4>2. 1 \in 1 .. Len(results')
        BY <3>4, <3>7
      <4>3. CASE row = 1
        <5>1. naive = new /\ Naive
          BY <3>4, <3>7, <4>1, <4>2, <4>3 DEF Naive
        <5>2. /\ \A t \in Types : tally[t].hit5 <= Cardinality(Uncut({t}))
              /\ r.hit5 <= Cardinality(Uncut(Types))
              /\ r.undecidable = Cardinality(Questions) - Cardinality(Uncut(Types))
          BY <1>1, <3>1, <5>1, NaiveRowIs
        <5> QED
          BY <3>5, <3>6, <5>1, <5>2
      <4>4. CASE row # 1
        <5>1. naive = results[1] /\ results # <<>>
          BY <3>4, <3>7, <4>1, <4>2, <4>4
        <5> QED
          BY <4>1, <5>1 DEF IInv, NaiveHitsAreAnswers
      <4> QED
        BY <4>3, <4>4
    <3> QED
      BY <3>8, <3>10, <3>12, <3>13
  <2> QED
    BY <2>1, <2>2 DEF ScoreRow, Published
<1>7. HeadInv'
  BY HeadKept DEF IInv, ScoreRow, sources
<1> QED
  BY <1>2, <1>3, <1>4, <1>6, <1>7 DEF IInv

\* Every step of a measurement or of a report keeps what its results rest on:
\* the table of the row, the questions that are scored and how, and the samples.
THEOREM Invariance == Spec => []IInv
<1>1. Init => IInv
  BY InitIInv
<1>2. IInv /\ [Next]_vars => IInv'
  <2> SUFFICES ASSUME IInv, [Next]_vars PROVE IInv'
    OBVIOUS
  <2>1. CASE UNCHANGED vars
    <3>1. TypeInv' /\ LogInv' /\ RowInv' /\ TallyInv' /\ ResultInv' /\ HeadInv' /\ LastInv'
      BY <2>1 DEF IInv, TypeInv, LogInv, RowInv, TallyInv, ResultInv, HeadInv, LastInv, vars, sources, Rows, Naive
    <3>2. NaiveHitsAreAnswers' /\ NaiveInv'
      BY <2>1, HitsKept DEF IInv, NaiveInv, Naive, AskedUncut, Uncut, vars
    <3> QED
      BY <3>1, <3>2 DEF IInv
  <2>2. CASE Next
    BY <2>2, ReadDocumentStep, MoveHeadStep, CreateTableStep, SearchStep, ScoreRowStep,
         OpenFileStep, WriteStep, FailStep, RecordStep DEF Next
  <2> QED
    BY <2>1, <2>2
<1> QED
  BY <1>1, <1>2, PTL DEF Spec

-----------------------------------------------------------------------------
(* What is promised.                                                      *)

\* The naive row reports no hit without an answer that a chunk has whole, and
\* counts the questions that have none, whatever the search returns and wherever
\* the chunks are cut (_row1_expected_chunk_ids, _measure_row1, _score).
THEOREM NaiveHitsAreAnswersAlways == Spec => []NaiveHitsAreAnswers
<1>1. IInv => NaiveHitsAreAnswers
  BY DEF IInv
<1> QED
  BY <1>1, Invariance, PTL

\* hit@1, hit@k, recall and reciprocal rank of a question agree, and so do the
\* sums of every row (_score).
THEOREM ScoresAgreeAlways == Spec => []ScoresAgree
<1>1. IInv => ScoresAgree
  BY DEF IInv, LastInv, ResultInv, Fair, ScoresAgree, TypeInv
<1> QED
  BY <1>1, Invariance, PTL

\* A results file is touched when every row is done, and holds every row and
\* every question of one measurement (main of both scripts).
THEOREM FileIsOneMeasurementAlways == Spec => []FileIsOneMeasurement
<1>1. IInv => FileIsOneMeasurement
  <2> SUFFICES ASSUME IInv
               PROVE  /\ file # Older => pc \in {"text", "written", "failed"} /\ Len(results) = Rows
                      /\ file.of = "this" =>
                           /\ head = 1 => file.read \subseteq {1}
                           /\ Len(file.rows) = Rows
                           /\ \A i \in DOMAIN file.rows :
                                 LET r == file.rows[i].all IN
                                 r.n = Cardinality(Questions) /\ r.hit5 + r.undecidable <= r.n
    BY DEF FileIsOneMeasurement
  <2>1. file # Older => pc \in {"text", "written", "failed"} /\ Len(results) = Rows
    BY DEF IInv, ResultInv
  <2>2. ASSUME file.of = "this"
        PROVE  /\ head = 1 => file.read \subseteq {1}
               /\ Len(file.rows) = Rows
               /\ \A i \in DOMAIN file.rows :
                     LET r == file.rows[i].all IN
                     r.n = Cardinality(Questions) /\ r.hit5 + r.undecidable <= r.n
    <3>1. file.rows = results /\ Len(results) = Rows /\ results \in Seq(RowType)
      BY <2>2 DEF IInv, TypeInv, ResultInv
    <3>2. \A i \in DOMAIN results : Fair(results[i].all) /\ results[i].all.n = Len(Golden)
      BY <3>1 DEF IInv, ResultInv
    <3> QED
      BY <2>2, <3>1, <3>2, UncutFinite DEF Fair, IInv, HeadInv
  <2> QED
    BY <2>1, <2>2
<1> QED
  BY <1>1, Invariance, PTL

\* A percentile was observed, within a rank of the nearest one, and a stage's is
\* of the queries it ran on (_percentile, latency_p50_p95).
THEOREM PercentilesAreHonestAlways == Spec => []PercentilesAreHonest
<1>1. IInv => PercentilesAreHonest
  BY HonestPercentiles DEF IInv, TypeInv
<1> QED
  BY <1>1, Invariance, PTL

\* No report is full by default (faithfulness, refusal_correctness).
THEOREM PerfectMeansPerfectAlways == Spec => []PerfectMeansPerfect
<1>1. IInv => PerfectMeansPerfect
  BY PerfectReports DEF IInv, TypeInv
<1> QED
  BY <1>1, Invariance, PTL
=============================================================================
