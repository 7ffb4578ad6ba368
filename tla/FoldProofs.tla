------------------------------ MODULE FoldProofs ------------------------------
(* What MapThenSumSet of the library computes, for a finite set of any size:  *)
(* the sum of the values of its elements; and that functions defined along    *)
(* the numbers exist. Induction is by a smallest or greatest counterexample.  *)
EXTENDS FiniteSetsExt, FiniteSetTheorems, WellFoundedInduction, TLAPS

First(T) == CHOOSE x \in T : TRUE

\* The recursive function behind MapThenSumSet, for the values of a function f.
IsSum(it, f, S) ==
  it = [T \in SUBSET S |-> IF T = {} THEN 0 ELSE f[First(T)] + it[T \ {First(T)}]]
Sum(f, S) == (CHOOSE it : IsSum(it, f, S))[S]
-----------------------------------------------------------------------------
\* Numbers, and sets of subsets, have a smallest one.
LEMMA SmallestNumber ==
  ASSUME NEW N \in SUBSET Nat, N # {}
  PROVE  \E n \in N : \A m \in N : n <= m
<1> DEFINE R == OpToRel(<, Nat)
<1>1. IsWellFoundedOn(R, Nat)
  BY NatLessThanWellFounded
<1>2. \A m, n \in Nat : <<m, n>> \in R <=> m < n
  BY DEF OpToRel
<1> HIDE DEF R
<1>3. PICK n \in N : \A m \in N : ~(<<m, n>> \in R)
  BY <1>1, WFMin
<1>4. ASSUME NEW m \in N PROVE n <= m
  <2>1. m \in Nat /\ n \in Nat /\ ~(<<m, n>> \in R)
    BY <1>3
  <2>2. ~(m < n)
    BY <1>2, <2>1
  <2> QED
    BY <2>1, <2>2
<1> QED
  BY <1>4

LEMMA SmallestSet ==
  ASSUME NEW S, IsFiniteSet(S), NEW B \in SUBSET SUBSET S, B # {}
  PROVE  \E T \in B : \A x \in T : T \ {x} \notin B
<1> DEFINE Sizes == {Cardinality(T) : T \in B}
<1>1. ASSUME NEW T \in B PROVE IsFiniteSet(T) /\ Cardinality(T) \in Nat
  BY FS_Subset, FS_CardinalityType
<1>2. PICK n \in Sizes : \A m \in Sizes : n <= m
  <2>1. Sizes \in SUBSET Nat /\ Sizes # {}
    BY <1>1
  <2> QED
    BY <2>1, SmallestNumber
<1>3. PICK T \in B : n = Cardinality(T)
  BY <1>2
<1>4. ASSUME NEW x \in T, T \ {x} \in B PROVE FALSE
  <2>1. Cardinality(T \ {x}) = Cardinality(T) - 1
    BY <1>1, FS_RemoveElement
  <2>2. n <= Cardinality(T \ {x}) /\ Cardinality(T) \in Nat
    BY <1>1, <1>2, <1>4
  <2> QED
    BY <1>3, <2>1, <2>2
<1> QED
  BY <1>4

\* There is a function that sums: it is there for the subsets of up to n elements.
LEMMA SumExists ==
  ASSUME NEW S, IsFiniteSet(S), NEW f
  PROVE  \E it : IsSum(it, f, S)
<1> DEFINE Small(n) == {T \in SUBSET S : Cardinality(T) <= n}
           Step(g, T) == IF T = {} THEN 0 ELSE f[First(T)] + g[T \ {First(T)}]
           Sums(n) == \E g : g = [T \in Small(n) |-> Step(g, T)]
<1>1. ASSUME NEW T \in SUBSET S PROVE IsFiniteSet(T) /\ Cardinality(T) \in Nat
  BY FS_Subset, FS_CardinalityType
<1>2. ASSUME NEW T \in SUBSET S, T # {}
      PROVE  /\ First(T) \in T /\ T \ {First(T)} \in SUBSET S
             /\ Cardinality(T \ {First(T)}) = Cardinality(T) - 1
  <2>1. First(T) \in T
    BY <1>2 DEF First
  <2> QED
    BY <1>1, <2>1, FS_RemoveElement
<1>3. Sums(0)
  <2> DEFINE g == [T \in Small(0) |-> 0]
  <2>1. ASSUME NEW T \in Small(0) PROVE T = {}
    <3>1. Cardinality(T) = 0 /\ IsFiniteSet(T)
      BY <1>1
    <3> QED
      BY <3>1, FS_EmptySet
  <2>2. g = [T \in Small(0) |-> Step(g, T)]
    BY <2>1
  <2> QED
    BY <2>2
<1>4. ASSUME NEW n \in Nat, Sums(n) PROVE Sums(n + 1)
  <2>1. PICK g : g = [T \in Small(n) |-> Step(g, T)]
    BY <1>4
  <2> DEFINE h == [T \in Small(n + 1) |-> Step(g, T)]
  <2>2. ASSUME NEW T \in Small(n + 1) PROVE Step(h, T) = Step(g, T)
    <3>1. CASE T = {}
      BY <3>1
    <3>2. CASE T # {}
      <4> DEFINE R == T \ {First(T)}
      <4>1. R \in Small(n) /\ R \in Small(n + 1)
        BY <1>1, <1>2, <3>2
      <4>2. g[R] = Step(g, R) /\ h[R] = Step(g, R)
        <5> HIDE DEF R, Step, Small
        <5> QED
          BY <2>1, <4>1
      <4> QED
        BY <3>2, <4>2
    <3> QED
      BY <3>1, <3>2
  <2>3. h = [T \in Small(n + 1) |-> Step(h, T)]
    <3> HIDE DEF Small, Step
    <3> QED
      BY <2>2
  <2> QED
    BY <2>3
<1> HIDE DEF Sums
<1>5. ASSUME NEW n \in Nat PROVE Sums(n)
  <2> DEFINE Bad == {m \in Nat : ~Sums(m)}
  <2>1. SUFFICES ASSUME Bad # {} PROVE FALSE
    OBVIOUS
  <2>2. PICK m \in Bad : \A k \in Bad : m <= k
    BY <2>1, SmallestNumber
  <2>3. m # 0 /\ m - 1 \in Nat
    BY <1>3, <2>2
  <2>4. Sums(m - 1)
    BY <2>2, <2>3
  <2>5. Sums(m - 1 + 1) /\ m - 1 + 1 = m
    BY <1>4, <2>2, <2>3, <2>4
  <2> QED
    BY <2>2, <2>5
<1>6. Small(Cardinality(S)) = SUBSET S
  BY FS_Subset
<1>7. PICK g : g = [T \in Small(Cardinality(S)) |-> Step(g, T)]
  BY <1>1, <1>5 DEF Sums
<1> QED
  BY <1>6, <1>7 DEF IsSum
-----------------------------------------------------------------------------
\* What such a function gives for a subset, and that it is the only one.
LEMMA SumStep ==
  ASSUME NEW S, NEW f, NEW it, IsSum(it, f, S)
  PROVE  /\ it[{}] = 0
         /\ \A T \in SUBSET S : T # {} =>
              /\ First(T) \in T /\ T \ {First(T)} \in SUBSET S
              /\ it[T] = f[First(T)] + it[T \ {First(T)}]
<1>1. \A T \in SUBSET S :
        it[T] = IF T = {} THEN 0 ELSE f[First(T)] + it[T \ {First(T)}]
  BY DEF IsSum
<1>2. \A T : T # {} => First(T) \in T
  BY DEF First
<1> QED
  BY <1>1, <1>2

LEMMA SumsAgree ==
  ASSUME NEW S, IsFiniteSet(S), NEW R, S \subseteq R, NEW f, NEW g, \A x \in S : f[x] = g[x],
         NEW it, IsSum(it, f, S), NEW jt, IsSum(jt, g, R)
  PROVE  \A T \in SUBSET S : it[T] = jt[T]
<1> DEFINE Bad == {T \in SUBSET S : it[T] # jt[T]}
<1>1. SUFFICES ASSUME Bad # {} PROVE FALSE
  OBVIOUS
<1>2. PICK T \in Bad : \A x \in T : T \ {x} \notin Bad
  BY <1>1, SmallestSet
<1>3. T \in SUBSET S /\ T \in SUBSET R /\ it[T] # jt[T]
  BY <1>2
<1>4. T # {}
  <2>1. it[{}] = 0 /\ jt[{}] = 0
    BY SumStep
  <2> QED
    BY <1>3, <2>1
<1>5. /\ First(T) \in T /\ T \ {First(T)} \in SUBSET S
      /\ it[T] = f[First(T)] + it[T \ {First(T)}]
      /\ jt[T] = g[First(T)] + jt[T \ {First(T)}]
  BY <1>3, <1>4, SumStep, SMTT(30)
<1>6. it[T \ {First(T)}] = jt[T \ {First(T)}]
  BY <1>2, <1>5
<1> QED
  BY <1>3, <1>5, <1>6

LEMMA SumIs ==
  ASSUME NEW S, IsFiniteSet(S), NEW f, NEW it, IsSum(it, f, S)
  PROVE  Sum(f, S) = it[S]
<1>1. IsSum(CHOOSE jt : IsSum(jt, f, S), f, S)
  OBVIOUS
<1> QED
  BY <1>1, SumsAgree DEF Sum

\* Of a larger set, it sums the smaller ones too.
LEMMA SumsParts ==
  ASSUME NEW S, IsFiniteSet(S), NEW f, NEW it, IsSum(it, f, S), NEW T \in SUBSET S
  PROVE  Sum(f, T) = it[T]
<1>1. IsFiniteSet(T)
  BY FS_Subset
<1>2. PICK jt : IsSum(jt, f, T)
  BY <1>1, SumExists
<1>3. jt[T] = it[T]
  BY <1>1, <1>2, SumsAgree
<1> QED
  BY <1>1, <1>2, <1>3, SumIs
-----------------------------------------------------------------------------
\* Sums are numbers, and any element may be taken out.
LEMMA SumOfNone == \A f : Sum(f, {}) = 0
<1> SUFFICES ASSUME NEW f PROVE Sum(f, {}) = 0
  OBVIOUS
<1>1. PICK it : IsSum(it, f, {})
  BY SumExists, FS_EmptySet
<1> QED
  BY <1>1, SumIs, SumStep, FS_EmptySet

LEMMA SumUnfolds ==
  ASSUME NEW S, IsFiniteSet(S), S # {}, NEW f
  PROVE  First(S) \in S /\ Sum(f, S) = f[First(S)] + Sum(f, S \ {First(S)})
<1>1. PICK it : IsSum(it, f, S)
  BY SumExists
<1>2. /\ First(S) \in S /\ S \ {First(S)} \in SUBSET S
      /\ it[S] = f[First(S)] + it[S \ {First(S)}]
  BY <1>1, SumStep
<1> QED
  BY <1>1, <1>2, SumsParts

LEMMA SumTyped ==
  ASSUME NEW S, IsFiniteSet(S), NEW f, \A x \in S : f[x] \in Int
  PROVE  Sum(f, S) \in Int
<1> DEFINE Bad == {T \in SUBSET S : Sum(f, T) \notin Int}
<1>1. SUFFICES ASSUME Bad # {} PROVE FALSE
  OBVIOUS
<1>2. PICK T \in Bad : \A x \in T : T \ {x} \notin Bad
  BY <1>1, SmallestSet
<1>3. T \in SUBSET S /\ Sum(f, T) \notin Int /\ IsFiniteSet(T)
  BY <1>2, FS_Subset
<1>4. T # {}
  BY <1>3, SumOfNone
<1>5. First(T) \in T /\ Sum(f, T) = f[First(T)] + Sum(f, T \ {First(T)})
  BY <1>3, <1>4, SumUnfolds
<1>6. Sum(f, T \ {First(T)}) \in Int
  BY <1>2, <1>3, <1>5
<1> QED
  BY <1>3, <1>5, <1>6

LEMMA SumWithout ==
  ASSUME NEW S, IsFiniteSet(S), NEW f, \A x \in S : f[x] \in Int, NEW e \in S
  PROVE  Sum(f, S) = f[e] + Sum(f, S \ {e})
<1> DEFINE Bad == {T \in SUBSET S : \E x \in T : Sum(f, T) # f[x] + Sum(f, T \ {x})}
<1>1. SUFFICES ASSUME Bad # {} PROVE FALSE
  BY S \in SUBSET S
<1>2. PICK T \in Bad : \A x \in T : T \ {x} \notin Bad
  BY <1>1, SmallestSet
<1>3. PICK x \in T : Sum(f, T) # f[x] + Sum(f, T \ {x})
  BY <1>2
<1>4. T \in SUBSET S /\ IsFiniteSet(T)
  BY <1>2, FS_Subset
<1> DEFINE c == First(T)
           U == (T \ {c}) \ {x}
<1>5. c \in T /\ Sum(f, T) = f[c] + Sum(f, T \ {c})
  BY <1>4, <1>3, SumUnfolds
<1>6. c # x
  BY <1>3, <1>5
<1>7. /\ \A y \in T \ {c} : Sum(f, T \ {c}) = f[y] + Sum(f, (T \ {c}) \ {y})
      /\ \A y \in T \ {x} : Sum(f, T \ {x}) = f[y] + Sum(f, (T \ {x}) \ {y})
  <2>1. T \ {c} \in SUBSET S /\ T \ {x} \in SUBSET S
    BY <1>4
  <2>2. \A A \in (SUBSET S) \ Bad : \A y \in A : Sum(f, A) = f[y] + Sum(f, A \ {y})
    OBVIOUS
  <2>3. T \ {c} \in (SUBSET S) \ Bad /\ T \ {x} \in (SUBSET S) \ Bad
    BY <1>2, <1>5, <2>1
  <2> HIDE DEF Bad, c
  <2> QED
    BY <2>2, <2>3
<1>8. (T \ {x}) \ {c} = U
  <2> HIDE DEF Bad, c
  <2> QED
    OBVIOUS
<1>9. Sum(f, T \ {c}) = f[x] + Sum(f, U) /\ Sum(f, T \ {x}) = f[c] + Sum(f, U)
  BY <1>5, <1>6, <1>7, <1>8
<1>10. Sum(f, U) \in Int /\ f[c] \in Int /\ f[x] \in Int
  BY <1>4, <1>5, SumTyped, FS_Subset
<1> HIDE DEF c, U
<1> QED
  BY <1>3, <1>5, <1>9, <1>10
-----------------------------------------------------------------------------
\* Of the sums of two functions, and over two sets.
LEMMA SumOfSame ==
  ASSUME NEW S, IsFiniteSet(S), NEW f, NEW g, \A x \in S : f[x] = g[x]
  PROVE  Sum(f, S) = Sum(g, S)
<1>1. PICK it : IsSum(it, f, S)
  BY SumExists
<1>2. PICK jt : IsSum(jt, g, S)
  BY SumExists
<1>3. it[S] = jt[S]
  BY <1>1, <1>2, SumsAgree
<1> QED
  BY <1>1, <1>2, <1>3, SumIs

LEMMA SumAtMost ==
  ASSUME NEW S, IsFiniteSet(S), NEW f, NEW g,
         \A x \in S : f[x] \in Int /\ g[x] \in Int /\ f[x] <= g[x]
  PROVE  Sum(f, S) <= Sum(g, S)
<1> DEFINE Bad == {T \in SUBSET S : ~(Sum(f, T) <= Sum(g, T))}
<1>1. SUFFICES ASSUME Bad # {} PROVE FALSE
  BY S \in SUBSET S
<1>2. PICK T \in Bad : \A x \in T : T \ {x} \notin Bad
  BY <1>1, SmallestSet
<1>3. T \in SUBSET S /\ ~(Sum(f, T) <= Sum(g, T)) /\ IsFiniteSet(T)
  BY <1>2, FS_Subset
<1>4. PICK x \in T : TRUE
  BY <1>3, SumOfNone
<1> DEFINE U == T \ {x}
<1>5. U \in SUBSET S /\ IsFiniteSet(U) /\ Sum(f, U) <= Sum(g, U)
  BY <1>2, <1>3, <1>4, FS_Subset
<1>6. Sum(f, T) = f[x] + Sum(f, U) /\ Sum(g, T) = g[x] + Sum(g, U)
  BY <1>3, SumWithout
<1> HIDE DEF U
<1>7. Sum(f, U) \in Int /\ Sum(g, U) \in Int
  BY <1>5, SumTyped
<1> QED
  BY <1>3, <1>4, <1>5, <1>6, <1>7

LEMMA SumOfBoth ==
  ASSUME NEW S, IsFiniteSet(S), NEW f, NEW g, NEW h,
         \A x \in S : f[x] \in Int /\ g[x] \in Int /\ h[x] = f[x] + g[x]
  PROVE  Sum(h, S) = Sum(f, S) + Sum(g, S)
<1> DEFINE Bad == {T \in SUBSET S : Sum(h, T) # Sum(f, T) + Sum(g, T)}
<1>1. SUFFICES ASSUME Bad # {} PROVE FALSE
  BY S \in SUBSET S
<1>2. PICK T \in Bad : \A x \in T : T \ {x} \notin Bad
  BY <1>1, SmallestSet
<1>3. T \in SUBSET S /\ Sum(h, T) # Sum(f, T) + Sum(g, T) /\ IsFiniteSet(T)
  BY <1>2, FS_Subset
<1>4. PICK x \in T : TRUE
  BY <1>3, SumOfNone
<1> DEFINE U == T \ {x}
<1>5. U \in SUBSET S /\ IsFiniteSet(U) /\ Sum(h, U) = Sum(f, U) + Sum(g, U)
  BY <1>2, <1>3, <1>4, FS_Subset
<1>6. /\ Sum(f, T) = f[x] + Sum(f, U) /\ Sum(g, T) = g[x] + Sum(g, U)
      /\ Sum(h, T) = h[x] + Sum(h, U)
  BY <1>3, SumWithout
<1> HIDE DEF U
<1>7. Sum(f, U) \in Int /\ Sum(g, U) \in Int
  BY <1>5, SumTyped
<1> QED
  BY <1>3, <1>4, <1>5, <1>6, <1>7

\* A set is summed in two parts.
LEMMA SumOfParts ==
  ASSUME NEW S, IsFiniteSet(S), NEW f, \A x \in S : f[x] \in Int, NEW P \in SUBSET S
  PROVE  Sum(f, S) = Sum(f, P) + Sum(f, S \ P)
<1> DEFINE Bad == {T \in SUBSET S : Sum(f, T) # Sum(f, T \cap P) + Sum(f, T \ P)}
<1>1. SUFFICES ASSUME Bad # {} PROVE FALSE
  BY S \in SUBSET S, S \cap P = P
<1>2. PICK T \in Bad : \A x \in T : T \ {x} \notin Bad
  BY <1>1, SmallestSet
<1>3. /\ T \in SUBSET S /\ Sum(f, T) # Sum(f, T \cap P) + Sum(f, T \ P)
      /\ IsFiniteSet(T) /\ IsFiniteSet(T \cap P) /\ IsFiniteSet(T \ P)
  BY <1>2, FS_Subset
<1>4. PICK x \in T : TRUE
  <2>1. SUFFICES ASSUME T = {} PROVE FALSE
    OBVIOUS
  <2>2. T \cap P = {} /\ T \ P = {}
    BY <2>1
  <2>3. Sum(f, T) = 0 /\ Sum(f, T \cap P) = 0 /\ Sum(f, T \ P) = 0
    BY <2>1, <2>2, SumOfNone
  <2> QED
    BY <1>3, <2>3
<1> DEFINE U == T \ {x}
<1>5. U \in SUBSET S /\ Sum(f, U) = Sum(f, U \cap P) + Sum(f, U \ P)
  BY <1>2, <1>3, <1>4
<1>6. Sum(f, T) = f[x] + Sum(f, U)
  BY <1>3, SumWithout
<1>7. /\ Sum(f, U \cap P) \in Int /\ Sum(f, U \ P) \in Int /\ f[x] \in Int
      /\ IsFiniteSet(U \cap P) /\ IsFiniteSet(U \ P)
  BY <1>3, <1>5, SumTyped, FS_Subset
<1>8. CASE x \in P
  <2>1. (T \cap P) \ {x} = U \cap P /\ T \ P = U \ P /\ x \in T \cap P
    BY <1>8
  <2>2. Sum(f, T \cap P) = f[x] + Sum(f, U \cap P)
    BY <1>3, <2>1, SumWithout
  <2>3. Sum(f, T \ P) = Sum(f, U \ P)
    BY <2>1
  <2> HIDE DEF U
  <2> QED
    BY <1>3, <1>5, <1>6, <1>7, <2>2, <2>3
<1>9. CASE x \notin P
  <2>1. (T \ P) \ {x} = U \ P /\ T \cap P = U \cap P /\ x \in T \ P
    BY <1>9
  <2>2. Sum(f, T \ P) = f[x] + Sum(f, U \ P)
    BY <1>3, <2>1, SumWithout
  <2>3. Sum(f, T \cap P) = Sum(f, U \cap P)
    BY <2>1
  <2> HIDE DEF U
  <2> QED
    BY <1>3, <1>5, <1>6, <1>7, <2>2, <2>3
<1> QED
  BY <1>8, <1>9

LEMMA SumOfLess ==
  ASSUME NEW S, IsFiniteSet(S), NEW f, \A x \in S : f[x] \in Nat
  PROVE  Sum(f, S) \in Nat
<1> DEFINE Bad == {T \in SUBSET S : Sum(f, T) \notin Nat}
<1>1. SUFFICES ASSUME Bad # {} PROVE FALSE
  BY S \in SUBSET S
<1>2. PICK T \in Bad : \A x \in T : T \ {x} \notin Bad
  BY <1>1, SmallestSet
<1>3. T \in SUBSET S /\ Sum(f, T) \notin Nat /\ IsFiniteSet(T)
  BY <1>2, FS_Subset
<1>4. PICK x \in T : TRUE
  BY <1>3, SumOfNone
<1>5. Sum(f, T) = f[x] + Sum(f, T \ {x})
  BY <1>3, SumWithout
<1>6. Sum(f, T \ {x}) \in Nat /\ f[x] \in Nat
  BY <1>2, <1>3, <1>4
<1> QED
  BY <1>3, <1>5, <1>6
-----------------------------------------------------------------------------
\* Sets of numbers that are bounded have a greatest one.
LEMMA GreatestNumber ==
  ASSUME NEW n \in Nat, NEW N \in SUBSET (0..n), N # {}
  PROVE  \E m \in N : \A k \in N : k <= m
<1> DEFINE M == {n - k : k \in N}
<1>1. M \in SUBSET Nat /\ M # {}
  <2>1. \A k \in N : n - k \in Nat
    OBVIOUS
  <2> QED
    BY <2>1
<1>2. PICK l \in M : \A j \in M : l <= j
  BY <1>1, SmallestNumber
<1>3. PICK m \in N : l = n - m
  BY <1>2
<1>4. ASSUME NEW k \in N PROVE k <= m
  <2>1. n - m <= n - k
    BY <1>2, <1>3
  <2> QED
    BY <2>1
<1> QED
  BY <1>4

\* What is defined from 0 up, each value by the one before, exists.
Upwards(f, n, T, x, g) ==
  f \in [0..n -> T] /\ f[0] = x /\ \A i \in 1..n : f[i] = g[i][f[i - 1]]

LEMMA UpwardsExists ==
  ASSUME NEW n \in Nat, NEW T, NEW x \in T, NEW g \in [1..n -> [T -> T]]
  PROVE  \E f : Upwards(f, n, T, x, g)
<1> SUFFICES \E f \in [0..n -> T] : f[0] = x /\ \A i \in 1..n : f[i] = g[i][f[i - 1]]
  BY DEF Upwards
<1> DEFINE UpTo(m, f) == f[0] = x /\ \A i \in 1..m : f[i] = g[i][f[i - 1]]
           Bad == {m \in 0..n : ~\E f \in [0..n -> T] : UpTo(m, f)}
<1>1. SUFFICES ASSUME Bad # {} PROVE FALSE
  <2>1. n \in 0..n
    OBVIOUS
  <2> QED
    BY <2>1
<1>2. PICK m \in Bad : \A k \in Bad : m <= k
  <2>1. Bad \in SUBSET Nat
    OBVIOUS
  <2> HIDE DEF Bad
  <2> QED
    BY <1>1, <2>1, SmallestNumber
<1>3. m # 0
  <2>1. [i \in 0..n |-> x] \in [0..n -> T] /\ UpTo(0, [i \in 0..n |-> x])
    OBVIOUS
  <2> QED
    BY <1>2, <2>1
<1>4. m - 1 \in 0..n /\ m - 1 \notin Bad /\ m \in 1..n /\ m \in 0..n
  <2>1. m \in 0..n
    BY <1>2
  <2>2. m - 1 \notin Bad
    <3> HIDE DEF Bad
    <3> QED
      BY <1>2, <2>1
  <2> QED
    BY <1>3, <2>1, <2>2
<1>5. PICK f \in [0..n -> T] : UpTo(m - 1, f)
  BY <1>4
<1> DEFINE h == [f EXCEPT ![m] = g[m][f[m - 1]]]
<1>6. h \in [0..n -> T]
  BY <1>4
<1>7. \A i \in 0..n : h[i] = IF i = m THEN g[m][f[m - 1]] ELSE f[i]
  OBVIOUS
<1> HIDE DEF h
<1>8. UpTo(m, h)
  <2>1. h[0] = x
    BY <1>4, <1>5, <1>7
  <2>2. ASSUME NEW i \in 1..m PROVE h[i] = g[i][h[i - 1]]
    <3>1. i \in 0..n /\ i - 1 \in 0..n /\ h[i - 1] = f[i - 1]
      BY <1>4, <1>7
    <3>2. CASE i = m
      BY <1>7, <3>1, <3>2
    <3>3. CASE i # m
      <4>1. i \in 1..m - 1
        BY <1>4, <3>3
      <4> QED
        BY <1>5, <1>7, <3>1, <3>3, <4>1
    <3> QED
      BY <3>2, <3>3
  <2> QED
    BY <2>1, <2>2
<1> QED
  BY <1>2, <1>6, <1>8

\* What is defined from n down, each value by those after it, exists.
Downwards(f, n, T, g) == f \in [0..n -> T] /\ \A q \in 0..n : f[q] = g[q][f]

LEMMA DownwardsExists ==
  ASSUME NEW n \in Nat, NEW T, NEW x \in T, NEW g \in [0..n -> [[0..n -> T] -> T]],
         \A q \in 0..n : \A e, f \in [0..n -> T] :
           (\A r \in (q + 1)..n : e[r] = f[r]) => g[q][e] = g[q][f]
  PROVE  \E f : Downwards(f, n, T, g)
<1> SUFFICES \E f \in [0..n -> T] : \A q \in 0..n : f[q] = g[q][f]
  BY DEF Downwards
<1> DEFINE DownTo(m, f) == \A q \in m..n : f[q] = g[q][f]
           Bad == {m \in 0..n : ~\E f \in [0..n -> T] : DownTo(m, f)}
<1>1. SUFFICES ASSUME Bad # {} PROVE FALSE
  <2>1. 0 \in 0..n
    OBVIOUS
  <2> QED
    BY <2>1
<1>2. PICK m \in Bad : \A k \in Bad : k <= m
  <2>1. Bad \in SUBSET (0..n)
    OBVIOUS
  <2> HIDE DEF Bad
  <2> QED
    BY <1>1, <2>1, GreatestNumber
<1>3. PICK f \in [0..n -> T] : DownTo(m + 1, f)
  <2>1. CASE m = n
    <3>1. [i \in 0..n |-> x] \in [0..n -> T] /\ DownTo(m + 1, [i \in 0..n |-> x])
      BY <2>1
    <3> QED
      BY <3>1
  <2>2. CASE m # n
    <3>1. m \in 0..n
      BY <1>2
    <3>2. m + 1 \notin Bad
      <4> HIDE DEF Bad
      <4> QED
        BY <1>2, <3>1
    <3>3. m + 1 \in 0..n
      BY <2>2, <3>1
    <3> QED
      BY <3>2, <3>3
  <2> QED
    BY <2>1, <2>2
<1> DEFINE h == [f EXCEPT ![m] = g[m][f]]
<1>4. h \in [0..n -> T]
  BY <1>2
<1>5. \A i \in 0..n : h[i] = IF i = m THEN g[m][f] ELSE f[i]
  OBVIOUS
<1> HIDE DEF h
<1>6. ASSUME NEW q \in m..n PROVE h[q] = g[q][h]
  <2>1. q \in 0..n
    BY <1>2
  <2>2. \A r \in (q + 1)..n : h[r] = f[r]
    BY <1>5, <2>1
  <2>3. g[q][h] = g[q][f]
    BY <1>4, <2>1, <2>2
  <2>4. CASE q = m
    BY <1>5, <2>1, <2>3, <2>4
  <2>5. CASE q # m
    <3>1. q \in (m + 1)..n
      BY <2>5
    <3> QED
      BY <1>3, <1>5, <2>1, <2>3, <2>5, <3>1
  <2> QED
    BY <2>4, <2>5
<1> QED
  BY <1>2, <1>4, <1>6
=============================================================================
