---------------------------- MODULE SumTheorems ----------------------------
(***************************************************************************)
(* Facts that the proofs of several modules need: least and greatest       *)
(* elements, a minimal set among finite ones, the image of a finite set;   *)
(* and about SumFunctionOnSet, the sum of the values a function has on a   *)
(* finite set, of which the loads of the models are made.  The fold picks  *)
(* the elements in an order nobody knows; the lemmas say that the order    *)
(* does not matter.  Induction is by a smallest counterexample, which the  *)
(* well-foundedness of < and of strict inclusion provide.                  *)
(***************************************************************************)
EXTENDS Integers, FiniteSets, Functions, FiniteSetTheorems, TLAPS

-----------------------------------------------------------------------------
(* Induction *)

\* A non-empty set of naturals has a least element.
LEMMA LeastNatural ==
  ASSUME NEW T \in SUBSET Nat, T # {}
  PROVE  \E n \in T : \A m \in T : n <= m
<1>1. PICK n \in T : \A m \in T : ~ (<<m, n>> \in OpToRel(<, Nat))
  BY NatLessThanWellFounded, WFMin
<1>2. ASSUME NEW m \in T, m < n PROVE <<m, n>> \in OpToRel(<, Nat)
  BY <1>2 DEF OpToRel
<1>3. \A m \in T : ~ (m < n)
  BY <1>1, <1>2
<1> QED BY <1>3

HasMinimal(F) == \E T \in F : \A U \in F : U \subseteq T => U = T

\* A non-empty family of subsets of a finite set has a minimal one.
LEMMA MinimalSubset ==
  ASSUME NEW S, IsFiniteSet(S), NEW F, F \subseteq SUBSET S, F # {}
  PROVE  HasMinimal(F)
<1>1. IsWellFoundedOn(StrictSubsetOrdering(S), SUBSET S)
  BY FS_StrictSubsetOrderingWellFounded, FS_FiniteSubsetsOfFinite
<1>2. \E T \in F : \A U \in F : ~ (<<U, T>> \in StrictSubsetOrdering(S))
  BY <1>1, WFMin
<1> QED BY <1>2 DEF StrictSubsetOrdering, HasMinimal

\* A non-empty finite set of integers has a greatest element.
LEMMA GreatestInteger ==
  ASSUME NEW S, S \subseteq Int, IsFiniteSet(S), S # {}
  PROVE  \E m \in S : \A n \in S : n <= m
<1> DEFINE Below(T) == \E m \in T : \A n \in T : n <= m
           Bad == {T \in SUBSET S : T # {} /\ ~ Below(T)}
<1>1. SUFFICES ASSUME Bad # {} PROVE FALSE
  OBVIOUS
<1>2. HasMinimal(Bad)
  <2>1. Bad \subseteq SUBSET S OBVIOUS
  <2> HIDE DEF Bad
  <2> QED BY <1>1, <2>1, MinimalSubset
<1>3. PICK T \in Bad : \A U \in Bad : U \subseteq T => U = T
  BY <1>2 DEF HasMinimal
<1>4. PICK x \in T : TRUE
  BY <1>3
<1>5. CASE T \ {x} = {}
  BY <1>3, <1>4, <1>5
<1>6. CASE T \ {x} # {}
  <2>1. T \ {x} \notin Bad BY <1>3, <1>4
  <2>2. PICK m \in T \ {x} : \A n \in T \ {x} : n <= m BY <1>3, <1>6, <2>1
  <2>3. m \in Int /\ x \in Int BY <1>3, <1>4, <2>2
  <2>4. \A n \in T : n \in Int BY <1>3
  <2>5. CASE x <= m BY <1>3, <2>2, <2>5
  <2>6. CASE m <= x BY <1>3, <1>4, <2>2, <2>3, <2>4, <2>6
  <2> QED BY <2>3, <2>5, <2>6
<1> QED BY <1>5, <1>6

\* The values of a function on a finite set are a finite set.
LEMMA FiniteImage ==
  ASSUME NEW S, IsFiniteSet(S), NEW f
  PROVE  IsFiniteSet({f[x] : x \in S})
<1> DEFINE g == [x \in S |-> f[x]]
<1>1. g \in Surjection(S, {f[x] : x \in S})
  BY DEF Surjection
<1> QED BY <1>1, FS_Surjection

\* A non-empty finite set of integers has a least element.
LEMMA LeastInteger ==
  ASSUME NEW S, S \subseteq Int, IsFiniteSet(S), S # {}
  PROVE  \E m \in S : \A n \in S : m <= n
<1> DEFINE negative == [n \in S |-> -n]
           T == {negative[n] : n \in S}
<1>1. T \subseteq Int /\ T # {}
  <2>1. \A n \in S : negative[n] \in Int
    OBVIOUS
  <2> QED BY <2>1
<1>2. IsFiniteSet(T)
  <2> HIDE DEF negative
  <2> QED BY FiniteImage
<1>3. PICK m \in T : \A n \in T : n <= m
  <2> HIDE DEF T
  <2> QED BY <1>1, <1>2, GreatestInteger
<1>4. PICK k \in S : m = -k
  BY <1>3
<1>5. \A n \in S : negative[n] = -n /\ negative[n] \in T
  OBVIOUS
<1>6. \A n \in S : k <= n
  BY <1>3, <1>4, <1>5
<1> QED BY <1>4, <1>6

-----------------------------------------------------------------------------
(* The recursion inside SumFunctionOnSet *)

\* The element of s that the fold takes first.
First(s) == CHOOSE x \in s : TRUE

\* One unfolding of the recursion, f being the sums of smaller sets.
SumStep(w, f, s) == IF s = {} THEN 0 ELSE w[First(s)] + f[s \ {First(s)}]

\* f holds the sums of the subsets of S.
IsSum(w, S, f) == f = [s \in SUBSET S |-> SumStep(w, f, s)]

\* f holds the sums of the subsets of S with at most n elements.
Sums(S, n) == {s \in SUBSET S : Cardinality(s) <= n}

IsSumUpTo(w, S, n, f) == f = [s \in Sums(S, n) |-> SumStep(w, f, s)]

LEMMA FirstOfSet == \A s : s # {} => First(s) \in s
  BY DEF First

\* SumFunctionOnSet picks one of the functions that satisfy the recursion.
LEMMA SumUnfolded ==
  ASSUME NEW w, NEW S
  PROVE  SumFunctionOnSet(w, S) = (CHOOSE f : IsSum(w, S, f))[S]
  BY DEF SumFunctionOnSet, FoldFunctionOnSet, MapThenFoldSet, IsSum, SumStep, First

\* There is such a function for every finite set.
LEMMA SumExists ==
  ASSUME NEW w, NEW S, IsFiniteSet(S)
  PROVE  \E f : IsSum(w, S, f)
<1> DEFINE Bad == {n \in Nat : ~ \E f : IsSumUpTo(w, S, n, f)}
<1>1. Bad = {}
  <2> SUFFICES ASSUME Bad # {} PROVE FALSE
    OBVIOUS
  <2>1. PICK n \in Bad : \A m \in Bad : n <= m
    <3>1. Bad \subseteq Nat OBVIOUS
    <3> HIDE DEF Bad
    <3> QED BY <3>1, LeastNatural
  <2>2. \A s \in SUBSET S : IsFiniteSet(s) /\ Cardinality(s) \in Nat
    BY FS_Subset, FS_CardinalityType
  <2>3. CASE n = 0
    <3> DEFINE f == [s \in Sums(S, 0) |-> 0]
    <3>1. \A s \in Sums(S, 0) : s = {}
      BY <2>2, FS_EmptySet DEF Sums
    <3>2. IsSumUpTo(w, S, 0, f)
      BY <3>1 DEF IsSumUpTo, SumStep
    <3> QED BY <2>1, <2>3, <3>2
  <2>4. CASE n # 0
    <3>1. n - 1 \in Nat /\ n - 1 \notin Bad
      BY <2>1, <2>4
    <3>2. PICK f : IsSumUpTo(w, S, n - 1, f)
      BY <3>1
    <3> DEFINE g == [s \in Sums(S, n) |-> SumStep(w, f, s)]
    <3>3. ASSUME NEW s \in Sums(S, n - 1) PROVE g[s] = f[s]
      <4>1. s \in Sums(S, n) BY <2>1, <2>2 DEF Sums
      <4> QED BY <3>2, <4>1 DEF IsSumUpTo
    <3>4. ASSUME NEW s \in Sums(S, n), s # {} PROVE s \ {First(s)} \in Sums(S, n - 1)
      BY <2>1, <2>2, <3>1, <3>4, FirstOfSet, FS_RemoveElement DEF Sums
    <3>5. ASSUME NEW s \in Sums(S, n) PROVE SumStep(w, g, s) = SumStep(w, f, s)
      <4> HIDE DEF g
      <4>1. CASE s = {} BY <4>1 DEF SumStep
      <4>2. CASE s # {}
        <5>1. g[s \ {First(s)}] = f[s \ {First(s)}] BY <3>3, <3>4, <4>2
        <5> QED BY <4>2, <5>1 DEF SumStep
      <4> QED BY <4>1, <4>2
    <3>6. IsSumUpTo(w, S, n, g)
      BY <3>5 DEF IsSumUpTo
    <3> QED BY <2>1, <3>6
  <2> QED BY <2>3, <2>4
<1>2. Cardinality(S) \in Nat
  BY FS_CardinalityType
<1>3. Sums(S, Cardinality(S)) = SUBSET S
  BY FS_Subset DEF Sums
<1>4. PICK f : IsSumUpTo(w, S, Cardinality(S), f)
  BY <1>1, <1>2
<1> QED BY <1>3, <1>4 DEF IsSumUpTo, IsSum

\* The sums of the common subsets do not depend on the set they are taken in.
LEMMA SumUnique ==
  ASSUME NEW w, NEW S, IsFiniteSet(S), NEW f, IsSum(w, S, f),
         NEW T \in SUBSET S, NEW g, IsSum(w, T, g)
  PROVE  f[T] = g[T]
<1> DEFINE Bad == {s \in SUBSET T : f[s] # g[s]}
<1>1. Bad = {}
  <2> SUFFICES ASSUME Bad # {} PROVE FALSE
    OBVIOUS
  <2>1. HasMinimal(Bad)
    <3>1. Bad \subseteq SUBSET S OBVIOUS
    <3> HIDE DEF Bad
    <3> QED BY <3>1, MinimalSubset
  <2>2. PICK s \in Bad : \A u \in Bad : u \subseteq s => u = s
    BY <2>1 DEF HasMinimal
  <2>3. f[s] = SumStep(w, f, s) /\ g[s] = SumStep(w, g, s)
    BY <2>2 DEF IsSum
  <2>4. CASE s = {}
    BY <2>2, <2>3, <2>4 DEF SumStep
  <2>5. CASE s # {}
    <3>1. s \ {First(s)} \notin Bad BY <2>2, <2>5, FirstOfSet
    <3>2. f[s \ {First(s)}] = g[s \ {First(s)}] BY <2>2, <3>1
    <3> QED BY <2>2, <2>3, <3>2 DEF SumStep
  <2> QED BY <2>4, <2>5
<1> QED BY <1>1

-----------------------------------------------------------------------------
(* Sums *)

\* The sum over the empty set is zero; any other is the value of its first
\* element and the sum over the rest.
LEMMA SumRecursion ==
  ASSUME NEW w, NEW S, IsFiniteSet(S)
  PROVE  /\ S = {} => SumFunctionOnSet(w, S) = 0
         /\ S # {} => /\ First(S) \in S
                     /\ SumFunctionOnSet(w, S) =
                            w[First(S)] + SumFunctionOnSet(w, S \ {First(S)})
<1> DEFINE f == CHOOSE e : IsSum(w, S, e)
           T == S \ {First(S)}
           g == CHOOSE e : IsSum(w, T, e)
<1>1. SumFunctionOnSet(w, S) = f[S] /\ SumFunctionOnSet(w, T) = g[T]
  BY SumUnfolded
<1>2. IsFiniteSet(T)
  BY FS_Subset
<1>3. IsSum(w, S, f) /\ IsSum(w, T, g)
  BY <1>2, SumExists
<1> HIDE DEF f, g
<1>4. f[S] = SumStep(w, f, S)
  BY <1>3 DEF IsSum
<1>5. f[T] = g[T]
  BY <1>2, <1>3, SumUnique
<1> QED BY <1>1, <1>4, <1>5, FirstOfSet DEF SumStep

\* The sum over the empty set.
LEMMA SumEmpty ==
  ASSUME NEW w
  PROVE  SumFunctionOnSet(w, {}) = 0
  BY SumRecursion, FS_EmptySet

\* A sum of integers is an integer.
LEMMA SumType ==
  ASSUME NEW w, NEW S, IsFiniteSet(S), \A x \in S : w[x] \in Int
  PROVE  SumFunctionOnSet(w, S) \in Int
<1> DEFINE Bad == {T \in SUBSET S : SumFunctionOnSet(w, T) \notin Int}
<1> SUFFICES ASSUME Bad # {} PROVE FALSE
  OBVIOUS
<1>1. HasMinimal(Bad)
  <2>1. Bad \subseteq SUBSET S OBVIOUS
  <2> HIDE DEF Bad
  <2> QED BY <2>1, MinimalSubset
<1>2. PICK T \in Bad : \A U \in Bad : U \subseteq T => U = T
  BY <1>1 DEF HasMinimal
<1>3. IsFiniteSet(T)
  BY <1>2, FS_Subset
<1>a. SumFunctionOnSet(w, {}) \in Int
  BY SumEmpty
<1>4. T # {}
  BY <1>2, <1>a
<1>5. First(T) \in T /\ SumFunctionOnSet(w, T) = w[First(T)] + SumFunctionOnSet(w, T \ {First(T)})
  BY <1>3, <1>4, SumRecursion
<1>6. SumFunctionOnSet(w, T \ {First(T)}) \in Int
  BY <1>2, <1>5
<1> QED BY <1>2, <1>5, <1>6

\* Any element can be taken out first.
LEMMA SumRemove ==
  ASSUME NEW w, NEW S, IsFiniteSet(S), \A x \in S : w[x] \in Int, NEW x \in S
  PROVE  SumFunctionOnSet(w, S) = w[x] + SumFunctionOnSet(w, S \ {x})
<1> DEFINE Sum(T) == SumFunctionOnSet(w, T)
           Bad == {T \in SUBSET S : \E y \in T : Sum(T) # w[y] + Sum(T \ {y})}
<1> SUFFICES ASSUME Bad # {} PROVE FALSE
  OBVIOUS
<1>1. HasMinimal(Bad)
  <2>1. Bad \subseteq SUBSET S OBVIOUS
  <2> HIDE DEF Bad
  <2> QED BY <2>1, MinimalSubset
<1>2. PICK T \in Bad : \A U \in Bad : U \subseteq T => U = T
  BY <1>1 DEF HasMinimal
<1>3. PICK y \in T : Sum(T) # w[y] + Sum(T \ {y})
  BY <1>2
<1>4. \A U \in SUBSET T : IsFiniteSet(U) /\ Sum(U) \in Int
  BY <1>2, FS_Subset, SumType
<1> HIDE DEF Sum
<1>5. First(T) \in T /\ Sum(T) = w[First(T)] + Sum(T \ {First(T)})
  BY <1>2, <1>3, <1>4, SumRecursion DEF Sum
<1>6. CASE First(T) = y
  BY <1>3, <1>5, <1>6
<1>7. CASE First(T) # y
  <2> DEFINE R == (T \ {y}) \ {First(T)}
  <2>1. T \ {First(T)} \notin Bad /\ T \ {y} \notin Bad
    BY <1>2, <1>3, <1>5
  <2>2. R = (T \ {First(T)}) \ {y}
    OBVIOUS
  <2>3. Sum(T \ {First(T)}) = w[y] + Sum(R)
    BY <1>2, <1>3, <1>7, <2>1, <2>2
  <2>4. Sum(T \ {y}) = w[First(T)] + Sum(R)
    BY <1>2, <1>5, <1>7, <2>1
  <2>5. w[y] \in Int /\ w[First(T)] \in Int /\ Sum(R) \in Int
    BY <1>2, <1>3, <1>4, <1>5
  <2> QED BY <1>3, <1>5, <2>3, <2>4, <2>5
<1> QED BY <1>6, <1>7

\* One more element adds its value.
LEMMA SumAdd ==
  ASSUME NEW w, NEW S, IsFiniteSet(S), NEW x, x \notin S,
         \A y \in S \union {x} : w[y] \in Int
  PROVE  SumFunctionOnSet(w, S \union {x}) = w[x] + SumFunctionOnSet(w, S)
<1>1. IsFiniteSet(S \union {x}) BY FS_AddElement
<1>2. (S \union {x}) \ {x} = S OBVIOUS
<1> QED BY <1>1, <1>2, SumRemove

\* The sum depends on the values at the elements only.
LEMMA SumEqual ==
  ASSUME NEW v, NEW w, NEW S, IsFiniteSet(S), \A x \in S : v[x] = w[x]
  PROVE  SumFunctionOnSet(v, S) = SumFunctionOnSet(w, S)
<1> DEFINE Bad == {T \in SUBSET S : SumFunctionOnSet(v, T) # SumFunctionOnSet(w, T)}
<1> SUFFICES ASSUME Bad # {} PROVE FALSE
  OBVIOUS
<1>1. HasMinimal(Bad)
  <2>1. Bad \subseteq SUBSET S OBVIOUS
  <2> HIDE DEF Bad
  <2> QED BY <2>1, MinimalSubset
<1>2. PICK T \in Bad : \A U \in Bad : U \subseteq T => U = T
  BY <1>1 DEF HasMinimal
<1>3. IsFiniteSet(T)
  BY <1>2, FS_Subset
<1>4. T # {}
  BY <1>2, SumEmpty
<1>5. /\ First(T) \in T
      /\ SumFunctionOnSet(v, T) = v[First(T)] + SumFunctionOnSet(v, T \ {First(T)})
      /\ SumFunctionOnSet(w, T) = w[First(T)] + SumFunctionOnSet(w, T \ {First(T)})
  BY <1>3, <1>4, SumRecursion
<1>6. SumFunctionOnSet(v, T \ {First(T)}) = SumFunctionOnSet(w, T \ {First(T)})
  BY <1>2, <1>5
<1> QED BY <1>2, <1>5, <1>6

\* A sum of naturals is a natural.
LEMMA SumNat ==
  ASSUME NEW w, NEW S, IsFiniteSet(S), \A x \in S : w[x] \in Nat
  PROVE  SumFunctionOnSet(w, S) \in Nat
<1> DEFINE Bad == {T \in SUBSET S : SumFunctionOnSet(w, T) \notin Nat}
<1> SUFFICES ASSUME Bad # {} PROVE FALSE
  OBVIOUS
<1>1. HasMinimal(Bad)
  <2>1. Bad \subseteq SUBSET S OBVIOUS
  <2> HIDE DEF Bad
  <2> QED BY <2>1, MinimalSubset
<1>2. PICK T \in Bad : \A U \in Bad : U \subseteq T => U = T
  BY <1>1 DEF HasMinimal
<1>3. IsFiniteSet(T)
  BY <1>2, FS_Subset
<1>a. SumFunctionOnSet(w, {}) \in Nat
  BY SumEmpty
<1>4. T # {}
  BY <1>2, <1>a
<1>5. First(T) \in T /\ SumFunctionOnSet(w, T) = w[First(T)] + SumFunctionOnSet(w, T \ {First(T)})
  BY <1>3, <1>4, SumRecursion
<1>6. SumFunctionOnSet(w, T \ {First(T)}) \in Nat
  BY <1>2, <1>5
<1> QED BY <1>2, <1>5, <1>6

\* A part and the rest of a set add up to the sum of the whole.
LEMMA SumSplit ==
  ASSUME NEW w, NEW S, IsFiniteSet(S), \A x \in S : w[x] \in Int, NEW R \in SUBSET S
  PROVE  SumFunctionOnSet(w, S) = SumFunctionOnSet(w, R) + SumFunctionOnSet(w, S \ R)
<1> DEFINE Sum(T) == SumFunctionOnSet(w, T)
           Bad == {T \in SUBSET S : Sum(S) # Sum(T) + Sum(S \ T)}
<1> SUFFICES ASSUME Bad # {} PROVE FALSE
  OBVIOUS
<1>1. HasMinimal(Bad)
  <2>1. Bad \subseteq SUBSET S OBVIOUS
  <2> HIDE DEF Bad
  <2> QED BY <2>1, MinimalSubset
<1>2. PICK T \in Bad : \A U \in Bad : U \subseteq T => U = T
  BY <1>1 DEF HasMinimal
<1>3. \A U \in SUBSET S : IsFiniteSet(U) /\ Sum(U) \in Int
  BY FS_Subset, SumType
<1>4. CASE T = {}
  <2>1. Sum({}) = 0 /\ S \ {} = S BY SumEmpty
  <2> QED BY <1>2, <1>3, <1>4, <2>1
<1>5. CASE T # {}
  <2>1. PICK x \in T : TRUE BY <1>5
  <2> DEFINE U == T \ {x}
  <2>2. U \notin Bad BY <1>2, <2>1
  <2>3. S \ T = (S \ U) \ {x} BY <1>2, <2>1
  <2>8. Sum(S) # Sum(T) + Sum(S \ T) BY <1>2
  <2>9. x \in S \ U BY <1>2, <2>1
  <2> HIDE DEF Sum
  <2>4. Sum(T) = w[x] + Sum(U)
    BY <1>2, <1>3, <2>1, SumRemove DEF Sum
  <2>5. Sum(S \ U) = w[x] + Sum(S \ T)
    <3>1. Sum(S \ U) = w[x] + Sum((S \ U) \ {x})
      <4>1. IsFiniteSet(S \ U) /\ \A y \in S \ U : w[y] \in Int
        BY <1>3
      <4> HIDE DEF U, Bad
      <4> QED BY <2>9, <4>1, SumRemove DEF Sum
    <3> QED BY <2>3, <3>1
  <2>6. w[x] \in Int /\ Sum(U) \in Int /\ Sum(S \ T) \in Int
    BY <1>2, <1>3, <2>1
  <2>7. Sum(S) = Sum(U) + Sum(S \ U)
    BY <1>2, <2>2
  <2>10. Sum(T) \in Int /\ Sum(S \ U) \in Int
    BY <1>2, <1>3
  <2> QED BY ONLY <2>4, <2>5, <2>6, <2>7, <2>8, <2>10
<1> QED BY <1>4, <1>5

=============================================================================
