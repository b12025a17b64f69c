------------------------------ MODULE SumProofs -----------------------------
(***************************************************************************)
(* What SumFunctionOnSet of the community module Functions computes, for   *)
(* every finite set.  The library's induction theorems take an operator as *)
(* a parameter, which the installed provers cannot instantiate; induction  *)
(* over a set of numbers, or of subsets, does not need one and follows     *)
(* from the least element of a set of natural numbers (WFMin).             *)
(***************************************************************************)
EXTENDS Integers, FiniteSets, Functions, FiniteSetTheorems, TLAPS

\* A set of natural numbers that is not empty has a least element: the
\* order of the natural numbers is well founded.
LEMMA LeastNat ==
  ASSUME NEW T \in SUBSET Nat, T # {}
  PROVE  \E n \in T : \A m \in T : n <= m
<1> DEFINE R == {p \in Nat \X Nat : p[1] < p[2]}
<1>1. IsWellFoundedOn(R, Nat)
  BY NatLessThanWellFounded, Zenon DEF OpToRel
<1>2. \A m, n \in Nat : m < n => <<m, n>> \in R
  OBVIOUS
<1> HIDE DEF R
<1>3. PICK n \in T : \A m \in T : ~ (<<m, n>> \in R)
  BY <1>1, WFMin, Zenon
<1>4. \A m \in T : ~ (m < n)
  BY <1>2, <1>3
<1> QED BY <1>3, <1>4

\* Induction over the natural numbers, for a set instead of a predicate: the
\* provers cannot instantiate an operator parameter, a set they can.
LEMMA NatSetInduction ==
  ASSUME NEW G, 0 \in G, \A n \in Nat : n \in G => n + 1 \in G
  PROVE  \A n \in Nat : n \in G
<1> DEFINE B == {n \in Nat : n \notin G}
<1> SUFFICES ASSUME B # {} PROVE FALSE
  OBVIOUS
<1>1. PICK n \in B : \A m \in B : n <= m
  BY LeastNat
<1>2. n - 1 \in Nat /\ n - 1 \notin B
  BY <1>1
<1> QED BY <1>1, <1>2

\* Induction over the subsets of a finite set.
LEMMA FiniteSetInduction ==
  ASSUME NEW S, IsFiniteSet(S), NEW G,
         \A t \in SUBSET S : (\A x \in t : t \ {x} \in G) => t \in G
  PROVE  \A t \in SUBSET S : t \in G
<1> DEFINE H == {n \in Nat : \A t \in SUBSET S : Cardinality(t) = n => t \in G}
<1>1. \A t \in SUBSET S : IsFiniteSet(t) /\ Cardinality(t) \in Nat
  BY FS_Subset, FS_CardinalityType
<1>2. 0 \in H
  BY <1>1, FS_EmptySet
<1>3. ASSUME NEW n \in Nat, n \in H PROVE n + 1 \in H
  <2> SUFFICES ASSUME NEW t \in SUBSET S, Cardinality(t) = n + 1,
                      NEW x \in t
               PROVE  t \ {x} \in G
    OBVIOUS
  <2>1. IsFiniteSet(t)
    BY <1>1
  <2>2. Cardinality(t \ {x}) = Cardinality(t) - 1
    BY <2>1, FS_RemoveElement
  <2> QED BY <1>3, <2>2
<1> HIDE DEF H
<1>4. \A n \in Nat : n \in H
  BY <1>2, <1>3, NatSetInduction
<1> QED BY <1>1, <1>4 DEF H

-----------------------------------------------------------------------------
\* The element a fold over a set takes next.
Pick(s) == CHOOSE x \in s : TRUE

\* g satisfies the equation that a sum of f over subsets of S is defined by.
IsSum(g, f, S) ==
  g = [s \in SUBSET S |-> IF s = {} THEN 0 ELSE f[Pick(s)] + g[s \ {Pick(s)}]]

\* SumFunctionOnSet chooses such a g.
LEMMA SumChoice ==
  ASSUME NEW f, NEW S
  PROVE  SumFunctionOnSet(f, S) = (CHOOSE g : IsSum(g, f, S))[S]
BY Zenon DEF SumFunctionOnSet, FoldFunctionOnSet, MapThenFoldSet, IsSum, Pick

\* The element taken next is one of the set.
LEMMA PickIn == ASSUME NEW s, s # {} PROVE Pick(s) \in s
BY DEF Pick

\* There is a g to choose, built up by the size of the subsets.
LEMMA SumExists ==
  ASSUME NEW f, NEW S, IsFiniteSet(S)
  PROVE  \E g : IsSum(g, f, S)
<1> DEFINE Small(n) == {s \in SUBSET S : Cardinality(s) <= n}
           Upto(g, n) == g = [s \in Small(n) |->
               IF s = {} THEN 0 ELSE f[Pick(s)] + g[s \ {Pick(s)}]]
           G == {n \in Nat : \E g : Upto(g, n)}
<1>1. \A s \in SUBSET S : IsFiniteSet(s) /\ Cardinality(s) \in Nat
  BY FS_Subset, FS_CardinalityType
<1>2. 0 \in G
  <2>1. \A s \in Small(0) : s = {}
    BY <1>1, FS_EmptySet
  <2>2. Upto([s \in Small(0) |-> 0], 0)
    BY <2>1
  <2> QED BY <2>2
<1>3. ASSUME NEW n \in Nat, n \in G PROVE n + 1 \in G
  <2>1. PICK h : Upto(h, n)
    BY <1>3
  <2> DEFINE g == [s \in Small(n + 1) |->
                     IF s = {} THEN 0 ELSE f[Pick(s)] + h[s \ {Pick(s)}]]
  <2>2. \A s \in Small(n) : g[s] = h[s]
    <3>1. \A s \in Small(n) : s \in Small(n + 1)
      BY <1>1
    <3>2. \A s \in Small(n) :
            h[s] = IF s = {} THEN 0 ELSE f[Pick(s)] + h[s \ {Pick(s)}]
      BY <2>1
    <3> QED BY <3>1, <3>2
  <2>3. ASSUME NEW s \in Small(n + 1), s # {} PROVE s \ {Pick(s)} \in Small(n)
    BY <1>1, <2>3, PickIn, FS_RemoveElement
  <2>4. Upto(g, n + 1)
    BY <2>2, <2>3
  <2> HIDE DEF g, Upto
  <2> QED BY <2>4
<1> HIDE DEF G
<1>4. Cardinality(S) \in G
  BY <1>1, <1>2, <1>3, NatSetInduction
<1>5. PICK g : Upto(g, Cardinality(S))
  BY <1>4 DEF G
<1>6. Small(Cardinality(S)) = SUBSET S
  BY FS_Subset
<1> QED BY <1>5, <1>6 DEF IsSum

\* So the chosen one satisfies the equation.
LEMMA SumRecursion ==
  ASSUME NEW f, NEW S, IsFiniteSet(S)
  PROVE  IsSum(CHOOSE g : IsSum(g, f, S), f, S)
BY SumExists

\* The equations for a set and for a subset of it give the same sum there.
LEMMA SumsAgree ==
  ASSUME NEW f, NEW S, IsFiniteSet(S), NEW T \in SUBSET S, NEW g, NEW h,
         IsSum(g, f, S), IsSum(h, f, T)
  PROVE  g[T] = h[T]
<1> DEFINE G == {t \in SUBSET T : g[t] = h[t]}
<1>1. ASSUME NEW t \in SUBSET T, \A x \in t : t \ {x} \in G
      PROVE  t \in G
  <2>1. /\ g[t] = IF t = {} THEN 0 ELSE f[Pick(t)] + g[t \ {Pick(t)}]
        /\ h[t] = IF t = {} THEN 0 ELSE f[Pick(t)] + h[t \ {Pick(t)}]
    BY DEF IsSum
  <2> QED BY <1>1, <2>1, PickIn
<1>2. IsFiniteSet(T)
  BY FS_Subset
<1> HIDE DEF G
<1>3. T \in G
  BY <1>1, <1>2, FiniteSetInduction
<1> QED BY <1>3 DEF G

\* The sum over no argument is zero.
LEMMA SumEmpty ==
  ASSUME NEW f
  PROVE  SumFunctionOnSet(f, {}) = 0
<1> DEFINE g == CHOOSE h : IsSum(h, f, {})
<1>1. IsSum(g, f, {})
  BY SumRecursion, FS_EmptySet
<1> HIDE DEF g
<1>2. g[{}] = 0
  BY <1>1 DEF IsSum
<1> QED BY <1>2, SumChoice DEF g

\* The recursion of the sum itself.
LEMMA SumPick ==
  ASSUME NEW f, NEW S, IsFiniteSet(S), S # {}
  PROVE  SumFunctionOnSet(f, S) =
           f[Pick(S)] + SumFunctionOnSet(f, S \ {Pick(S)})
<1> DEFINE T == S \ {Pick(S)}
           g == CHOOSE k : IsSum(k, f, S)
           h == CHOOSE k : IsSum(k, f, T)
<1>1. IsFiniteSet(T)
  BY FS_RemoveElement
<1>2. IsSum(g, f, S) /\ IsSum(h, f, T)
  BY <1>1, SumRecursion
<1>3. SumFunctionOnSet(f, S) = g[S] /\ SumFunctionOnSet(f, T) = h[T]
  BY SumChoice
<1> HIDE DEF g, h
<1>4. g[S] = f[Pick(S)] + g[T]
  BY <1>2 DEF IsSum
<1>5. g[T] = h[T]
  BY <1>2, SumsAgree
<1> QED BY <1>3, <1>4, <1>5

\* A sum of integers is one.
LEMMA SumInt ==
  ASSUME NEW S, IsFiniteSet(S), NEW f, \A x \in S : f[x] \in Int
  PROVE  \A t \in SUBSET S : SumFunctionOnSet(f, t) \in Int
<1> DEFINE G == {t \in SUBSET S : SumFunctionOnSet(f, t) \in Int}
<1>1. ASSUME NEW t \in SUBSET S, \A x \in t : t \ {x} \in G
      PROVE  t \in G
  <2>1. CASE t = {}
    BY <2>1, SumEmpty
  <2>2. CASE t # {}
    <3>1. IsFiniteSet(t)
      BY FS_Subset
    <3>2. SumFunctionOnSet(f, t) = f[Pick(t)] + SumFunctionOnSet(f, t \ {Pick(t)})
      BY <2>2, <3>1, SumPick
    <3> QED BY <1>1, <2>2, <3>2, PickIn
  <2> QED BY <2>1, <2>2
<1> HIDE DEF G
<1>2. \A t \in SUBSET S : t \in G
  BY <1>1, FiniteSetInduction
<1> QED BY <1>2 DEF G

\* Any argument may be taken first.
LEMMA SumRemove ==
  ASSUME NEW S, IsFiniteSet(S), NEW f, \A x \in S : f[x] \in Int, NEW x \in S
  PROVE  SumFunctionOnSet(f, S) = f[x] + SumFunctionOnSet(f, S \ {x})
<1> DEFINE Sum(t) == SumFunctionOnSet(f, t)
           G == {t \in SUBSET S : \A y \in t : Sum(t) = f[y] + Sum(t \ {y})}
<1>1. \A t \in SUBSET S : Sum(t) \in Int /\ IsFiniteSet(t)
  BY SumInt, FS_Subset
<1>2. \A t \in SUBSET S : t # {} => Sum(t) = f[Pick(t)] + Sum(t \ {Pick(t)})
  BY <1>1, SumPick
<1> HIDE DEF Sum
<1>3. ASSUME NEW t \in SUBSET S, \A y \in t : t \ {y} \in G
      PROVE  t \in G
  <2> SUFFICES ASSUME NEW y \in t PROVE Sum(t) = f[y] + Sum(t \ {y})
    OBVIOUS
  <2> DEFINE p == Pick(t)
             u == (t \ {p}) \ {y}
  <2>1. p \in t /\ Sum(t) = f[p] + Sum(t \ {p})
    BY <1>2, PickIn
  <2> HIDE DEF p
  <2>2. CASE p # y
    <3>1. Sum(t \ {p}) = f[y] + Sum(u)
      BY <1>3, <2>1, <2>2
    <3>2. Sum(t \ {y}) = f[p] + Sum(u)
      <4>1. (t \ {y}) \ {p} = u
        OBVIOUS
      <4> QED BY <1>3, <2>1, <2>2, <4>1
    <3>3. Sum(u) \in Int /\ f[p] \in Int /\ f[y] \in Int
      BY <1>1, <2>1
    <3> QED BY <2>1, <3>1, <3>2, <3>3
  <2> QED BY <2>1, <2>2
<1> HIDE DEF G
<1>4. \A t \in SUBSET S : t \in G
  BY <1>3, FiniteSetInduction
<1> QED BY <1>4 DEF G, Sum

-----------------------------------------------------------------------------
\* An argument more is its value more.
LEMMA SumAdd ==
  ASSUME NEW S, IsFiniteSet(S), NEW f, NEW x, x \notin S,
         \A y \in S \cup {x} : f[y] \in Int
  PROVE  SumFunctionOnSet(f, S \cup {x}) = SumFunctionOnSet(f, S) + f[x]
<1>1. IsFiniteSet(S \cup {x}) /\ (S \cup {x}) \ {x} = S
  BY FS_AddElement
<1>2. SumFunctionOnSet(f, S \cup {x}) = f[x] + SumFunctionOnSet(f, S)
  BY <1>1, SumRemove
<1>3. SumFunctionOnSet(f, S) \in Int
  BY SumInt
<1> QED BY <1>2, <1>3

\* A sum of natural numbers is one.
LEMMA SumNat ==
  ASSUME NEW S, IsFiniteSet(S), NEW f, \A x \in S : f[x] \in Nat
  PROVE  \A t \in SUBSET S : SumFunctionOnSet(f, t) \in Nat
<1> DEFINE G == {t \in SUBSET S : SumFunctionOnSet(f, t) \in Nat}
<1>1. ASSUME NEW t \in SUBSET S, \A x \in t : t \ {x} \in G
      PROVE  t \in G
  <2>1. CASE t = {}
    BY <2>1, SumEmpty
  <2>2. CASE t # {}
    <3>1. IsFiniteSet(t)
      BY FS_Subset
    <3>2. SumFunctionOnSet(f, t) = f[Pick(t)] + SumFunctionOnSet(f, t \ {Pick(t)})
      BY <2>2, <3>1, SumPick
    <3> QED BY <1>1, <2>2, <3>2, PickIn
  <2> QED BY <2>1, <2>2
<1> HIDE DEF G
<1>2. \A t \in SUBSET S : t \in G
  BY <1>1, FiniteSetInduction
<1> QED BY <1>2 DEF G

\* The sum of two functions added up is the sum of their sums.
LEMMA SumPlus ==
  ASSUME NEW S, IsFiniteSet(S), NEW f, NEW g, NEW h,
         \A x \in S : f[x] \in Int /\ g[x] \in Int /\ h[x] = f[x] + g[x]
  PROVE  SumFunctionOnSet(h, S) = SumFunctionOnSet(f, S) + SumFunctionOnSet(g, S)
<1> DEFINE G == {t \in SUBSET S : SumFunctionOnSet(h, t) =
                   SumFunctionOnSet(f, t) + SumFunctionOnSet(g, t)}
<1>1. ASSUME NEW t \in SUBSET S, \A x \in t : t \ {x} \in G
      PROVE  t \in G
  <2>1. CASE t = {}
    BY <2>1, SumEmpty
  <2>2. CASE t # {}
    <3>1. IsFiniteSet(t)
      BY FS_Subset
    <3> DEFINE p == Pick(t)
               u == t \ {p}
    <3>2. /\ SumFunctionOnSet(f, t) = f[p] + SumFunctionOnSet(f, u)
          /\ SumFunctionOnSet(g, t) = g[p] + SumFunctionOnSet(g, u)
          /\ SumFunctionOnSet(h, t) = h[p] + SumFunctionOnSet(h, u)
      BY <2>2, <3>1, SumPick
    <3>3. p \in t
      BY <2>2, PickIn
    <3>4. SumFunctionOnSet(f, u) \in Int /\ SumFunctionOnSet(g, u) \in Int
      BY SumInt
    <3>5. SumFunctionOnSet(h, u) = SumFunctionOnSet(f, u) + SumFunctionOnSet(g, u)
      BY <1>1, <3>3
    <3> HIDE DEF p, u
    <3>6. f[p] \in Int /\ g[p] \in Int /\ h[p] = f[p] + g[p]
      BY <3>3
    <3> QED BY <3>2, <3>4, <3>5, <3>6
  <2> QED BY <2>1, <2>2
<1> HIDE DEF G
<1>2. \A t \in SUBSET S : t \in G
  BY <1>1, FiniteSetInduction
<1> QED BY <1>2 DEF G

\* A sum of zeros is zero.
LEMMA SumZero ==
  ASSUME NEW S, IsFiniteSet(S), NEW f, \A x \in S : f[x] = 0
  PROVE  SumFunctionOnSet(f, S) = 0
<1> DEFINE s == SumFunctionOnSet(f, S)
<1>1. s \in Int
  BY SumInt
<1>2. s = s + s
  BY SumPlus
<1> HIDE DEF s
<1>3. s = 0
  BY <1>1, <1>2
<1> QED BY <1>3 DEF s

\* A sum grows with its terms.
LEMMA SumLeq ==
  ASSUME NEW S, IsFiniteSet(S), NEW f, NEW g,
         \A x \in S : f[x] \in Int /\ g[x] \in Int /\ f[x] <= g[x]
  PROVE  SumFunctionOnSet(f, S) <= SumFunctionOnSet(g, S)
<1> DEFINE d == [x \in S |-> g[x] - f[x]]
<1>1. \A x \in S : d[x] \in Nat /\ g[x] = f[x] + d[x]
  OBVIOUS
<1> HIDE DEF d
<1>2. SumFunctionOnSet(g, S) = SumFunctionOnSet(f, S) + SumFunctionOnSet(d, S)
  BY <1>1, SumPlus
<1>3. SumFunctionOnSet(f, S) \in Int /\ SumFunctionOnSet(d, S) \in Nat
  BY <1>1, SumInt, SumNat
<1> QED BY <1>2, <1>3

\* Functions that agree on the arguments have the same sum.
LEMMA SumEqual ==
  ASSUME NEW S, IsFiniteSet(S), NEW f, NEW g,
         \A x \in S : f[x] \in Int /\ f[x] = g[x]
  PROVE  SumFunctionOnSet(f, S) = SumFunctionOnSet(g, S)
<1>1. SumFunctionOnSet(f, S) \in Int /\ SumFunctionOnSet(g, S) \in Int
  BY SumInt
<1>2. /\ SumFunctionOnSet(f, S) <= SumFunctionOnSet(g, S)
      /\ SumFunctionOnSet(g, S) <= SumFunctionOnSet(f, S)
  BY SumLeq
<1> QED BY <1>1, <1>2

\* A sum is the sum over a part and over the rest.
LEMMA SumSplit ==
  ASSUME NEW S, IsFiniteSet(S), NEW f, \A x \in S : f[x] \in Int,
         NEW T \in SUBSET S
  PROVE  SumFunctionOnSet(f, S) =
           SumFunctionOnSet(f, T) + SumFunctionOnSet(f, S \ T)
<1> DEFINE Sum(t) == SumFunctionOnSet(f, t)
           G == {t \in SUBSET T : Sum(S) = Sum(t) + Sum(S \ t)}
<1>1. \A t \in SUBSET S : Sum(t) \in Int /\ IsFiniteSet(t)
  BY SumInt, FS_Subset
<1>2. \A t \in SUBSET S : \A x \in t : Sum(t) = f[x] + Sum(t \ {x})
  BY <1>1, SumRemove
<1>3. Sum({}) = 0
  BY SumEmpty
<1> HIDE DEF Sum
<1>4. ASSUME NEW t \in SUBSET T, \A y \in t : t \ {y} \in G
      PROVE  t \in G
  <2>1. CASE t = {}
    BY <1>1, <1>3, <2>1
  <2>2. CASE t # {}
    <3>1. PICK y \in t : TRUE
      BY <2>2
    <3>2. Sum(S) = Sum(t \ {y}) + Sum(S \ (t \ {y}))
      BY <1>4
    <3>3. Sum(t) = f[y] + Sum(t \ {y})
      BY <1>2
    <3>4. Sum(S \ (t \ {y})) = f[y] + Sum(S \ t)
      <4>1. y \in S \ (t \ {y}) /\ (S \ (t \ {y})) \ {y} = S \ t
        OBVIOUS
      <4>2. S \ (t \ {y}) \in SUBSET S
        OBVIOUS
      <4> QED BY <1>2, <4>1, <4>2
    <3>5. Sum(t \ {y}) \in Int /\ Sum(S \ t) \in Int /\ f[y] \in Int
      BY <1>1
    <3> QED BY <3>2, <3>3, <3>4, <3>5
  <2> QED BY <2>1, <2>2
<1> HIDE DEF G
<1>5. IsFiniteSet(T)
  BY FS_Subset
<1>6. \A t \in SUBSET T : t \in G
  BY <1>4, <1>5, FiniteSetInduction
<1> QED BY <1>6 DEF G, Sum

\* The sum of natural numbers over a part is no larger.
LEMMA SumSubset ==
  ASSUME NEW S, IsFiniteSet(S), NEW f, \A x \in S : f[x] \in Nat,
         NEW T \in SUBSET S
  PROVE  SumFunctionOnSet(f, T) <= SumFunctionOnSet(f, S)
<1>1. SumFunctionOnSet(f, T) \in Nat /\ SumFunctionOnSet(f, S \ T) \in Nat
  BY SumNat
<1>2. SumFunctionOnSet(f, S) = SumFunctionOnSet(f, T) + SumFunctionOnSet(f, S \ T)
  BY SumSplit
<1> QED BY <1>1, <1>2

\* The sum over one argument is its value.
LEMMA SumSingle ==
  ASSUME NEW f, NEW x, f[x] \in Int
  PROVE  SumFunctionOnSet(f, {x}) = f[x]
<1>1. IsFiniteSet({}) /\ {} \cup {x} = {x}
  BY FS_EmptySet
<1>2. SumFunctionOnSet(f, {} \cup {x}) = SumFunctionOnSet(f, {}) + f[x]
  BY <1>1, SumAdd
<1> QED BY <1>1, <1>2, SumEmpty

-----------------------------------------------------------------------------
\* The sum of a function on a finite set is a natural number.
LEMMA SumOfNats ==
  ASSUME NEW f, IsFiniteSet(DOMAIN f), \A x \in DOMAIN f : f[x] \in Nat
  PROVE  SumFunction(f) \in Nat
BY SumNat DEF SumFunction

\* Taking one argument away takes its value away.
LEMMA SumDrop ==
  ASSUME NEW f, IsFiniteSet(DOMAIN f), \A x \in DOMAIN f : f[x] \in Nat,
         NEW k \in DOMAIN f, NEW g, DOMAIN g = DOMAIN f \ {k},
         \A x \in DOMAIN g : g[x] = f[x]
  PROVE  SumFunction(g) + f[k] = SumFunction(f) /\ SumFunction(g) \in Nat
<1> DEFINE S == DOMAIN f
           T == S \ {k}
<1>1. IsFiniteSet(T) /\ IsFiniteSet(S) /\ k \in S
  BY FS_RemoveElement
<1>2. /\ \A x \in T : f[x] \in Int /\ f[x] = g[x]
      /\ \A x \in S : f[x] \in Int
  OBVIOUS
<1>3. SumFunction(g) = SumFunctionOnSet(g, T) /\
      SumFunction(f) = SumFunctionOnSet(f, S)
  BY DEF SumFunction
<1>4. SumFunction(g) \in Nat /\ f[k] \in Nat
  BY <1>1, SumOfNats
<1> HIDE DEF T, S
<1>5. SumFunctionOnSet(f, T) = SumFunctionOnSet(g, T)
  BY <1>1, <1>2, SumEqual
<1>6. SumFunctionOnSet(f, S) = f[k] + SumFunctionOnSet(f, T)
  BY <1>1, <1>2, SumRemove DEF T
<1> QED BY <1>3, <1>4, <1>5, <1>6

\* Giving one argument a value replaces the value it had.
LEMMA SumPut ==
  ASSUME NEW f, IsFiniteSet(DOMAIN f), \A x \in DOMAIN f : f[x] \in Nat,
         NEW k, NEW g, DOMAIN g = DOMAIN f \cup {k}, g[k] \in Nat,
         \A x \in DOMAIN f : x # k => g[x] = f[x]
  PROVE  /\ SumFunction(g) + (IF k \in DOMAIN f THEN f[k] ELSE 0)
              = SumFunction(f) + g[k]
         /\ SumFunction(g) \in Nat /\ SumFunction(f) \in Nat
<1> DEFINE h == [x \in DOMAIN f \ {k} |-> f[x]]
<1>1. /\ DOMAIN h = DOMAIN f \ {k} /\ DOMAIN h = DOMAIN g \ {k}
      /\ \A x \in DOMAIN h : h[x] = f[x] /\ h[x] = g[x] /\ h[x] \in Nat
      /\ k \in DOMAIN g
  OBVIOUS
<1>2. IsFiniteSet(DOMAIN g) /\ \A x \in DOMAIN g : g[x] \in Nat
  BY FS_AddElement
<1>3. SumFunction(f) \in Nat /\ SumFunction(g) \in Nat
  BY <1>2, SumOfNats
<1> HIDE DEF h
<1>4. SumFunction(h) + g[k] = SumFunction(g) /\ SumFunction(h) \in Nat
  BY <1>1, <1>2, SumDrop
<1>5. CASE k \in DOMAIN f
  <2>1. SumFunction(h) + f[k] = SumFunction(f)
    BY <1>1, <1>5, SumDrop
  <2>2. f[k] \in Nat
    BY <1>5
  <2> QED BY <1>3, <1>4, <1>5, <2>1, <2>2
<1>6. CASE k \notin DOMAIN f
  <2>1. DOMAIN h = DOMAIN f
    BY <1>1, <1>6
  <2>2. SumFunctionOnSet(h, DOMAIN f) = SumFunctionOnSet(f, DOMAIN f)
    <3>1. \A x \in DOMAIN f : h[x] \in Int /\ h[x] = f[x]
      BY <1>1, <2>1
    <3> QED BY <3>1, SumEqual
  <2>3. SumFunction(h) = SumFunction(f)
    BY <2>1, <2>2 DEF SumFunction
  <2> QED BY <1>3, <1>4, <1>6, <2>3
<1> QED BY <1>5, <1>6

\* A sum over the images of an injection.
LEMMA SumImage ==
  ASSUME NEW S, IsFiniteSet(S), NEW e,
         \A x, y \in S : e[x] = e[y] => x = y,
         NEW f, NEW g, \A x \in S : f[x] \in Nat /\ g[e[x]] = f[x]
  PROVE  /\ IsFiniteSet({e[x] : x \in S})
         /\ SumFunctionOnSet(g, {e[x] : x \in S}) = SumFunctionOnSet(f, S)
<1> DEFINE I(t) == {e[x] : x \in t}
           G == {t \in SUBSET S : /\ IsFiniteSet(I(t))
                                  /\ SumFunctionOnSet(g, I(t)) = SumFunctionOnSet(f, t)}
<1>1. ASSUME NEW t \in SUBSET S, \A x \in t : t \ {x} \in G
      PROVE  t \in G
  <2>1. CASE t = {}
    <3>1. I(t) = {}
      BY <2>1
    <3>2. IsFiniteSet(I(t)) /\ SumFunctionOnSet(g, I(t)) = 0
      BY <3>1, FS_EmptySet, SumEmpty
    <3>3. SumFunctionOnSet(f, t) = 0
      BY <2>1, SumEmpty
    <3> QED BY <3>2, <3>3
  <2>2. CASE t # {}
    <3>1. PICK p \in t : TRUE
      BY <2>2
    <3> DEFINE u == t \ {p}
    <3>2. IsFiniteSet(I(u)) /\ SumFunctionOnSet(g, I(u)) = SumFunctionOnSet(f, u)
      BY <1>1
    <3>3. I(t) = I(u) \cup {e[p]} /\ e[p] \notin I(u)
      OBVIOUS
    <3>4. \A y \in I(u) \cup {e[p]} : g[y] \in Int
      OBVIOUS
    <3>5. IsFiniteSet(u) /\ t = u \cup {p} /\ p \notin u
      BY FS_Subset
    <3>6. (\A x \in u \cup {p} : f[x] \in Int) /\ g[e[p]] = f[p]
      OBVIOUS
    <3> DEFINE J == I(u)
               q == e[p]
    <3> HIDE DEF u, J, q
    <3>7. SumFunctionOnSet(f, t) = SumFunctionOnSet(f, u) + f[p]
      BY <3>5, <3>6, SumAdd
    <3>8. SumFunctionOnSet(g, J \cup {q}) = SumFunctionOnSet(g, J) + g[q]
      <4>1. IsFiniteSet(J) /\ q \notin J /\ \A y \in J \cup {q} : g[y] \in Int
        BY <3>2, <3>3, <3>4 DEF J, q
      <4> QED BY ONLY <4>1, SumAdd
    <3>9. IsFiniteSet(J \cup {q})
      BY <3>2, FS_AddElement DEF J
    <3> HIDE DEF I
    <3> QED BY <3>2, <3>3, <3>6, <3>7, <3>8, <3>9 DEF J, q
  <2> QED BY <2>1, <2>2
<1> HIDE DEF G
<1>2. \A t \in SUBSET S : t \in G
  BY <1>1, FiniteSetInduction
<1> QED BY <1>2 DEF G

\* Raising one value raises the sum by as much.
LEMMA SumRaise ==
  ASSUME NEW S, IsFiniteSet(S), NEW f \in [S -> Nat], NEW k \in S, NEW v \in Nat,
         NEW g \in [S -> Nat], g[k] = f[k] + v,
         \A x \in S : x # k => g[x] = f[x]
  PROVE  SumFunction(g) = SumFunction(f) + v
<1>1. /\ DOMAIN f = S /\ DOMAIN g = S \cup {k} /\ f[k] \in Nat
      /\ g[k] \in Nat /\ \A x \in S : f[x] \in Nat
  OBVIOUS
<1>3. /\ SumFunction(g) + (IF k \in DOMAIN f THEN f[k] ELSE 0)
           = SumFunction(f) + g[k]
      /\ SumFunction(g) \in Nat /\ SumFunction(f) \in Nat
  BY <1>1, SumPut
<1> QED BY <1>1, <1>3

\* A factor may be taken out of a sum.
LEMMA SumScale ==
  ASSUME NEW S, IsFiniteSet(S), NEW f, NEW g, NEW c \in Nat,
         \A x \in S : f[x] \in Nat /\ g[x] = f[x] * c
  PROVE  SumFunctionOnSet(g, S) = SumFunctionOnSet(f, S) * c
<1> DEFINE G == {t \in SUBSET S : SumFunctionOnSet(g, t) = SumFunctionOnSet(f, t) * c}
<1>1. ASSUME NEW t \in SUBSET S, \A x \in t : t \ {x} \in G
      PROVE  t \in G
  <2>1. CASE t = {}
    BY <2>1, SumEmpty
  <2>2. CASE t # {}
    <3>1. IsFiniteSet(t)
      BY FS_Subset
    <3> DEFINE p == Pick(t)
               a == SumFunctionOnSet(f, t \ {p})
               b == SumFunctionOnSet(g, t \ {p})
    <3>2. SumFunctionOnSet(f, t) = f[p] + a /\ SumFunctionOnSet(g, t) = g[p] + b
      BY <2>2, <3>1, SumPick
    <3>3. p \in t
      BY <2>2, PickIn
    <3>4. a \in Nat
      BY SumNat
    <3>5. b = a * c
      BY <1>1, <3>3
    <3>6. f[p] \in Nat /\ g[p] = f[p] * c
      BY <3>3
    <3> HIDE DEF p, a, b
    <3>7. f[p] * c + a * c = (f[p] + a) * c
      BY <3>4, <3>6
    <3> QED BY <3>2, <3>5, <3>6, <3>7
  <2> QED BY <2>1, <2>2
<1> HIDE DEF G
<1>2. \A t \in SUBSET S : t \in G
  BY <1>1, FiniteSetInduction
<1> QED BY <1>2 DEF G

\* Equal terms: their number times their value.
LEMMA SumConstant ==
  ASSUME NEW S, IsFiniteSet(S), NEW c \in Nat, NEW g, \A x \in S : g[x] = c
  PROVE  SumFunctionOnSet(g, S) = Cardinality(S) * c
<1> DEFINE G == {t \in SUBSET S : SumFunctionOnSet(g, t) = Cardinality(t) * c}
<1>1. ASSUME NEW t \in SUBSET S, \A x \in t : t \ {x} \in G
      PROVE  t \in G
  <2>1. CASE t = {}
    BY <2>1, SumEmpty, FS_EmptySet
  <2>2. CASE t # {}
    <3>1. IsFiniteSet(t)
      BY FS_Subset
    <3> DEFINE p == Pick(t)
               n == Cardinality(t \ {p})
    <3>2. SumFunctionOnSet(g, t) = g[p] + SumFunctionOnSet(g, t \ {p})
      BY <2>2, <3>1, SumPick
    <3>3. p \in t
      BY <2>2, PickIn
    <3>4. n \in Nat /\ Cardinality(t) = n + 1
      <4>1. IsFiniteSet(t \ {p}) /\ n = Cardinality(t) - 1
        BY <3>1, <3>3, FS_RemoveElement
      <4>2. n \in Nat /\ Cardinality(t) \in Nat
        BY <3>1, <4>1, FS_CardinalityType
      <4> QED BY <4>1, <4>2
    <3>5. SumFunctionOnSet(g, t \ {p}) = n * c /\ g[p] = c
      BY <1>1, <3>3
    <3> HIDE DEF p, n
    <3> QED BY <3>2, <3>4, <3>5
  <2> QED BY <2>1, <2>2
<1> HIDE DEF G
<1>2. \A t \in SUBSET S : t \in G
  BY <1>1, FiniteSetInduction
<1> QED BY <1>2 DEF G

\* One of several natural numbers is at most their sum.
LEMMA SumMember ==
  ASSUME NEW S, IsFiniteSet(S), NEW f, \A x \in S : f[x] \in Nat, NEW k \in S
  PROVE  f[k] <= SumFunctionOnSet(f, S)
<1>1. {k} \in SUBSET S
  OBVIOUS
<1>2. SumFunctionOnSet(f, {k}) <= SumFunctionOnSet(f, S)
  BY <1>1, SumSubset
<1> QED BY <1>2, SumSingle

\* A table added up by rows and by columns.
LEMMA SumSwap ==
  ASSUME NEW S, IsFiniteSet(S), NEW T, IsFiniteSet(T),
         NEW F \in [S -> [T -> Nat]]
  PROVE  SumFunctionOnSet([x \in S |-> SumFunctionOnSet(F[x], T)], S) =
         SumFunctionOnSet([y \in T |->
                             SumFunctionOnSet([x \in S |-> F[x][y]], S)], T)
<1> DEFINE Rows == [x \in S |-> SumFunctionOnSet(F[x], T)]
           Column(y) == [x \in S |-> F[x][y]]
           Cols(t) == [y \in T |-> SumFunctionOnSet(Column(y), t)]
           G == {t \in SUBSET S : SumFunctionOnSet(Rows, t) =
                                  SumFunctionOnSet(Cols(t), T)}
<1>1. ASSUME NEW t \in SUBSET S, \A x \in t : t \ {x} \in G
      PROVE  t \in G
  <2>1. CASE t = {}
    <3>1. \A y \in T : Cols(t)[y] = 0
      BY <2>1, SumEmpty
    <3>2. SumFunctionOnSet(Cols(t), T) = 0
      <4> HIDE DEF Cols
      <4> QED BY <3>1, SumZero
    <3> QED BY <2>1, <3>2, SumEmpty
  <2>2. CASE t # {}
    <3>1. PICK p \in t : TRUE
      BY <2>2
    <3> DEFINE u == t \ {p}
    <3>2. IsFiniteSet(t) /\ IsFiniteSet(u) /\ u \in SUBSET S
      BY FS_Subset
    <3>3. \A x \in S : Rows[x] \in Int
      BY SumNat
    <3>4. SumFunctionOnSet(Rows, t) = Rows[p] + SumFunctionOnSet(Rows, u)
      <4> HIDE DEF Rows
      <4> QED BY <3>2, <3>3, SumRemove
    <3>5. \A y \in T : /\ F[p][y] \in Int /\ Cols(u)[y] \in Int
                       /\ Cols(t)[y] = F[p][y] + Cols(u)[y]
      <4> SUFFICES ASSUME NEW y \in T
                   PROVE  /\ F[p][y] \in Int /\ Cols(u)[y] \in Int
                          /\ Cols(t)[y] = F[p][y] + Cols(u)[y]
        OBVIOUS
      <4>1. (\A x \in S : Column(y)[x] \in Int) /\ Column(y)[p] = F[p][y]
        OBVIOUS
      <4>2. /\ SumFunctionOnSet(Column(y), t) =
                 Column(y)[p] + SumFunctionOnSet(Column(y), u)
            /\ SumFunctionOnSet(Column(y), u) \in Int
        <5> HIDE DEF Column
        <5> QED BY <3>2, <4>1, SumRemove, SumInt
      <4> QED BY <4>1, <4>2
    <3>6. SumFunctionOnSet(Cols(t), T) =
            SumFunctionOnSet(F[p], T) + SumFunctionOnSet(Cols(u), T)
      <4> HIDE DEF Cols
      <4> QED BY <3>5, SumPlus
    <3>7. SumFunctionOnSet(Rows, u) = SumFunctionOnSet(Cols(u), T)
      BY <1>1, <3>1
    <3>8. Rows[p] = SumFunctionOnSet(F[p], T)
      BY <3>1
    <3> HIDE DEF Rows, Cols, u
    <3> QED BY <3>4, <3>6, <3>7, <3>8
  <2> QED BY <2>1, <2>2
<1>2. \A t \in SUBSET S : t \in G
  <2> HIDE DEF G
  <2> QED BY <1>1, FiniteSetInduction
<1>3. S \in G
  BY <1>2
<1> QED BY <1>3
=============================================================================
