----------------------------- MODULE LedgerProofs ---------------------------
(***************************************************************************)
(* What the operators of StakingLedger compute: filtered lists and the     *)
(* sums over them.                                                         *)
(***************************************************************************)
EXTENDS StakingLedger, SumProofs

\* The function that the recursion in Kept defines.
IsKept(g, s, I) ==
  g = [n \in 0 .. Len(s) |->
         IF n = 0 THEN <<>>
         ELSE IF n \in I THEN Append(g[n - 1], s[n]) ELSE g[n - 1]]

\* g[n] is what Kept has kept of the first n elements of s.
Keeps(g, s, I) ==
  /\ Kept(s, I) = g[Len(s)]
  /\ g[0] = <<>>
  /\ \A n \in Nat : n + 1 <= Len(s) =>
       g[n + 1] = IF n + 1 \in I THEN Append(g[n], s[n + 1]) ELSE g[n]

\* The recursion in Kept defines a function, step by step along the list.
LEMMA KeptSteps ==
  ASSUME NEW X, NEW s \in Seq(X), NEW I
  PROVE  \E g : Keeps(g, s, I)
<1> DEFINE Upto(g, m) == g = [n \in 0 .. m |->
               IF n = 0 THEN <<>>
               ELSE IF n \in I THEN Append(g[n - 1], s[n]) ELSE g[n - 1]]
           G == {m \in Nat : \E g : Upto(g, m)}
<1>1. 0 \in G
  <2>1. Upto([n \in 0 .. 0 |-> <<>>], 0)
    OBVIOUS
  <2> HIDE DEF Upto
  <2> QED BY <2>1
<1>2. ASSUME NEW m \in Nat, m \in G PROVE m + 1 \in G
  <2>1. PICK h : Upto(h, m)
    BY <1>2
  <2> DEFINE g == [n \in 0 .. m + 1 |->
                     IF n = 0 THEN <<>>
                     ELSE IF n \in I THEN Append(h[n - 1], s[n]) ELSE h[n - 1]]
  <2>2. \A n \in 0 .. m : g[n] = h[n]
    <3>1. \A n \in 0 .. m : n \in 0 .. m + 1
      OBVIOUS
    <3>2. \A n \in 0 .. m : h[n] =
            IF n = 0 THEN <<>>
            ELSE IF n \in I THEN Append(h[n - 1], s[n]) ELSE h[n - 1]
      BY <2>1
    <3> QED BY <3>1, <3>2
  <2>3. Upto(g, m + 1)
    <3>1. \A n \in 0 .. m + 1 : n # 0 => n - 1 \in 0 .. m
      OBVIOUS
    <3>2. \A n \in 0 .. m + 1 : n # 0 => h[n - 1] = g[n - 1]
      BY <2>2, <3>1
    <3> QED BY <3>2
  <2> HIDE DEF g, Upto
  <2> QED BY <2>3
<1> HIDE DEF G
<1>3. Len(s) \in G
  BY <1>1, <1>2, NatSetInduction
<1>4. \E g : IsKept(g, s, I)
  BY <1>3 DEF G, IsKept
<1>5. Kept(s, I) = (CHOOSE g : IsKept(g, s, I))[Len(s)]
  BY Zenon DEF Kept, IsKept
<1>6. PICK g : IsKept(g, s, I) /\ Kept(s, I) = g[Len(s)]
  BY <1>4, <1>5
<1>7. Len(s) \in Nat
  OBVIOUS
<1>8. \A n \in 0 .. Len(s) : g[n] =
        IF n = 0 THEN <<>>
        ELSE IF n \in I THEN Append(g[n - 1], s[n]) ELSE g[n - 1]
  BY <1>6 DEF IsKept
<1>9. ASSUME NEW n \in Nat, n + 1 <= Len(s)
      PROVE  g[n + 1] = IF n + 1 \in I THEN Append(g[n], s[n + 1]) ELSE g[n]
  <2>1. n + 1 \in 0 .. Len(s) /\ n + 1 # 0 /\ (n + 1) - 1 = n
    BY <1>7, <1>9
  <2> QED BY <1>8, <2>1
<1>10. g[0] = <<>>
  BY <1>7, <1>8
<1> QED BY <1>6, <1>9, <1>10 DEF Keeps

\* Every element of s at a position in I is one of k.
Covers(k, s, I) ==
  \A i \in DOMAIN s : i \in I => \E j \in DOMAIN k : k[j] = s[i]

\* The kept elements are those at the positions in I.
LEMMA KeptElements ==
  ASSUME NEW X, NEW s \in Seq(X), NEW I
  PROVE  /\ Kept(s, I) \in Seq(X)
         /\ \A j \in DOMAIN Kept(s, I) :
              \E i \in DOMAIN s : i \in I /\ Kept(s, I)[j] = s[i]
         /\ Covers(Kept(s, I), s, I)
<1>1. PICK g : Keeps(g, s, I)
  BY KeptSteps
<1> DEFINE P(n) == /\ g[n] \in Seq(X)
                   /\ \A j \in DOMAIN g[n] :
                        \E i \in 1 .. n : i \in I /\ g[n][j] = s[i]
                   /\ \A i \in 1 .. n : i \in I =>
                        \E j \in DOMAIN g[n] : g[n][j] = s[i]
           G == {n \in Nat : n <= Len(s) => P(n)}
<1>2. 0 \in G
  <2>1. g[0] \in Seq(X) /\ DOMAIN g[0] = {} /\ 1 .. 0 = {}
    BY <1>1 DEF Keeps
  <2> QED BY <2>1
<1>3. ASSUME NEW n \in Nat, n \in G PROVE n + 1 \in G
  <2> SUFFICES ASSUME n + 1 <= Len(s) PROVE P(n + 1)
    OBVIOUS
  <2>1. P(n)
    BY <1>3
  <2>2. s[n + 1] \in X /\ Len(s) \in Nat
    OBVIOUS
  <2>3. \A i \in 1 .. n + 1 : i = n + 1 \/ i \in 1 .. n
    OBVIOUS
  <2>4. \A i \in 1 .. n : i \in 1 .. n + 1
    OBVIOUS
  <2>5. n + 1 \in 1 .. n + 1
    OBVIOUS
  <2>6. CASE n + 1 \in I
    <3>1. g[n + 1] = Append(g[n], s[n + 1])
      BY <1>1, <2>6 DEF Keeps
    <3>2. /\ g[n + 1] \in Seq(X) /\ Len(g[n + 1]) = Len(g[n]) + 1
          /\ g[n + 1][Len(g[n]) + 1] = s[n + 1]
          /\ \A j \in 1 .. Len(g[n]) : g[n + 1][j] = g[n][j]
          /\ DOMAIN g[n] = 1 .. Len(g[n]) /\ Len(g[n]) \in Nat
          /\ DOMAIN g[n + 1] = 1 .. Len(g[n]) + 1
      BY <2>1, <2>2, <3>1
    <3> HIDE DEF P, G
    <3>3. \A j \in DOMAIN g[n + 1] :
            \E i \in 1 .. n + 1 : i \in I /\ g[n + 1][j] = s[i]
      <4> SUFFICES ASSUME NEW j \in DOMAIN g[n + 1]
                   PROVE  \E i \in 1 .. n + 1 : i \in I /\ g[n + 1][j] = s[i]
        OBVIOUS
      <4>1. CASE j = Len(g[n]) + 1
        BY <2>5, <2>6, <3>2, <4>1
      <4>2. CASE j \in 1 .. Len(g[n])
        <5>1. PICK i \in 1 .. n : i \in I /\ g[n][j] = s[i]
          BY <2>1, <3>2, <4>2 DEF P
        <5> QED BY <2>4, <3>2, <4>2, <5>1
      <4> QED BY <3>2, <4>1, <4>2
    <3>4. \A i \in 1 .. n + 1 : i \in I =>
            \E j \in DOMAIN g[n + 1] : g[n + 1][j] = s[i]
      <4> SUFFICES ASSUME NEW i \in 1 .. n + 1, i \in I
                   PROVE  \E j \in DOMAIN g[n + 1] : g[n + 1][j] = s[i]
        OBVIOUS
      <4>1. CASE i = n + 1
        <5>1. Len(g[n]) + 1 \in DOMAIN g[n + 1]
          BY <3>2
        <5> QED BY <3>2, <4>1, <5>1
      <4>2. CASE i \in 1 .. n
        <5>1. PICK j \in 1 .. Len(g[n]) : g[n][j] = s[i]
          BY <2>1, <3>2, <4>2 DEF P
        <5>2. j \in DOMAIN g[n + 1]
          BY <3>2
        <5> QED BY <3>2, <5>1, <5>2
      <4> QED BY <2>3, <4>1, <4>2
    <3> QED BY <3>2, <3>3, <3>4 DEF P
  <2>7. CASE n + 1 \notin I
    <3>1. g[n + 1] = g[n]
      BY <1>1, <2>7 DEF Keeps
    <3> QED BY <2>1, <2>3, <2>4, <2>7, <3>1
  <2> QED BY <2>6, <2>7
<1> HIDE DEF G, P
<1>4. \A n \in Nat : n \in G
  BY <1>2, <1>3, NatSetInduction
<1>5. P(Len(s))
  <2>1. Len(s) \in Nat
    OBVIOUS
  <2> QED BY <1>4, <2>1 DEF G
<1>6. DOMAIN s = 1 .. Len(s)
  OBVIOUS
<1>7. g[Len(s)] = Kept(s, I)
  BY <1>1 DEF Keeps
<1> QED BY <1>5, <1>6, <1>7 DEF Covers, P

\* What v gives each element of a list, and the sum of it.
Listed(v, s) == [i \in DOMAIN s |-> v[s[i]]]
Total(v, s) == SumFunction(Listed(v, s))

\* The positions of s in I.
At(s, I) == {i \in DOMAIN s : i \in I}

\* A list's sum is a natural number.
LEMMA TotalNat ==
  ASSUME NEW X, NEW v \in [X -> Nat], NEW s \in Seq(X)
  PROVE  Total(v, s) \in Nat
<1> DEFINE f == Listed(v, s)
<1>1. DOMAIN f = 1 .. Len(s) /\ Len(s) \in Nat /\ DOMAIN f = DOMAIN s
  BY DEF Listed
<1>2. \A i \in DOMAIN f : f[i] \in Nat
  BY DEF Listed
<1> HIDE DEF f
<1>3. IsFiniteSet(DOMAIN f)
  BY <1>1, FS_Interval
<1>4. SumFunctionOnSet(f, DOMAIN f) \in Nat
  BY <1>2, <1>3, SumNat
<1> QED BY <1>4 DEF Total, SumFunction, f, SumFunctionOnSet

\* An appended element adds its value.
LEMMA TotalAppend ==
  ASSUME NEW X, NEW v \in [X -> Nat], NEW s \in Seq(X), NEW x \in X
  PROVE  Total(v, Append(s, x)) = Total(v, s) + v[x]
<1> DEFINE t == Append(s, x)
           f == Listed(v, s)
           h == Listed(v, t)
           n == Len(s)
           D == 1 .. n
<1>1. /\ n \in Nat /\ DOMAIN f = D /\ DOMAIN h = D \cup {n + 1}
      /\ n + 1 \notin D
  BY DEF Listed
<1>2. /\ h[n + 1] = v[x]
      /\ \A i \in D : h[i] = f[i] /\ f[i] \in Nat
  BY DEF Listed
<1>3. SumFunction(f) = SumFunctionOnSet(f, D) /\
      SumFunction(h) = SumFunctionOnSet(h, D \cup {n + 1})
  BY <1>1 DEF SumFunction, SumFunctionOnSet, FoldFunction
<1>4. v[x] \in Nat
  BY DEF Listed
<1> HIDE DEF f, h, n, t, D
<1>5. IsFiniteSet(D)
  BY <1>1, FS_Interval DEF D
<1>6. SumFunctionOnSet(h, D \cup {n + 1}) = SumFunctionOnSet(h, D) + h[n + 1]
  BY <1>1, <1>2, <1>4, <1>5, SumAdd
<1>7. SumFunctionOnSet(h, D) = SumFunctionOnSet(f, D)
  BY <1>2, <1>5, SumEqual
<1> QED BY <1>2, <1>3, <1>6, <1>7 DEF Total, f, h, t

\* The empty list's sum.
LEMMA TotalEmpty == ASSUME NEW v PROVE Total(v, <<>>) = 0
<1> DEFINE f == Listed(v, <<>>)
<1>1. DOMAIN f = {}
  BY DEF Listed
<1> HIDE DEF f
<1>2. SumFunctionOnSet(f, DOMAIN f) = 0
  BY <1>1, SumEmpty
<1> QED BY <1>2 DEF Total, SumFunction, f

\* The sum over a filtered list is the sum over the positions kept.
LEMMA KeptTotal ==
  ASSUME NEW X, NEW v \in [X -> Nat], NEW s \in Seq(X), NEW I
  PROVE  Total(v, Kept(s, I)) =
           SumFunctionOnSet(Listed(v, s), At(s, I))
<1> DEFINE f == Listed(v, s)
           D(n) == {i \in 1 .. n : i \in I}
<1>1. PICK g : Keeps(g, s, I)
  BY KeptSteps
<1> DEFINE P(n) == g[n] \in Seq(X) /\ Total(v, g[n]) = SumFunctionOnSet(f, D(n))
           G == {n \in Nat : n <= Len(s) => P(n)}
<1>2. 0 \in G
  <2>1. g[0] = <<>> /\ D(0) = {}
    BY <1>1 DEF Keeps
  <2> HIDE DEF f, D
  <2>2. Total(v, g[0]) = 0 /\ SumFunctionOnSet(f, D(0)) = 0
    BY <2>1, TotalEmpty, SumEmpty
  <2>3. g[0] \in Seq(X)
    BY <2>1
  <2> QED BY <2>2, <2>3
<1>3. ASSUME NEW n \in Nat, n \in G PROVE n + 1 \in G
  <2> SUFFICES ASSUME n + 1 <= Len(s) PROVE P(n + 1)
    OBVIOUS
  <2>1. P(n)
    BY <1>3
  <2>2. s[n + 1] \in X /\ f[n + 1] = v[s[n + 1]]
    BY DEF Listed
  <2>3. CASE n + 1 \in I
    <3>1. g[n + 1] = Append(g[n], s[n + 1])
      BY <1>1, <2>3 DEF Keeps
    <3>2. g[n + 1] \in Seq(X)
      BY <2>1, <2>2, <3>1
    <3>3. Total(v, g[n + 1]) = Total(v, g[n]) + v[s[n + 1]]
      BY <2>1, <2>2, <3>1, TotalAppend
    <3>4. D(n + 1) = D(n) \cup {n + 1} /\ n + 1 \notin D(n)
      BY <2>3
    <3>5. IsFiniteSet(D(n))
      <4>1. IsFiniteSet(1 .. n)
        BY FS_Interval
      <4> QED BY <4>1, FS_Subset
    <3>6. \A i \in D(n) \cup {n + 1} : f[i] \in Int
      BY DEF Listed
    <3> DEFINE A == D(n)
               m == n + 1
    <3> HIDE DEF f, D, P, A, m, G
    <3>7. SumFunctionOnSet(f, A \cup {m}) = SumFunctionOnSet(f, A) + f[m]
      <4>1. IsFiniteSet(A) /\ m \notin A /\ \A i \in A \cup {m} : f[i] \in Int
        BY <3>4, <3>5, <3>6 DEF A, m
      <4> QED BY <4>1, SumAdd
    <3> QED BY <2>1, <2>2, <3>2, <3>3, <3>4, <3>7 DEF P, A, m
  <2>4. CASE n + 1 \notin I
    <3>1. g[n + 1] = g[n]
      BY <1>1, <2>4 DEF Keeps
    <3>2. D(n + 1) = D(n)
      BY <2>4
    <3> HIDE DEF D
    <3> QED BY <2>1, <3>1, <3>2
  <2> QED BY <2>3, <2>4
<1> HIDE DEF G, P
<1>4. \A n \in Nat : n \in G
  BY <1>2, <1>3, NatSetInduction
<1>5. Len(s) \in Nat
  OBVIOUS
<1>6. P(Len(s))
  BY <1>4, <1>5 DEF G
<1>7. D(Len(s)) = At(s, I)
  BY DEF At
<1> HIDE DEF f, D
<1> QED BY <1>1, <1>6, <1>7 DEF Keeps, P, f

\* A list's sum is split by any choice of positions.
LEMMA KeptSplit ==
  ASSUME NEW X, NEW v \in [X -> Nat], NEW s \in Seq(X), NEW I, NEW J,
         \A i \in DOMAIN s : i \in J <=> i \notin I
  PROVE  Total(v, s) = Total(v, Kept(s, I)) + Total(v, Kept(s, J))
<1> DEFINE f == Listed(v, s)
           S == DOMAIN s
           T == At(s, I)
           U == At(s, J)
<1>1. /\ Total(v, Kept(s, I)) = SumFunctionOnSet(f, T)
      /\ Total(v, Kept(s, J)) = SumFunctionOnSet(f, U)
  BY KeptTotal
<1>2. T \in SUBSET S /\ U = S \ T /\ \A i \in S : f[i] \in Int
  BY DEF At, Listed
<1>3. IsFiniteSet(S)
  <2>1. S = 1 .. Len(s) /\ Len(s) \in Nat
    OBVIOUS
  <2> QED BY <2>1, FS_Interval
<1>4. Total(v, s) = SumFunctionOnSet(f, S)
  <2>1. DOMAIN f = S
    BY DEF Listed
  <2> QED BY <2>1 DEF Total, SumFunction
<1> HIDE DEF f, S, T, U
<1>5. SumFunctionOnSet(f, S) = SumFunctionOnSet(f, T) + SumFunctionOnSet(f, S \ T)
  BY <1>2, <1>3, SumSplit
<1> QED BY <1>1, <1>2, <1>4, <1>5


\* The sum and the sum without one of the positions.
LEMMA TotalWithout ==
  ASSUME NEW X, NEW v \in [X -> Nat], NEW s \in Seq(X), NEW k \in DOMAIN s
  PROVE  /\ Total(v, s) =
              v[s[k]] + SumFunctionOnSet(Listed(v, s), DOMAIN s \ {k})
         /\ SumFunctionOnSet(Listed(v, s), DOMAIN s \ {k}) \in Nat
         /\ v[s[k]] \in Nat
<1> DEFINE f == Listed(v, s)
           S == DOMAIN s
<1>1. DOMAIN f = S /\ f[k] = v[s[k]] /\ \A i \in S : f[i] \in Nat
  BY DEF Listed
<1>2. IsFiniteSet(S)
  <2>1. S = 1 .. Len(s) /\ Len(s) \in Nat
    OBVIOUS
  <2> QED BY <2>1, FS_Interval
<1>3. Total(v, s) = SumFunctionOnSet(f, S)
  BY <1>1 DEF Total, SumFunction
<1>4. k \in S /\ v[s[k]] \in Nat
  OBVIOUS
<1> HIDE DEF f, S
<1>5. SumFunctionOnSet(f, S) = f[k] + SumFunctionOnSet(f, S \ {k})
  BY <1>1, <1>2, <1>4, SumRemove
<1>6. SumFunctionOnSet(f, S \ {k}) \in Nat
  BY <1>1, <1>2, SumNat
<1> QED BY <1>1, <1>3, <1>4, <1>5, <1>6 DEF f, S

\* No element is worth more than the list.
LEMMA ElementTotal ==
  ASSUME NEW X, NEW v \in [X -> Nat], NEW s \in Seq(X), NEW k \in DOMAIN s
  PROVE  v[s[k]] <= Total(v, s)
<1> DEFINE rest == SumFunctionOnSet(Listed(v, s), DOMAIN s \ {k})
<1>1. Total(v, s) = v[s[k]] + rest /\ rest \in Nat /\ v[s[k]] \in Nat
  BY TotalWithout
<1> HIDE DEF rest
<1> QED BY <1>1

\* Two lists that differ at most at position k.
SameBut(s, t, k) ==
  DOMAIN t = DOMAIN s /\ \A i \in DOMAIN s : i # k => t[i] = s[i]

\* Changing one position changes the sum by the difference.
LEMMA TotalChange ==
  ASSUME NEW X, NEW v \in [X -> Nat], NEW s \in Seq(X), NEW t \in Seq(X),
         NEW k \in DOMAIN s, SameBut(s, t, k)
  PROVE  Total(v, t) + v[s[k]] = Total(v, s) + v[t[k]]
<1> DEFINE f == Listed(v, s)
           g == Listed(v, t)
           S == DOMAIN s
           T == S \ {k}
<1>1. /\ Total(v, s) = v[s[k]] + SumFunctionOnSet(f, T)
      /\ SumFunctionOnSet(f, T) \in Nat /\ v[s[k]] \in Nat
  BY TotalWithout
<1>2. /\ Total(v, t) = v[t[k]] + SumFunctionOnSet(g, T)
      /\ SumFunctionOnSet(g, T) \in Nat /\ v[t[k]] \in Nat
  <2>1. k \in DOMAIN t /\ T = DOMAIN t \ {k}
    BY DEF SameBut
  <2>2. /\ Total(v, t) = v[t[k]] + SumFunctionOnSet(g, DOMAIN t \ {k})
        /\ SumFunctionOnSet(g, DOMAIN t \ {k}) \in Nat /\ v[t[k]] \in Nat
    BY <2>1, TotalWithout
  <2> QED BY <2>1, <2>2
<1>3. IsFiniteSet(S)
  <2>1. S = 1 .. Len(s) /\ Len(s) \in Nat
    OBVIOUS
  <2> QED BY <2>1, FS_Interval
<1>4. IsFiniteSet(T)
  BY <1>3, FS_Subset
<1>5. \A i \in T : f[i] \in Int /\ f[i] = g[i]
  BY DEF Listed, SameBut
<1> HIDE DEF f, g, S, T
<1>6. SumFunctionOnSet(f, T) = SumFunctionOnSet(g, T)
  BY <1>4, <1>5, SumEqual
<1> QED BY <1>1, <1>2, <1>6


-----------------------------------------------------------------------------
(* Lists of chunks.                                                        *)

\* The chunks with values in V.
ChunkOf(V) == [value : V, round : Nat]
\* Chunks of any value.
NatChunk == ChunkOf(Nat)

\* A chunk's value, as a function to sum.
ValueOf == [x \in NatChunk |-> x.value]

\* Values is the sum of the chunks' values.
LEMMA ValuesTotal ==
  ASSUME NEW s \in Seq(NatChunk)
  PROVE  Values(s) = Total(ValueOf, s)
<1>1. \A i \in DOMAIN s : s[i] \in NatChunk
  OBVIOUS
<1>2. [i \in DOMAIN s |-> s[i].value] = Listed(ValueOf, s)
  BY <1>1 DEF Listed, ValueOf
<1> QED BY <1>2 DEF Values, Total

\* A value is a number.
LEMMA ValueOfType == ValueOf \in [NatChunk -> Nat]
BY DEF ValueOf, NatChunk, ChunkOf

\* What a list of chunks is worth is a balance that covers each chunk.
LEMMA ValuesFacts ==
  ASSUME NEW s \in Seq(NatChunk)
  PROVE  /\ Values(s) \in Nat
         /\ \A i \in DOMAIN s : s[i].value <= Values(s)
         /\ s # <<>> => Last(s).value <= Values(s) /\ Last(s).value \in Nat
<1>1. Values(s) \in Nat
  BY ValuesTotal, ValueOfType, TotalNat
<1>2. \A i \in DOMAIN s : s[i].value <= Values(s)
  <2> SUFFICES ASSUME NEW i \in DOMAIN s PROVE s[i].value <= Values(s)
    OBVIOUS
  <2>1. ValueOf[s[i]] <= Total(ValueOf, s)
    BY ValueOfType, ElementTotal
  <2>2. ValueOf[s[i]] = s[i].value
    BY DEF ValueOf
  <2> QED BY <2>1, <2>2, ValuesTotal
<1>3. ASSUME s # <<>>
      PROVE  Len(s) \in DOMAIN s /\ Last(s) = s[Len(s)] /\ Last(s) \in NatChunk
  BY <1>3 DEF Last
<1> QED BY <1>1, <1>2, <1>3 DEF NatChunk, ChunkOf

\* No chunk, no value.
LEMMA ValuesEmpty == Values(<<>>) = 0
<1>1. <<>> \in Seq(NatChunk)
  OBVIOUS
<1> QED BY <1>1, ValuesTotal, TotalEmpty

\* A chunk more is its value more.
LEMMA ValuesAppend ==
  ASSUME NEW s \in Seq(NatChunk), NEW x \in NatChunk
  PROVE  Values(Append(s, x)) = Values(s) + x.value
<1>1. Append(s, x) \in Seq(NatChunk)
  OBVIOUS
<1>2. Total(ValueOf, Append(s, x)) = Total(ValueOf, s) + ValueOf[x]
  BY ValueOfType, TotalAppend
<1>3. ValueOf[x] = x.value
  BY DEF ValueOf
<1> QED BY <1>1, <1>2, <1>3, ValuesTotal

\* A consolidation splits a list into what stays and what it takes out.
LEMMA ConsolidationSplit ==
  ASSUME NEW V \in SUBSET Nat, NEW s \in Seq(ChunkOf(V)),
         NEW round \in Nat
  PROVE  /\ Pending(s, round) \in Seq(ChunkOf(V))
         /\ Matured(s, round) \in Seq(ChunkOf(V))
         /\ Values(s) = Values(Pending(s, round)) + Values(Matured(s, round))
         /\ \A i \in DOMAIN Pending(s, round) : Pending(s, round)[i].round > round
<1> DEFINE I == {i \in DOMAIN s : s[i].round > round}
           J == {i \in DOMAIN s : s[i].round <= round}
           X == ChunkOf(V)
<1>1. Kept(s, I) \in Seq(X) /\ Kept(s, J) \in Seq(X)
  BY KeptElements
<1>2. Pending(s, round) = Kept(s, I) /\ Matured(s, round) = Kept(s, J)
  BY DEF Pending, Matured
<1>3. \A i \in DOMAIN s : i \in J <=> i \notin I
  <2>1. \A i \in DOMAIN s : s[i].round \in Nat
    <3>1. s \in Seq(X)
      OBVIOUS
    <3> HIDE DEF X
    <3>2. \A i \in DOMAIN s : s[i] \in X
      BY <3>1
    <3> QED BY <3>2 DEF X, ChunkOf
  <2> QED BY <2>1
<1>4. \A t \in Seq(X) : t \in Seq(NatChunk)
  <2>1. X \subseteq NatChunk
    BY DEF NatChunk, ChunkOf
  <2> HIDE DEF X
  <2> QED BY <2>1
<1>5. \A i \in I : s[i].round > round
  OBVIOUS
<1> HIDE DEF I, J, X
<1>6. s \in Seq(NatChunk)
  BY <1>4 DEF X
<1>7. Total(ValueOf, s) = Total(ValueOf, Kept(s, I)) + Total(ValueOf, Kept(s, J))
  BY <1>3, <1>6, ValueOfType, KeptSplit
<1>8. Values(s) = Values(Kept(s, I)) + Values(Kept(s, J))
  BY <1>1, <1>4, <1>6, <1>7, ValuesTotal
<1>9. \A j \in DOMAIN Kept(s, I) : \E i \in DOMAIN s : i \in I /\ Kept(s, I)[j] = s[i]
  BY KeptElements
<1>10. \A j \in DOMAIN Kept(s, I) : Kept(s, I)[j].round > round
  BY <1>5, <1>9
<1> QED BY <1>1, <1>2, <1>8, <1>10 DEF X


-----------------------------------------------------------------------------
(* Lists of bonds.                                                         *)

\* The bonds of owners in O with amounts in A.
BondOf(O, A) == [owner : O, amount : A]
\* Bonds of any owner and amount.
NatBond == BondOf(Nat, Nat)

\* A bond's amount, as a function to sum.
AmountOf == [x \in NatBond |-> x.amount]

\* Amounts is the sum of the bonds' amounts.
LEMMA AmountsTotal ==
  ASSUME NEW s \in Seq(NatBond)
  PROVE  Amounts(s) = Total(AmountOf, s)
<1>1. \A i \in DOMAIN s : s[i] \in NatBond
  OBVIOUS
<1>2. [i \in DOMAIN s |-> s[i].amount] = Listed(AmountOf, s)
  BY <1>1 DEF Listed, AmountOf
<1> QED BY <1>2 DEF Amounts, Total

\* An amount is a number.
LEMMA AmountOfType == AmountOf \in [NatBond -> Nat]
BY DEF AmountOf, NatBond, BondOf

\* What a list of bonds is worth is a balance that covers each bond.
LEMMA AmountsFacts ==
  ASSUME NEW s \in Seq(NatBond)
  PROVE  /\ Amounts(s) \in Nat
         /\ \A i \in DOMAIN s : s[i].amount <= Amounts(s)
<1>1. Amounts(s) \in Nat
  BY AmountsTotal, AmountOfType, TotalNat
<1>2. \A i \in DOMAIN s : s[i].amount <= Amounts(s)
  <2> SUFFICES ASSUME NEW i \in DOMAIN s PROVE s[i].amount <= Amounts(s)
    OBVIOUS
  <2>1. AmountOf[s[i]] <= Total(AmountOf, s)
    BY AmountOfType, ElementTotal
  <2>2. AmountOf[s[i]] = s[i].amount
    BY DEF AmountOf
  <2> QED BY <2>1, <2>2, AmountsTotal
<1> QED BY <1>1, <1>2

\* No bond, no amount.
LEMMA AmountsEmpty == Amounts(<<>>) = 0
<1>1. <<>> \in Seq(NatBond)
  OBVIOUS
<1> QED BY <1>1, AmountsTotal, TotalEmpty

\* A bond more is its amount more, and its owner is listed.
LEMMA AmountsAppend ==
  ASSUME NEW s \in Seq(NatBond), NEW x \in NatBond
  PROVE  /\ Amounts(Append(s, x)) = Amounts(s) + x.amount
         /\ Owners(Append(s, x)) = Owners(s) \cup {x.owner}
<1>1. Append(s, x) \in Seq(NatBond)
  OBVIOUS
<1>2. Total(AmountOf, Append(s, x)) = Total(AmountOf, s) + AmountOf[x]
  BY AmountOfType, TotalAppend
<1>3. AmountOf[x] = x.amount
  BY DEF AmountOf
<1>4. Amounts(Append(s, x)) = Amounts(s) + x.amount
  BY <1>1, <1>2, <1>3, AmountsTotal
<1>5. Owners(Append(s, x)) = Owners(s) \cup {x.owner}
  <2> DEFINE t == Append(s, x)
             n == Len(s)
  <2>1. /\ n \in Nat /\ DOMAIN s = 1 .. n /\ DOMAIN t = 1 .. n + 1
        /\ t[n + 1] = x /\ \A i \in 1 .. n : t[i] = s[i]
    OBVIOUS
  <2>2. /\ \A i \in 1 .. n + 1 : i = n + 1 \/ i \in 1 .. n
        /\ \A i \in 1 .. n : i \in 1 .. n + 1
        /\ n + 1 \in 1 .. n + 1
    BY <2>1
  <2> HIDE DEF t, n
  <2>3. Owners(t) = {t[i].owner : i \in 1 .. n + 1}
    BY <2>1 DEF Owners
  <2>4. Owners(s) = {s[i].owner : i \in 1 .. n}
    BY <2>1 DEF Owners
  <2>5. Owners(t) = Owners(s) \cup {x.owner}
    BY <2>1, <2>2, <2>3, <2>4
  <2> QED BY <2>5 DEF t
<1> QED BY <1>4, <1>5

\* WithoutOwner and OfOwner split a list.
SplitsOff(s, owner) ==
  /\ Amounts(s) = Amounts(WithoutOwner(s, owner)) + Amounts(OfOwner(s, owner))
  /\ Owners(WithoutOwner(s, owner)) = Owners(s) \ {owner}
  /\ owner \in Owners(s) => OfOwner(s, owner) # <<>>

\* Dropping an owner's bonds drops exactly those.
LEMMA OwnerSplit ==
  ASSUME NEW O \in SUBSET Nat, NEW A \in SUBSET Nat,
         NEW s \in Seq(BondOf(O, A)), NEW owner
  PROVE  /\ WithoutOwner(s, owner) \in Seq(BondOf(O, A))
         /\ OfOwner(s, owner) \in Seq(BondOf(O, A))
         /\ SplitsOff(s, owner)
<1> DEFINE I == {i \in DOMAIN s : s[i].owner # owner}
           J == {i \in DOMAIN s : s[i].owner = owner}
           X == BondOf(O, A)
<1>1. Kept(s, I) \in Seq(X) /\ Kept(s, J) \in Seq(X)
  BY KeptElements
<1>2. WithoutOwner(s, owner) = Kept(s, I) /\ OfOwner(s, owner) = Kept(s, J)
  BY DEF WithoutOwner, OfOwner
<1>3. \A i \in DOMAIN s : i \in J <=> i \notin I
  OBVIOUS
<1>4. \A t \in Seq(X) : t \in Seq(NatBond)
  <2>1. X \subseteq NatBond
    BY DEF NatBond, BondOf
  <2> HIDE DEF X
  <2> QED BY <2>1
<1>5. /\ \A i \in I : i \in DOMAIN s /\ s[i].owner # owner
      /\ \A i \in DOMAIN s : s[i].owner # owner => i \in I
      /\ \A i \in DOMAIN s : s[i].owner = owner => i \in J
  OBVIOUS
<1> HIDE DEF I, J, X
<1>6. s \in Seq(NatBond)
  BY <1>4 DEF X
<1>7. Total(AmountOf, s) = Total(AmountOf, Kept(s, I)) + Total(AmountOf, Kept(s, J))
  BY <1>3, <1>6, AmountOfType, KeptSplit
<1>8. Amounts(s) = Amounts(Kept(s, I)) + Amounts(Kept(s, J))
  BY <1>1, <1>4, <1>6, <1>7, AmountsTotal
<1>9. /\ \A j \in DOMAIN Kept(s, I) :
           \E i \in DOMAIN s : i \in I /\ Kept(s, I)[j] = s[i]
      /\ \A i \in DOMAIN s : i \in I =>
           \E j \in DOMAIN Kept(s, I) : Kept(s, I)[j] = s[i]
      /\ \A i \in DOMAIN s : i \in J =>
           \E j \in DOMAIN Kept(s, J) : Kept(s, J)[j] = s[i]
  <2>1. \A j \in DOMAIN Kept(s, I) :
          \E i \in DOMAIN s : i \in I /\ Kept(s, I)[j] = s[i]
    BY <1>6, KeptElements
  <2>2. Covers(Kept(s, I), s, I) /\ Covers(Kept(s, J), s, J)
    BY <1>6, KeptElements
  <2> QED BY <2>1, <2>2 DEF Covers
<1>10. Owners(Kept(s, I)) = Owners(s) \ {owner}
  <2>1. ASSUME NEW a \in Owners(Kept(s, I)) PROVE a \in Owners(s) \ {owner}
    BY <1>5, <1>9 DEF Owners
  <2>2. ASSUME NEW a \in Owners(s) \ {owner} PROVE a \in Owners(Kept(s, I))
    <3>1. PICK i \in DOMAIN s : a = s[i].owner
      BY DEF Owners
    <3>2. PICK j \in DOMAIN Kept(s, I) : Kept(s, I)[j] = s[i]
      BY <1>5, <1>9, <3>1
    <3> QED BY <3>1, <3>2 DEF Owners
  <2> QED BY <2>1, <2>2
<1>11. ASSUME owner \in Owners(s) PROVE Kept(s, J) # <<>>
  <2>1. PICK i \in DOMAIN s : owner = s[i].owner
    BY <1>11 DEF Owners
  <2>2. PICK j \in DOMAIN Kept(s, J) : TRUE
    BY <1>5, <1>9, <2>1
  <2>3. DOMAIN <<>> = {}
    OBVIOUS
  <2> QED BY <2>2, <2>3
<1> QED BY <1>1, <1>2, <1>8, <1>10, <1>11 DEF X, SplitsOff

\* The last of an owner's bonds, the one rm_nomination releases.
LEMMA LastOfOwner ==
  ASSUME NEW O \in SUBSET Nat, NEW A \in SUBSET Nat,
         NEW s \in Seq(BondOf(O, A)), NEW owner \in Owners(s)
  PROVE  /\ Last(OfOwner(s, owner)).amount \in A
         /\ Last(OfOwner(s, owner)).amount <= Amounts(OfOwner(s, owner))
<1> DEFINE t == OfOwner(s, owner)
           X == BondOf(O, A)
<1>1. t \in Seq(X) /\ t # <<>>
  <2>1. t \in Seq(X) /\ SplitsOff(s, owner)
    BY OwnerSplit
  <2> QED BY <2>1 DEF SplitsOff
<1>2. \A u \in Seq(X) : u \in Seq(NatBond)
  <2>1. X \subseteq NatBond
    BY DEF NatBond, BondOf
  <2> HIDE DEF X
  <2> QED BY <2>1
<1> HIDE DEF t, X
<1>3. Len(t) \in DOMAIN t /\ Last(t) = t[Len(t)] /\ Last(t) \in X
  BY <1>1 DEF Last
<1>4. t[Len(t)].amount <= Amounts(t)
  BY <1>1, <1>2, <1>3, AmountsFacts
<1> QED BY <1>3, <1>4 DEF t, X, BondOf

\* find(owner) gives a position of that owner, if it is listed.
LEMMA FirstBondFacts ==
  ASSUME NEW X, NEW s \in Seq(X), NEW owner
  PROVE  /\ FirstBond(s, owner) # 0 =>
              /\ FirstBond(s, owner) \in DOMAIN s
              /\ s[FirstBond(s, owner)].owner = owner
         /\ owner \in Owners(s) => FirstBond(s, owner) # 0
<1> DEFINE I == {i \in 1 .. Len(s) : s[i].owner = owner}
<1>1. FirstBond(s, owner) = IF I # {} THEN Min(I) ELSE 0
  BY DEF FirstBond, SelectInSeq
<1>2. DOMAIN s = 1 .. Len(s) /\ Len(s) \in Nat /\ I \in SUBSET Nat
  OBVIOUS
<1>3. owner \in Owners(s) => I # {}
  BY <1>2 DEF Owners
<1>4. \A i \in I : i \in DOMAIN s /\ s[i].owner = owner /\ i # 0
  BY <1>2
<1> HIDE DEF I
<1>5. ASSUME I # {} PROVE Min(I) \in I
  <2>1. \E x \in I : \A y \in I : x <= y
    BY <1>2, <1>5, LeastNat
  <2> QED BY <2>1 DEF Min
<1> QED BY <1>1, <1>3, <1>4, <1>5


\* The list with the amount at position k replaced.
WithAmount(s, k, a) == [s EXCEPT ![k].amount = a]

\* A changed amount: the list keeps its owners, and its worth changes by the
\* difference.
LEMMA AmountChange ==
  ASSUME NEW O \in SUBSET Nat, NEW A \in SUBSET Nat,
         NEW s \in Seq(BondOf(O, A)), NEW k \in DOMAIN s,
         NEW a \in A
  PROVE  /\ WithAmount(s, k, a) \in Seq(BondOf(O, A))
         /\ Owners(WithAmount(s, k, a)) = Owners(s)
         /\ Amounts(WithAmount(s, k, a)) + s[k].amount = Amounts(s) + a
         /\ s[k].amount \in A
<1> DEFINE X == BondOf(O, A)
           t == WithAmount(s, k, a)
<1>1. \A u \in Seq(X) : u \in Seq(NatBond)
  <2>1. X \subseteq NatBond
    BY DEF NatBond, BondOf
  <2> HIDE DEF X
  <2> QED BY <2>1
<1>2. s \in Seq(X) /\ s[k] \in X
  <2>1. s \in Seq(X)
    OBVIOUS
  <2> HIDE DEF X
  <2> QED BY <2>1
<1>3. [s[k] EXCEPT !.amount = a] \in X
  BY <1>2 DEF BondOf
<1>4. /\ DOMAIN t = DOMAIN s
      /\ \A i \in DOMAIN s : i # k => t[i] = s[i]
  BY DEF WithAmount
<1>5. t = [s EXCEPT ![k] = [s[k] EXCEPT !.amount = a]]
  BY DEF WithAmount
<1>6. t[k].owner = s[k].owner /\ t[k].amount = a /\ s[k].amount \in A
  <2>1. t[k] = [s[k] EXCEPT !.amount = a]
    BY DEF WithAmount
  <2> QED BY <1>2, <2>1 DEF BondOf
<1> HIDE DEF X, t
<1>7. t \in Seq(X)
  BY <1>2, <1>3, <1>5
<1>8. \A i \in DOMAIN s : t[i].owner = s[i].owner
  BY <1>4, <1>6
<1>9. Owners(t) = Owners(s)
  BY <1>4, <1>8 DEF Owners
<1>10. s \in Seq(NatBond) /\ t \in Seq(NatBond)
  BY <1>1, <1>2, <1>7
<1>11. Total(AmountOf, t) + AmountOf[s[k]] = Total(AmountOf, s) + AmountOf[t[k]]
  <2>1. SameBut(s, t, k)
    BY <1>4 DEF SameBut
  <2> QED BY <1>10, <2>1, AmountOfType, TotalChange
<1>12. AmountOf[s[k]] = s[k].amount /\ AmountOf[t[k]] = t[k].amount
  <2>1. s[k] \in NatBond /\ t[k] \in NatBond
    BY <1>4, <1>10
  <2> QED BY <2>1 DEF AmountOf
<1>13. Amounts(t) + s[k].amount = Amounts(s) + a
  BY <1>6, <1>10, <1>11, <1>12, AmountsTotal
<1> QED BY <1>6, <1>7, <1>9, <1>13 DEF t, X

\* nominate_extra on a list: the sum may wrap, so it grows by at most extra.
LEMMA Raised ==
  ASSUME NEW O \in SUBSET Nat,
         NEW s \in Seq(BondOf(O, 0 .. BalanceModulus - 1)),
         NEW owner \in Owners(s), NEW extra \in Nat
  PROVE  /\ RaiseFirst(s, owner, extra)
              \in Seq(BondOf(O, 0 .. BalanceModulus - 1))
         /\ Owners(RaiseFirst(s, owner, extra)) = Owners(s)
         /\ Amounts(RaiseFirst(s, owner, extra)) <= Amounts(s) + extra
<1> DEFINE A == 0 .. BalanceModulus - 1
           k == FirstBond(s, owner)
           a == Plus(s[k].amount, extra)
           X == BondOf(O, A)
<1>1. k \in DOMAIN s
  BY FirstBondFacts
<1>2. A \in SUBSET Nat /\ s \in Seq(X)
  BY ModulusAssumption
<1>3. RaiseFirst(s, owner, extra) = WithAmount(s, k, a)
  BY DEF RaiseFirst, WithAmount
<1>4. s[k].amount \in A
  <2> HIDE DEF X, k
  <2>1. s[k] \in X
    BY <1>1, <1>2
  <2> QED BY <2>1 DEF X, BondOf
<1>5. a \in A /\ a <= s[k].amount + extra
  <2> DEFINE b == s[k].amount
  <2>1. b \in Nat
    BY <1>2, <1>4
  <2> HIDE DEF b
  <2>2. /\ (b + extra) % BalanceModulus \in 0 .. BalanceModulus - 1
        /\ (b + extra) % BalanceModulus <= b + extra
    BY <2>1, ModulusAssumption
  <2> QED BY <2>2 DEF Plus, b
<1>6. Amounts(s) \in Nat
  <2>1. X \subseteq NatBond
    BY <1>2 DEF NatBond, BondOf
  <2> HIDE DEF X
  <2>2. s \in Seq(NatBond)
    BY <1>2, <2>1
  <2> QED BY <2>2, AmountsFacts
<1> HIDE DEF k, a, A, X
<1>7. /\ WithAmount(s, k, a) \in Seq(BondOf(O, A))
      /\ Owners(WithAmount(s, k, a)) = Owners(s)
      /\ Amounts(WithAmount(s, k, a)) + s[k].amount = Amounts(s) + a
  BY <1>1, <1>2, <1>5, AmountChange DEF X
<1>8. Amounts(WithAmount(s, k, a)) \in Nat
  <2>1. \A u \in Seq(X) : u \in Seq(NatBond)
    <3>1. X \subseteq NatBond
      BY <1>2 DEF NatBond, BondOf, X
    <3> QED BY <3>1
  <2>2. WithAmount(s, k, a) \in Seq(NatBond)
    BY <1>7, <2>1 DEF X
  <2> QED BY <2>2, AmountsFacts
<1>9. Amounts(WithAmount(s, k, a)) <= Amounts(s) + extra
  <2>1. s[k].amount \in Nat /\ a \in Nat
    BY <1>2, <1>4, <1>5
  <2>2. Amounts(WithAmount(s, k, a)) + s[k].amount = Amounts(s) + a
    BY <1>7
  <2> QED BY <1>5, <1>6, <1>8, <2>1, <2>2
<1> QED BY <1>3, <1>7, <1>9 DEF A

\* nominate_less on a list lowers its worth by exactly less.
LEMMA Lowered ==
  ASSUME NEW O \in SUBSET Nat,
         NEW s \in Seq(BondOf(O, 0 .. BalanceModulus - 1)),
         NEW owner, NEW less \in Nat, CanLowerFirst(s, owner, less)
  PROVE  /\ LowerFirst(s, owner, less)
              \in Seq(BondOf(O, 0 .. BalanceModulus - 1))
         /\ Owners(LowerFirst(s, owner, less)) = Owners(s)
         /\ Amounts(LowerFirst(s, owner, less)) + less = Amounts(s)
         /\ less \in 0 .. BalanceModulus - 1
<1> DEFINE A == 0 .. BalanceModulus - 1
           k == FirstBond(s, owner)
           a == s[k].amount - less
           X == BondOf(O, A)
<1>1. k \in DOMAIN s /\ s[k].amount > less
  BY FirstBondFacts DEF CanLowerFirst
<1>2. A \in SUBSET Nat /\ s \in Seq(X)
  BY ModulusAssumption
<1>3. LowerFirst(s, owner, less) = WithAmount(s, k, a)
  BY DEF LowerFirst, WithAmount
<1>4. s[k].amount \in A
  <2> HIDE DEF X, k
  <2>1. s[k] \in X
    BY <1>1, <1>2
  <2> QED BY <2>1 DEF X, BondOf
<1>5. a \in A /\ a + less = s[k].amount /\ less \in A /\ s[k].amount \in Nat
      /\ a \in Nat
  BY <1>1, <1>4, ModulusAssumption
<1>6. \A u \in Seq(X) : u \in Seq(NatBond)
  <2>1. X \subseteq NatBond
    BY <1>2 DEF NatBond, BondOf
  <2> HIDE DEF X
  <2> QED BY <2>1
<1> HIDE DEF k, a, A, X
<1>7. /\ WithAmount(s, k, a) \in Seq(BondOf(O, A))
      /\ Owners(WithAmount(s, k, a)) = Owners(s)
      /\ Amounts(WithAmount(s, k, a)) + s[k].amount = Amounts(s) + a
  BY <1>1, <1>2, <1>5, AmountChange DEF X
<1>8. Amounts(WithAmount(s, k, a)) \in Nat /\ Amounts(s) \in Nat
  BY <1>2, <1>6, <1>7, AmountsFacts DEF X
<1>9. Amounts(WithAmount(s, k, a)) + less = Amounts(s)
  <2>1. Amounts(WithAmount(s, k, a)) + s[k].amount = Amounts(s) + a
    BY <1>7
  <2> QED BY <1>5, <1>8, <2>1
<1> QED BY <1>3, <1>5, <1>7, <1>9 DEF A

-----------------------------------------------------------------------------
(* What one owner has in a list, and what a call changes of it.            *)

\* Functions that agree on the elements of a list have the same sum over it.
LEMMA TotalEqual ==
  ASSUME NEW X, NEW v, NEW w, NEW s \in Seq(X),
         \A i \in DOMAIN s : v[s[i]] = w[s[i]]
  PROVE  Total(v, s) = Total(w, s)
<1>1. Listed(v, s) = Listed(w, s)
  BY DEF Listed
<1> QED BY <1>1 DEF Total

\* A list of elements that are worth nothing.
LEMMA TotalZero ==
  ASSUME NEW X, NEW v, NEW s \in Seq(X), \A i \in DOMAIN s : v[s[i]] = 0
  PROVE  Total(v, s) = 0
<1> DEFINE f == Listed(v, s)
<1>1. DOMAIN f = 1 .. Len(s) /\ Len(s) \in Nat /\ \A i \in DOMAIN f : f[i] = 0
  BY DEF Listed
<1> HIDE DEF f
<1>2. SumFunctionOnSet(f, DOMAIN f) = 0
  <2>1. IsFiniteSet(DOMAIN f)
    BY <1>1, FS_Interval
  <2> QED BY <1>1, <2>1, SumZero
<1> QED BY <1>2 DEF Total, SumFunction, f

\* Two positions are together worth no more than the list.
LEMMA TwoTotal ==
  ASSUME NEW X, NEW v \in [X -> Nat], NEW s \in Seq(X), NEW k \in DOMAIN s,
         NEW l \in DOMAIN s, k # l
  PROVE  v[s[k]] + v[s[l]] <= Total(v, s)
<1> DEFINE f == Listed(v, s)
           T == DOMAIN s \ {k}
<1>1. /\ Total(v, s) = v[s[k]] + SumFunctionOnSet(f, T)
      /\ SumFunctionOnSet(f, T) \in Nat /\ v[s[k]] \in Nat
  BY TotalWithout
<1>2. IsFiniteSet(T)
  <2>1. DOMAIN s = 1 .. Len(s) /\ Len(s) \in Nat
    OBVIOUS
  <2>2. IsFiniteSet(DOMAIN s)
    BY <2>1, FS_Interval
  <2> QED BY <2>2, FS_RemoveElement
<1>3. \A i \in T : f[i] \in Nat
  BY DEF Listed
<1>4. f[l] = v[s[l]] /\ l \in T /\ v[s[l]] \in Nat
  BY DEF Listed
<1> HIDE DEF f, T
<1>5. f[l] <= SumFunctionOnSet(f, T)
  BY <1>2, <1>3, <1>4, SumMember
<1> QED BY <1>1, <1>4, <1>5

\* Induction over lists, for a set instead of a predicate.
LEMMA ListInduction ==
  ASSUME NEW X, NEW G, <<>> \in G,
         \A s \in Seq(X) : \A x \in X : s \in G => Append(s, x) \in G
  PROVE  \A s \in Seq(X) : s \in G
<1> DEFINE H == {n \in Nat : \A s \in Seq(X) : Len(s) = n => s \in G}
<1>1. 0 \in H
  <2>1. \A s \in Seq(X) : Len(s) = 0 => s = <<>>
    OBVIOUS
  <2> QED BY <2>1
<1>2. ASSUME NEW n \in Nat, n \in H PROVE n + 1 \in H
  <2> SUFFICES ASSUME NEW s \in Seq(X), Len(s) = n + 1 PROVE s \in G
    OBVIOUS
  <2> DEFINE t == [i \in 1 .. n |-> s[i]]
  <2>1. t \in Seq(X) /\ Len(t) = n /\ s[n + 1] \in X
    OBVIOUS
  <2>2. s = Append(t, s[n + 1])
    <3>1. DOMAIN s = 1 .. n + 1
      OBVIOUS
    <3>2. Append(t, s[n + 1]) \in Seq(X) /\ Len(Append(t, s[n + 1])) = n + 1
      BY <2>1
    <3>3. \A i \in 1 .. n + 1 : Append(t, s[n + 1])[i] = s[i]
      BY <2>1
    <3> QED BY <3>1, <3>2, <3>3
  <2> HIDE DEF t
  <2> QED BY <1>2, <2>1, <2>2
<1> HIDE DEF H
<1>3. \A n \in Nat : n \in H
  BY <1>1, <1>2, NatSetInduction
<1>4. \A s \in Seq(X) : Len(s) \in Nat
  OBVIOUS
<1> QED BY <1>3, <1>4 DEF H

\* What Kept makes of a list with one element more.
LEMMA KeptAppend ==
  ASSUME NEW X, NEW s \in Seq(X), NEW x \in X, NEW I, NEW J,
         \A i \in 1 .. Len(s) : i \in I <=> i \in J
  PROVE  Kept(Append(s, x), J) =
           IF Len(s) + 1 \in J THEN Append(Kept(s, I), x) ELSE Kept(s, I)
<1> DEFINE t == Append(s, x)
           m == Len(s)
<1>1. /\ t \in Seq(X) /\ Len(t) = m + 1 /\ m \in Nat /\ t[m + 1] = x
      /\ \A i \in 1 .. m : t[i] = s[i]
  OBVIOUS
<1>2. PICK g : Keeps(g, s, I)
  BY KeptSteps
<1>3. PICK h : Keeps(h, t, J)
  BY <1>1, KeptSteps
<1> HIDE DEF t
<1> DEFINE G == {n \in Nat : n <= m => g[n] = h[n]}
<1>4. 0 \in G
  BY <1>2, <1>3 DEF Keeps
<1>5. ASSUME NEW n \in Nat, n \in G PROVE n + 1 \in G
  <2> SUFFICES ASSUME n + 1 <= m PROVE g[n + 1] = h[n + 1]
    OBVIOUS
  <2>1. g[n] = h[n] /\ n + 1 \in 1 .. m /\ n + 1 <= Len(t)
    BY <1>1, <1>5
  <2>2. g[n + 1] = IF n + 1 \in I THEN Append(g[n], s[n + 1]) ELSE g[n]
    BY <1>2, <2>1 DEF Keeps
  <2>3. h[n + 1] = IF n + 1 \in J THEN Append(h[n], t[n + 1]) ELSE h[n]
    BY <1>3, <2>1 DEF Keeps
  <2> QED BY <1>1, <2>1, <2>2, <2>3
<1> HIDE DEF G
<1>6. m \in G
  BY <1>1, <1>4, <1>5, NatSetInduction
<1>7. g[m] = h[m]
  BY <1>1, <1>6 DEF G
<1>8. h[m + 1] = IF m + 1 \in J THEN Append(h[m], t[m + 1]) ELSE h[m]
  BY <1>1, <1>3 DEF Keeps
<1> QED BY <1>1, <1>2, <1>3, <1>7, <1>8 DEF Keeps, t

\* What an owner has in a list, and the last of its bonds there.
Owned(s, owner) == Amounts(OfOwner(s, owner))
LastOwned(s, owner) == Last(OfOwner(s, owner)).amount

\* A bond's amount if it is the owner's, as a function to sum.
AmountIf(owner) ==
  [x \in NatBond |-> IF x.owner = owner THEN x.amount ELSE 0]

\* It is a number.
LEMMA AmountIfType ==
  ASSUME NEW owner PROVE AmountIf(owner) \in [NatBond -> Nat]
BY DEF AmountIf, NatBond, BondOf

\* Filtering before or while summing is the same.
LEMMA OwnedTotal ==
  ASSUME NEW s \in Seq(NatBond), NEW owner
  PROVE  Owned(s, owner) = Total(AmountIf(owner), s) /\ Owned(s, owner) \in Nat
<1> DEFINE I == {i \in DOMAIN s : s[i].owner = owner}
           J == {i \in DOMAIN s : s[i].owner # owner}
           v == AmountIf(owner)
<1>1. \A i \in DOMAIN s : i \in J <=> i \notin I
  OBVIOUS
<1>2. Total(v, s) = Total(v, Kept(s, I)) + Total(v, Kept(s, J))
  BY <1>1, AmountIfType, KeptSplit
<1>3. /\ Kept(s, I) \in Seq(NatBond) /\ Kept(s, J) \in Seq(NatBond)
      /\ \A j \in DOMAIN Kept(s, I) :
           Kept(s, I)[j] \in NatBond /\ Kept(s, I)[j].owner = owner
      /\ \A j \in DOMAIN Kept(s, J) :
           Kept(s, J)[j] \in NatBond /\ Kept(s, J)[j].owner # owner
  <2>1. Kept(s, I) \in Seq(NatBond) /\ Kept(s, J) \in Seq(NatBond)
    BY KeptElements
  <2>2. /\ \A i \in I : s[i].owner = owner /\ s[i] \in NatBond
        /\ \A i \in J : s[i].owner # owner /\ s[i] \in NatBond
    OBVIOUS
  <2> HIDE DEF I, J
  <2>3. \A j \in DOMAIN Kept(s, I) :
          \E i \in DOMAIN s : i \in I /\ Kept(s, I)[j] = s[i]
    BY KeptElements
  <2>4. \A j \in DOMAIN Kept(s, J) :
          \E i \in DOMAIN s : i \in J /\ Kept(s, J)[j] = s[i]
    BY KeptElements
  <2> QED BY <2>1, <2>2, <2>3, <2>4
<1> HIDE DEF I, J
<1>4. Total(v, Kept(s, J)) = 0
  <2>1. \A j \in DOMAIN Kept(s, J) : v[Kept(s, J)[j]] = 0
    BY <1>3 DEF AmountIf
  <2> HIDE DEF v
  <2> QED BY <1>3, <2>1, TotalZero
<1>5. Total(v, Kept(s, I)) = Total(AmountOf, Kept(s, I))
  <2>1. \A j \in DOMAIN Kept(s, I) :
          v[Kept(s, I)[j]] = AmountOf[Kept(s, I)[j]]
    BY <1>3 DEF AmountIf, AmountOf
  <2> HIDE DEF v
  <2> QED BY <1>3, <2>1, TotalEqual
<1>6. Owned(s, owner) = Total(AmountOf, Kept(s, I))
  BY <1>3, AmountsTotal DEF Owned, OfOwner, I
<1>7. Total(AmountOf, Kept(s, I)) \in Nat
  BY <1>3, AmountOfType, TotalNat
<1> QED BY <1>2, <1>4, <1>5, <1>6, <1>7

\* An appended bond is its owner's.
LEMMA OwnedAppend ==
  ASSUME NEW s \in Seq(NatBond), NEW x \in NatBond, NEW owner
  PROVE  Owned(Append(s, x), owner) =
           Owned(s, owner) + (IF x.owner = owner THEN x.amount ELSE 0)
<1>1. Append(s, x) \in Seq(NatBond)
  OBVIOUS
<1>2. Total(AmountIf(owner), Append(s, x)) =
        Total(AmountIf(owner), s) + AmountIf(owner)[x]
  BY AmountIfType, TotalAppend
<1>3. AmountIf(owner)[x] = IF x.owner = owner THEN x.amount ELSE 0
  BY DEF AmountIf
<1> QED BY <1>1, <1>2, <1>3, OwnedTotal

\* A changed amount is its owner's.
LEMMA OwnedChange ==
  ASSUME NEW s \in Seq(NatBond), NEW k \in DOMAIN s, NEW a \in Nat, NEW owner
  PROVE  /\ WithAmount(s, k, a) \in Seq(NatBond)
         /\ s[k].owner = owner =>
              Owned(WithAmount(s, k, a), owner) + s[k].amount
                = Owned(s, owner) + a
         /\ s[k].owner # owner =>
              Owned(WithAmount(s, k, a), owner) = Owned(s, owner)
         /\ s[k].amount \in Nat
<1> DEFINE t == WithAmount(s, k, a)
           v == AmountIf(owner)
<1>1. t \in Seq(NatBond) /\ s[k].amount \in Nat
  BY AmountChange DEF NatBond
<1>2. /\ SameBut(s, t, k) /\ k \in DOMAIN t
      /\ t[k] = [s[k] EXCEPT !.amount = a]
  BY DEF SameBut, WithAmount
<1>3. s[k] \in NatBond /\ t[k] \in NatBond
  <2> HIDE DEF t
  <2> QED BY <1>1, <1>2
<1>4. t[k].owner = s[k].owner /\ t[k].amount = a
  BY <1>2, <1>3 DEF NatBond, BondOf
<1> HIDE DEF t
<1>5. Total(v, t) + v[s[k]] = Total(v, s) + v[t[k]]
  <2>1. v \in [NatBond -> Nat]
    BY AmountIfType
  <2>2. SameBut(s, t, k) /\ t \in Seq(NatBond)
    BY <1>1, <1>2
  <2> HIDE DEF v
  <2> QED BY <2>1, <2>2, TotalChange
<1>6. /\ v[s[k]] = IF s[k].owner = owner THEN s[k].amount ELSE 0
      /\ v[t[k]] = IF s[k].owner = owner THEN a ELSE 0
  BY <1>3, <1>4 DEF AmountIf
<1> HIDE DEF v
<1>7. /\ Owned(t, owner) = Total(v, t) /\ Owned(t, owner) \in Nat
      /\ Owned(s, owner) = Total(v, s) /\ Owned(s, owner) \in Nat
  BY <1>1, OwnedTotal DEF v
<1> QED BY <1>1, <1>5, <1>6, <1>7 DEF t

\* OfOwner and WithoutOwner of a list with one bond more.
LEMMA OwnerAppend ==
  ASSUME NEW s \in Seq(NatBond), NEW x \in NatBond, NEW owner
  PROVE  /\ OfOwner(Append(s, x), owner) =
              IF x.owner = owner THEN Append(OfOwner(s, owner), x)
                                 ELSE OfOwner(s, owner)
         /\ WithoutOwner(Append(s, x), owner) =
              IF x.owner # owner THEN Append(WithoutOwner(s, owner), x)
                                 ELSE WithoutOwner(s, owner)
<1> DEFINE t == Append(s, x)
           I == {i \in DOMAIN s : s[i].owner = owner}
           J == {i \in DOMAIN t : t[i].owner = owner}
           K == {i \in DOMAIN s : s[i].owner # owner}
           L == {i \in DOMAIN t : t[i].owner # owner}
<1>1. /\ \A i \in 1 .. Len(s) : i \in I <=> i \in J
      /\ \A i \in 1 .. Len(s) : i \in K <=> i \in L
      /\ Len(s) + 1 \in J <=> x.owner = owner
      /\ Len(s) + 1 \in L <=> x.owner # owner
  OBVIOUS
<1>2. /\ OfOwner(t, owner) = Kept(t, J) /\ OfOwner(s, owner) = Kept(s, I)
      /\ WithoutOwner(t, owner) = Kept(t, L)
      /\ WithoutOwner(s, owner) = Kept(s, K)
  BY DEF OfOwner, WithoutOwner
<1> HIDE DEF I, J, K, L
<1>3. Kept(t, J) =
        IF Len(s) + 1 \in J THEN Append(Kept(s, I), x) ELSE Kept(s, I)
  BY <1>1, KeptAppend
<1>4. Kept(t, L) =
        IF Len(s) + 1 \in L THEN Append(Kept(s, K), x) ELSE Kept(s, K)
  BY <1>1, KeptAppend
<1> HIDE DEF t
<1> QED BY <1>1, <1>2, <1>3, <1>4 DEF t

\* The two filters of a list of bonds are lists of bonds.
LEMMA FiltersType ==
  ASSUME NEW s \in Seq(NatBond), NEW owner
  PROVE  /\ OfOwner(s, owner) \in Seq(NatBond)
         /\ WithoutOwner(s, owner) \in Seq(NatBond)
         /\ Owners(WithoutOwner(s, owner)) = Owners(s) \ {owner}
         /\ owner \in Owners(s) => OfOwner(s, owner) # <<>>
<1>1. s \in Seq(BondOf(Nat, Nat))
  BY DEF NatBond
<1>2. /\ WithoutOwner(s, owner) \in Seq(BondOf(Nat, Nat))
      /\ OfOwner(s, owner) \in Seq(BondOf(Nat, Nat))
      /\ SplitsOff(s, owner)
  BY <1>1, OwnerSplit
<1> QED BY <1>2 DEF NatBond, SplitsOff

\* Nothing is left of an empty list.
LEMMA FiltersEmpty ==
  ASSUME NEW owner
  PROVE  OfOwner(<<>>, owner) = <<>> /\ WithoutOwner(<<>>, owner) = <<>>
<1> DEFINE e == <<>>
<1>1. e \in Seq({}) /\ \A q \in Seq({}) : q = <<>>
  OBVIOUS
<1> HIDE DEF e
<1>2. \A I : Kept(e, I) \in Seq({})
  BY <1>1, KeptElements
<1> QED BY <1>1, <1>2 DEF OfOwner, WithoutOwner, e

\* Dropping one owner's bonds leaves another's as they were.
LEMMA OthersKept ==
  ASSUME NEW owner, NEW other, owner # other
  PROVE  \A s \in Seq(NatBond) :
           OfOwner(WithoutOwner(s, owner), other) = OfOwner(s, other)
<1> DEFINE G == {s \in Seq(NatBond) :
                   OfOwner(WithoutOwner(s, owner), other) = OfOwner(s, other)}
<1>1. <<>> \in G
  BY FiltersEmpty
<1>2. ASSUME NEW s \in Seq(NatBond), NEW x \in NatBond, s \in G
      PROVE  Append(s, x) \in G
  <2> DEFINE w == WithoutOwner(s, owner)
  <2>1. w \in Seq(NatBond) /\ OfOwner(w, other) = OfOwner(s, other)
    BY <1>2, FiltersType
  <2>2. WithoutOwner(Append(s, x), owner) =
          IF x.owner # owner THEN Append(w, x) ELSE w
    BY OwnerAppend
  <2>3. OfOwner(Append(s, x), other) =
          IF x.owner = other THEN Append(OfOwner(s, other), x)
                             ELSE OfOwner(s, other)
    BY OwnerAppend
  <2> HIDE DEF w
  <2>4. OfOwner(Append(w, x), other) =
          IF x.owner = other THEN Append(OfOwner(w, other), x)
                             ELSE OfOwner(w, other)
    BY <2>1, OwnerAppend
  <2>5. Append(s, x) \in Seq(NatBond)
    OBVIOUS
  <2>6. OfOwner(WithoutOwner(Append(s, x), owner), other)
          = OfOwner(Append(s, x), other)
    <3>1. CASE x.owner # owner
      BY <2>1, <2>2, <2>3, <2>4, <3>1
    <3>2. CASE x.owner = owner
      <4>1. x.owner # other
        BY <3>2
      <4> QED BY <2>1, <2>2, <2>3, <3>2, <4>1
    <3> QED BY <3>1, <3>2
  <2> QED BY <2>5, <2>6
<1> HIDE DEF G
<1>3. \A s \in Seq(NatBond) : s \in G
  BY <1>1, <1>2, ListInduction
<1> QED BY <1>3 DEF G

\* Position k holds the last bond of the owner.
IsLastBond(s, owner, k) ==
  /\ k \in DOMAIN s /\ s[k].owner = owner
  /\ \A i \in DOMAIN s : s[i].owner = owner => i <= k

\* The last of an owner's bonds is at the last of its positions.
LEMMA LastAt ==
  ASSUME NEW owner
  PROVE  \A s \in Seq(NatBond) : owner \in Owners(s) =>
           \E k \in DOMAIN s :
             IsLastBond(s, owner, k) /\ Last(OfOwner(s, owner)) = s[k]
<1> DEFINE P(s) == owner \in Owners(s) =>
             \E k \in DOMAIN s :
               IsLastBond(s, owner, k) /\ Last(OfOwner(s, owner)) = s[k]
           G == {s \in Seq(NatBond) : P(s)}
<1>1. <<>> \in G
  BY DEF Owners
<1>2. ASSUME NEW s \in Seq(NatBond), NEW x \in NatBond, s \in G
      PROVE  Append(s, x) \in G
  <2> DEFINE t == Append(s, x)
             n == Len(s)
             o == OfOwner(s, owner)
  <2>1. /\ t \in Seq(NatBond) /\ n \in Nat
        /\ DOMAIN t = 1 .. n + 1 /\ DOMAIN s = 1 .. n /\ t[n + 1] = x
        /\ \A i \in 1 .. n : t[i] = s[i]
    OBVIOUS
  <2>2. OfOwner(t, owner) = IF x.owner = owner THEN Append(o, x) ELSE o
    BY OwnerAppend
  <2>3. o \in Seq(NatBond)
    BY FiltersType
  <2>4. Last(Append(o, x)) = x
    <3> HIDE DEF o
    <3> QED BY <2>3 DEF Last
  <2> HIDE DEF t, n, o
  <2> SUFFICES ASSUME owner \in Owners(t)
               PROVE  \E k \in DOMAIN t : IsLastBond(t, owner, k)
                        /\ Last(OfOwner(t, owner)) = t[k]
    BY <2>1 DEF t
  <2>5. CASE x.owner = owner
    <3>1. n + 1 \in DOMAIN t /\ \A i \in DOMAIN t : i <= n + 1
      BY <2>1
    <3> QED BY <2>1, <2>2, <2>4, <2>5, <3>1 DEF IsLastBond
  <2>6. CASE x.owner # owner
    <3>1. \A i \in DOMAIN t : i # n + 1 => i \in DOMAIN s
      BY <2>1
    <3>2. \A i \in DOMAIN s : i \in DOMAIN t /\ t[i] = s[i]
      BY <2>1
    <3>3. owner \in Owners(s)
      BY <2>1, <2>6, <3>1, <3>2 DEF Owners
    <3>4. PICK k \in DOMAIN s : IsLastBond(s, owner, k) /\ Last(o) = s[k]
      BY <1>2, <3>3 DEF o
    <3>5. IsLastBond(t, owner, k)
      BY <2>1, <2>6, <3>1, <3>2, <3>4 DEF IsLastBond
    <3> QED BY <2>2, <2>6, <3>2, <3>4, <3>5
  <2> QED BY <2>5, <2>6
<1> HIDE DEF G, P
<1>3. \A s \in Seq(NatBond) : s \in G
  BY <1>1, <1>2, ListInduction
<1> QED BY <1>3 DEF G, P

\* The owner's last bond is part of what it has.
LEMMA LastIsOwned ==
  ASSUME NEW s \in Seq(NatBond), NEW owner \in Owners(s)
  PROVE  LastOwned(s, owner) \in Nat /\ LastOwned(s, owner) <= Owned(s, owner)
<1>1. s \in Seq(BondOf(Nat, Nat))
  BY DEF NatBond
<1> QED BY <1>1, LastOfOwner DEF LastOwned, Owned

\* The last bond of an owner when a bond is appended.
LEMMA LastAppend ==
  ASSUME NEW s \in Seq(NatBond), NEW x \in NatBond, NEW owner
  PROVE  LastOwned(Append(s, x), owner) =
           IF x.owner = owner THEN x.amount ELSE LastOwned(s, owner)
<1> DEFINE o == OfOwner(s, owner)
<1>1. OfOwner(Append(s, x), owner) =
        IF x.owner = owner THEN Append(o, x) ELSE o
  BY OwnerAppend
<1>2. o \in Seq(NatBond)
  BY FiltersType
<1> HIDE DEF o
<1>3. Last(Append(o, x)) = x
  BY <1>2 DEF Last
<1> QED BY <1>1, <1>3 DEF LastOwned, o

\* The list with one amount changed keeps its owners and its positions.
LEMMA ChangedList ==
  ASSUME NEW s \in Seq(NatBond), NEW k \in DOMAIN s, NEW a \in Nat
  PROVE  LET t == WithAmount(s, k, a)
         IN  /\ t \in Seq(NatBond) /\ DOMAIN t = DOMAIN s
             /\ Owners(t) = Owners(s) /\ t[k].amount = a
             /\ \A i \in DOMAIN s : t[i].owner = s[i].owner
             /\ \A i \in DOMAIN s : i # k => t[i] = s[i]
             /\ \A i \in DOMAIN s : s[i].amount \in Nat
<1> DEFINE t == WithAmount(s, k, a)
<1>1. t \in Seq(NatBond) /\ Owners(t) = Owners(s)
  BY AmountChange DEF NatBond
<1>2. /\ DOMAIN t = DOMAIN s /\ t[k] = [s[k] EXCEPT !.amount = a]
      /\ \A i \in DOMAIN s : i # k => t[i] = s[i]
  BY DEF WithAmount
<1>3. \A i \in DOMAIN s : s[i] \in NatBond
  OBVIOUS
<1>4. t[k].owner = s[k].owner /\ t[k].amount = a
  BY <1>2, <1>3 DEF NatBond, BondOf
<1>5. \A i \in DOMAIN s : s[i].amount \in Nat
  BY <1>3 DEF NatBond, BondOf
<1> HIDE DEF t
<1>6. \A i \in DOMAIN s : t[i].owner = s[i].owner
  BY <1>2, <1>4
<1> QED BY <1>1, <1>2, <1>4, <1>5, <1>6 DEF t

\* The last bond of each owner when one amount changes.
LEMMA LastChange ==
  ASSUME NEW s \in Seq(NatBond), NEW k \in DOMAIN s, NEW a \in Nat,
         NEW owner \in Owners(s)
  PROVE  /\ s[k].owner # owner =>
              LastOwned(WithAmount(s, k, a), owner) = LastOwned(s, owner)
         /\ s[k].owner = owner =>
              \/ /\ LastOwned(s, owner) = s[k].amount
                 /\ LastOwned(WithAmount(s, k, a), owner) = a
              \/ /\ LastOwned(WithAmount(s, k, a), owner) = LastOwned(s, owner)
                 /\ s[k].amount + LastOwned(s, owner) <= Owned(s, owner)
<1> DEFINE t == WithAmount(s, k, a)
<1>1. /\ t \in Seq(NatBond) /\ DOMAIN t = DOMAIN s
      /\ Owners(t) = Owners(s) /\ t[k].amount = a
      /\ \A i \in DOMAIN s : t[i].owner = s[i].owner
      /\ \A i \in DOMAIN s : i # k => t[i] = s[i]
  BY ChangedList
<1>2. PICK l \in DOMAIN s :
        IsLastBond(s, owner, l) /\ Last(OfOwner(s, owner)) = s[l]
  BY LastAt
<1> HIDE DEF t
<1>3. PICK m \in DOMAIN t :
        IsLastBond(t, owner, m) /\ Last(OfOwner(t, owner)) = t[m]
  BY <1>1, LastAt
<1>4. l = m
  <2>1. l <= m /\ m <= l
    BY <1>1, <1>2, <1>3 DEF IsLastBond
  <2>2. l \in Nat /\ m \in Nat
    <3>1. DOMAIN s \subseteq Nat
      OBVIOUS
    <3> QED BY <1>1, <3>1
  <2> QED BY <2>1, <2>2
<1>5. /\ LastOwned(s, owner) = s[l].amount /\ s[l].owner = owner
      /\ LastOwned(t, owner) = t[l].amount
  BY <1>2, <1>3, <1>4 DEF LastOwned, IsLastBond
<1>6. CASE s[k].owner # owner
  BY <1>1, <1>5, <1>6 DEF t
<1>7. CASE s[k].owner = owner /\ l = k
  BY <1>1, <1>5, <1>7 DEF t
<1>8. CASE s[k].owner = owner /\ l # k
  <2> DEFINE v == AmountIf(owner)
  <2>1. v \in [NatBond -> Nat]
    BY AmountIfType
  <2>2. v[s[k]] + v[s[l]] <= Total(v, s)
    <3> HIDE DEF v
    <3> QED BY <1>8, <2>1, TwoTotal
  <2>3. v[s[k]] = s[k].amount /\ v[s[l]] = s[l].amount
    BY <1>5, <1>8 DEF AmountIf
  <2>4. Owned(s, owner) = Total(v, s)
    BY OwnedTotal
  <2>5. t[l] = s[l]
    BY <1>1, <1>8
  <2> HIDE DEF v
  <2> QED BY <1>5, <2>2, <2>3, <2>4, <2>5 DEF t
<1> QED BY <1>6, <1>7, <1>8

\* Dropping one owner's bonds: nothing of it is left, and the others keep
\* what they have.
LEMMA OwnedWithout ==
  ASSUME NEW s \in Seq(NatBond), NEW owner, NEW other
  PROVE  /\ owner = other => Owned(WithoutOwner(s, owner), other) = 0
         /\ owner # other =>
              /\ Owned(WithoutOwner(s, owner), other) = Owned(s, other)
              /\ LastOwned(WithoutOwner(s, owner), other) = LastOwned(s, other)
<1>1. CASE owner # other
  BY <1>1, OthersKept DEF Owned, LastOwned
<1>2. CASE owner = other
  <2> DEFINE w == WithoutOwner(s, owner)
             v == AmountIf(owner)
  <2>1. w \in Seq(NatBond) /\ owner \notin Owners(w)
    BY FiltersType
  <2> HIDE DEF w
  <2>2. \A i \in DOMAIN w : w[i] \in NatBond /\ w[i].owner # owner
    BY <2>1 DEF Owners
  <2>3. \A i \in DOMAIN w : v[w[i]] = 0
    BY <2>2 DEF AmountIf
  <2>4. Owned(w, owner) = Total(v, w)
    BY <2>1, OwnedTotal
  <2> HIDE DEF v
  <2>5. Total(v, w) = 0
    BY <2>1, <2>3, TotalZero
  <2> QED BY <1>2, <2>4, <2>5 DEF w
<1> QED BY <1>1, <1>2

\* Who is not listed has nothing.
LEMMA OwnedNothing ==
  ASSUME NEW s \in Seq(NatBond), NEW owner, owner \notin Owners(s)
  PROVE  Owned(s, owner) = 0
<1> DEFINE v == AmountIf(owner)
<1>1. \A i \in DOMAIN s : s[i] \in NatBond /\ s[i].owner # owner
  BY DEF Owners
<1>2. \A i \in DOMAIN s : v[s[i]] = 0
  BY <1>1 DEF AmountIf
<1>3. Owned(s, owner) = Total(v, s)
  BY OwnedTotal
<1> HIDE DEF v
<1> QED BY <1>2, <1>3, TotalZero

-----------------------------------------------------------------------------
(* A collator's list and a nominator's list.                               *)

\* What collator c's list s holds of nominator a is at most what a's list t
\* has with c.  It is less if a nominated c again after c had left and come
\* back (nominator_leave_collator then drops more than the last bond), and
\* not otherwise, if no nomination of a was refused.
PairOK(s, a, t, c, unpaid) ==
  /\ Owned(s, a) <= Owned(t, c)
  /\ unpaid = 0 /\ a \in Owners(s) /\ c \in Owners(t)
       /\ LastOwned(t, c) = Owned(t, c)
     => Owned(s, a) = Owned(t, c)

\* nominate
LEMMA PairNominated ==
  ASSUME NEW s \in Seq(NatBond), NEW t \in Seq(NatBond), NEW a \in Nat,
         NEW c \in Nat, NEW v \in Nat, NEW unpaid, PairOK(s, a, t, c, unpaid)
  PROVE  PairOK(Append(s, [owner |-> a, amount |-> v]), a,
                Append(t, [owner |-> c, amount |-> v]), c, unpaid)
<1> DEFINE x == [owner |-> a, amount |-> v]
           y == [owner |-> c, amount |-> v]
<1>1. x \in NatBond /\ y \in NatBond
  BY DEF NatBond, BondOf
<1>2. x.owner = a /\ x.amount = v /\ y.owner = c /\ y.amount = v
  OBVIOUS
<1> HIDE DEF x, y
<1>3. /\ Owned(Append(s, x), a) = Owned(s, a) + v
      /\ Owned(Append(t, y), c) = Owned(t, c) + v
      /\ LastOwned(Append(t, y), c) = v
  BY <1>1, <1>2, OwnedAppend, LastAppend
<1>4. Owned(s, a) \in Nat /\ Owned(t, c) \in Nat
  BY OwnedTotal
<1>5. PairOK(Append(s, x), a, Append(t, y), c, unpaid)
  BY <1>3, <1>4 DEF PairOK
<1> QED BY <1>5 DEF x, y

\* nominate, refused after the nominator's list was written
LEMMA PairRefused ==
  ASSUME NEW s \in Seq(NatBond), NEW t \in Seq(NatBond), NEW a \in Nat,
         NEW c \in Nat, NEW v \in Nat, NEW unpaid, PairOK(s, a, t, c, unpaid),
         NEW still, still = 0 => unpaid = 0 /\ v = 0
  PROVE  PairOK(s, a, Append(t, [owner |-> c, amount |-> v]), c, still)
<1> DEFINE y == [owner |-> c, amount |-> v]
<1>1. y \in NatBond
  BY DEF NatBond, BondOf
<1>2. y.owner = c /\ y.amount = v
  OBVIOUS
<1> HIDE DEF y
<1>3. /\ Owned(Append(t, y), c) = Owned(t, c) + v
      /\ LastOwned(Append(t, y), c) = v
  BY <1>1, <1>2, OwnedAppend, LastAppend
<1>4. Owned(s, a) \in Nat /\ Owned(t, c) \in Nat
  BY OwnedTotal
<1>5. PairOK(s, a, Append(t, y), c, still)
  BY <1>3, <1>4 DEF PairOK
<1> QED BY <1>5 DEF y

\* nominate_extra and nominate_less: the first bond changes by the same
\* amount in both lists; the nominator's does not vanish.
LEMMA PairChanged ==
  ASSUME NEW s \in Seq(NatBond), NEW t \in Seq(NatBond), NEW a, NEW c,
         NEW unpaid, PairOK(s, a, t, c, unpaid),
         NEW k \in DOMAIN s, s[k].owner = a, NEW l \in DOMAIN t, t[l].owner = c,
         NEW x \in Nat, NEW y \in Nat,
         x - s[k].amount = y - t[l].amount, y >= t[l].amount \/ y > 0
  PROVE  PairOK(WithAmount(s, k, x), a, WithAmount(t, l, y), c, unpaid)
<1> DEFINE p == WithAmount(s, k, x)
           q == WithAmount(t, l, y)
           b == s[k].amount
           d == t[l].amount
<1>1. /\ p \in Seq(NatBond) /\ Owners(p) = Owners(s) /\ b \in Nat
      /\ Owned(p, a) + b = Owned(s, a) + x
  <2>1. p \in Seq(NatBond) /\ Owners(p) = Owners(s) /\ b \in Nat
    BY ChangedList
  <2>2. Owned(p, a) + b = Owned(s, a) + x
    BY OwnedChange
  <2> QED BY <2>1, <2>2
<1>2. /\ q \in Seq(NatBond) /\ Owners(q) = Owners(t) /\ d \in Nat
      /\ Owned(q, c) + d = Owned(t, c) + y
  <2>1. q \in Seq(NatBond) /\ Owners(q) = Owners(t) /\ d \in Nat
    BY ChangedList
  <2>2. Owned(q, c) + d = Owned(t, c) + y
    BY OwnedChange
  <2> QED BY <2>1, <2>2
<1>3. c \in Owners(t)
  BY DEF Owners
<1>4. \/ LastOwned(t, c) = d /\ LastOwned(q, c) = y
      \/ /\ LastOwned(q, c) = LastOwned(t, c)
         /\ d + LastOwned(t, c) <= Owned(t, c)
  BY <1>3, LastChange
<1>5. /\ LastOwned(t, c) \in Nat /\ LastOwned(t, c) <= Owned(t, c)
      /\ Owned(t, c) \in Nat /\ Owned(s, a) \in Nat
  BY <1>3, LastIsOwned, OwnedTotal
<1>6. x - b = y - d /\ (y >= d \/ y > 0) /\ x \in Nat /\ y \in Nat
  OBVIOUS
<1> HIDE DEF p, q, b, d
<1>7. Owned(p, a) \in Nat /\ Owned(q, c) \in Nat
  BY <1>1, <1>2, OwnedTotal
<1>8. Owned(p, a) <= Owned(q, c)
  <2>1. Owned(s, a) <= Owned(t, c)
    BY DEF PairOK
  <2> QED BY ONLY <1>1, <1>2, <1>5, <1>6, <1>7, <2>1
<1>9. ASSUME unpaid = 0, a \in Owners(p), c \in Owners(q),
             LastOwned(q, c) = Owned(q, c)
      PROVE  Owned(p, a) = Owned(q, c)
  <2>1. LastOwned(t, c) = Owned(t, c)
    <3>1. LastOwned(q, c) = Owned(q, c)
      BY <1>9
    <3>2. CASE LastOwned(t, c) = d /\ LastOwned(q, c) = y
      BY ONLY <1>2, <1>5, <1>6, <1>7, <3>1, <3>2
    <3>3. CASE /\ LastOwned(q, c) = LastOwned(t, c)
               /\ d + LastOwned(t, c) <= Owned(t, c)
      BY ONLY <1>2, <1>5, <1>6, <1>7, <3>1, <3>3
    <3> QED BY ONLY <1>4, <3>2, <3>3
  <2>2. Owned(s, a) = Owned(t, c)
    BY <1>1, <1>2, <1>9, <2>1 DEF PairOK
  <2> QED BY ONLY <1>1, <1>2, <1>5, <1>6, <1>7, <2>2
<1>10. PairOK(p, a, q, c, unpaid)
  BY <1>8, <1>9 DEF PairOK
<1> QED BY <1>10 DEF p, q

\* nominator_leave_collator
LEMMA PairLeft ==
  ASSUME NEW s \in Seq(NatBond), NEW t \in Seq(NatBond), NEW a, NEW c,
         NEW unpaid
  PROVE  PairOK(WithoutOwner(s, a), a, WithoutOwner(t, c), c, unpaid)
<1>1. /\ Owned(WithoutOwner(s, a), a) = 0
      /\ Owned(WithoutOwner(t, c), c) = 0
  BY OwnedWithout
<1> QED BY <1>1 DEF PairOK

\* One bond is part of what its owner has.
LEMMA BondIsOwned ==
  ASSUME NEW s \in Seq(NatBond), NEW k \in DOMAIN s
  PROVE  s[k].amount \in Nat /\ s[k].amount <= Owned(s, s[k].owner)
<1> DEFINE v == AmountIf(s[k].owner)
           r == SumFunctionOnSet(Listed(v, s), DOMAIN s \ {k})
<1>1. Total(v, s) = v[s[k]] + r /\ r \in Nat /\ v[s[k]] \in Nat
  <2>1. v \in [NatBond -> Nat]
    BY AmountIfType
  <2> HIDE DEF v
  <2> QED BY <2>1, TotalWithout
<1>2. v[s[k]] = s[k].amount
  BY DEF AmountIf
<1>3. Owned(s, s[k].owner) = Total(v, s)
  BY OwnedTotal
<1> HIDE DEF v, r
<1> QED BY <1>1, <1>2, <1>3

\* nominate_extra raises the first bond of the owner, if nothing wraps.
LEMMA RaiseExact ==
  ASSUME NEW s \in Seq(NatBond), NEW owner \in Owners(s), NEW extra \in Nat,
         Owned(s, owner) + extra < BalanceModulus
  PROVE  LET k == FirstBond(s, owner)
         IN  /\ k \in DOMAIN s /\ s[k].owner = owner /\ s[k].amount \in Nat
             /\ RaiseFirst(s, owner, extra)
                  = WithAmount(s, k, s[k].amount + extra)
<1> DEFINE k == FirstBond(s, owner)
           b == s[k].amount
<1>1. k \in DOMAIN s /\ s[k].owner = owner
  BY FirstBondFacts
<1>2. RaiseFirst(s, owner, extra) = WithAmount(s, k, Plus(b, extra))
  BY DEF RaiseFirst, WithAmount
<1> HIDE DEF k
<1>3. b \in Nat /\ b <= Owned(s, owner) /\ Owned(s, owner) \in Nat
  BY <1>1, BondIsOwned, OwnedTotal
<1> HIDE DEF b
<1>4. Plus(b, extra) = b + extra
  BY <1>3, ModulusAssumption DEF Plus
<1> QED BY <1>1, <1>2, <1>3, <1>4 DEF k, b

\* nominate_less lowers the first bond of the owner; something is left of it.
LEMMA LowerExact ==
  ASSUME NEW s \in Seq(NatBond), NEW owner, NEW less \in Nat,
         CanLowerFirst(s, owner, less)
  PROVE  LET k == FirstBond(s, owner)
         IN  /\ k \in DOMAIN s /\ s[k].owner = owner /\ s[k].amount \in Nat
             /\ s[k].amount > less
             /\ LowerFirst(s, owner, less)
                  = WithAmount(s, k, s[k].amount - less)
<1> DEFINE k == FirstBond(s, owner)
<1>1. k \in DOMAIN s /\ s[k].owner = owner /\ s[k].amount > less
  BY FirstBondFacts DEF CanLowerFirst
<1>2. LowerFirst(s, owner, less) = WithAmount(s, k, s[k].amount - less)
  BY DEF LowerFirst, WithAmount
<1> HIDE DEF k
<1>3. s[k].amount \in Nat
  BY <1>1, BondIsOwned
<1> QED BY <1>1, <1>2, <1>3 DEF k

-----------------------------------------------------------------------------
\* The lists s and t say the same of the owner.
SameOf(s, t, owner) ==
  /\ Owned(s, owner) = Owned(t, owner)
  /\ owner \in Owners(s) <=> owner \in Owners(t)
  /\ owner \in Owners(s) => LastOwned(s, owner) = LastOwned(t, owner)

\* What a list's operations leave alone of another owner.
LEMMA OthersSame ==
  ASSUME NEW s \in Seq(NatBond), NEW owner, NEW other, owner # other
  PROVE  /\ \A v \in Nat : owner \in Nat =>
              SameOf(s, Append(s, [owner |-> owner, amount |-> v]), other)
         /\ \A k \in DOMAIN s, a \in Nat : s[k].owner = owner =>
              SameOf(s, WithAmount(s, k, a), other)
         /\ SameOf(s, WithoutOwner(s, owner), other)
<1>1. ASSUME NEW v \in Nat, owner \in Nat
      PROVE  SameOf(s, Append(s, [owner |-> owner, amount |-> v]), other)
  <2> DEFINE x == [owner |-> owner, amount |-> v]
  <2>1. x \in NatBond /\ x.owner = owner
    BY <1>1 DEF NatBond, BondOf
  <2> HIDE DEF x
  <2>2. /\ Owned(Append(s, x), other) = Owned(s, other) + 0
        /\ LastOwned(Append(s, x), other) = LastOwned(s, other)
    BY <2>1, OwnedAppend, LastAppend
  <2>3. Owners(Append(s, x)) = Owners(s) \cup {x.owner}
    BY <2>1, AmountsAppend DEF NatBond
  <2>4. Owned(s, other) \in Nat
    BY OwnedTotal
  <2> QED BY <2>1, <2>2, <2>3, <2>4 DEF SameOf, x
<1>2. ASSUME NEW k \in DOMAIN s, NEW a \in Nat, s[k].owner = owner
      PROVE  SameOf(s, WithAmount(s, k, a), other)
  <2>1. Owned(WithAmount(s, k, a), other) = Owned(s, other)
    BY <1>2, OwnedChange
  <2>2. Owners(WithAmount(s, k, a)) = Owners(s)
    BY ChangedList
  <2>3. other \in Owners(s) =>
          LastOwned(WithAmount(s, k, a), other) = LastOwned(s, other)
    BY <1>2, LastChange
  <2> QED BY <2>1, <2>2, <2>3 DEF SameOf
<1>3. SameOf(s, WithoutOwner(s, owner), other)
  BY OwnedWithout, FiltersType DEF SameOf
<1> QED BY <1>1, <1>2, <1>3

\* PairOK depends only on what the lists say of each other's owner.
LEMMA PairSame ==
  ASSUME NEW s, NEW t, NEW p, NEW q, NEW a, NEW c, NEW unpaid, NEW still,
         PairOK(s, a, t, c, unpaid), still = 0 => unpaid = 0,
         SameOf(s, p, a), SameOf(t, q, c)
  PROVE  PairOK(p, a, q, c, still)
BY DEF PairOK, SameOf

\* Nothing is held of who is not listed.
LEMMA PairUnlisted ==
  ASSUME NEW t \in Seq(NatBond), NEW a, NEW c, NEW unpaid
  PROVE  PairOK(<<>>, a, t, c, unpaid) /\ Owned(<<>>, a) = 0
<1> DEFINE e == <<>>
<1>1. e \in Seq(NatBond) /\ a \notin Owners(e)
  BY DEF Owners
<1> HIDE DEF e
<1>2. Owned(e, a) = 0 /\ Owned(t, c) \in Nat
  BY <1>1, OwnedNothing, OwnedTotal
<1>3. PairOK(e, a, t, c, unpaid) /\ Owned(e, a) = 0
  BY <1>1, <1>2 DEF PairOK
<1> QED BY <1>3 DEF e

\* A changed amount in a list.
LEMMA OneChanged ==
  ASSUME NEW s \in Seq(NatBond), NEW k \in DOMAIN s, NEW x \in Nat
  PROVE  /\ WithAmount(s, k, x) \in Seq(NatBond)
         /\ Amounts(WithAmount(s, k, x)) + s[k].amount = Amounts(s) + x
         /\ Amounts(WithAmount(s, k, x)) \in Nat /\ Amounts(s) \in Nat
         /\ s[k].amount \in Nat
<1> DEFINE p == WithAmount(s, k, x)
<1>1. p \in Seq(NatBond) /\ s[k].amount \in Nat
  BY ChangedList
<1>2. Amounts(p) + s[k].amount = Amounts(s) + x
  BY AmountChange DEF NatBond
<1> HIDE DEF p
<1>3. Amounts(p) \in Nat /\ Amounts(s) \in Nat
  BY <1>1, AmountsFacts
<1> QED BY <1>1, <1>2, <1>3 DEF p
=============================================================================
