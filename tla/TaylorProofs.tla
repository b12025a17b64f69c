---------------------------- MODULE TaylorProofs ----------------------------
(***************************************************************************)
(* Proofs about compute_inflation, for every accuracy, every argument and  *)
(* every limit on the number of terms.                                     *)
(***************************************************************************)
EXTENDS TaylorSeries, InflationProofs

-----------------------------------------------------------------------------
(* The inductive invariant: the series runs only on arguments for which    *)
(* it is defined, and every call starts from the same values.              *)

IInv ==
  /\ TypeOK
  /\ pc = "series" => arg.x > arg.x_ideal /\ arg.d >= OnePercent
  /\ pc = "idle" => k = 0 /\ s = SeriesStart /\ result = 0
  /\ pc = "series" => result = 0
  /\ pc = "returned" /\ arg.x <= arg.x_ideal =>
       result = FromRational(arg.x, arg.x_ideal)

\* The first term is one.
LEMMA StartType == SeriesStart \in Sums /\ 0 \in Parts /\ 0 \in 0 .. MaxTerms - 1
BY PerThingAssumption, InflationAssumption DEF SeriesStart, Sums, Parts

\* The first call finds the invariant in place.
LEMMA InitIInv == Init => IInv
BY StartType, TaylorAssumption DEF Init, IInv, TypeOK

\* Every branch of compute_inflation keeps the invariant.
LEMMA NextIInv == IInv /\ [Next]_vars => IInv'
<1> SUFFICES ASSUME IInv, [Next]_vars PROVE IInv'
  OBVIOUS
<1> USE DEF IInv, TypeOK
<1>0. arg.x \in Nat /\ arg.x_ideal \in Nat
  BY PerThingAssumption DEF Arguments, Parts
<1>1. CASE BelowIdeal
  <2>1. FromRational(arg.x, arg.x_ideal) \in Parts
    BY FractionType, PerThingAssumption DEF Arguments, Parts
  <2> QED BY <1>1, <2>1 DEF BelowIdeal
<1>2. CASE FalloffTooSmall
  BY <1>0, <1>2 DEF FalloffTooSmall
<1>3. CASE StartSeries
  BY <1>3 DEF StartSeries
<1>4. CASE Iterate
  <2>1. k + 1 \in Nat \ {0} /\ k + 1 \in 0 .. MaxTerms - 1
    BY <1>4, InflationAssumption DEF Iterate, Continues
  <2>2. s' \in Sums
    BY <1>4, <2>1, SeriesStepSound DEF Iterate
  <2> QED BY <1>4, <2>1, <2>2 DEF Iterate
<1>5. CASE Finish
  <2>1. Clamped(s) \in Parts
    BY PerThingAssumption DEF Clamped, Sums, Parts
  <2> QED BY <1>0, <1>5, <2>1 DEF Finish
<1>6. ASSUME NEW a \in Inputs, Call(a) PROVE IInv'
  BY <1>6, StartType, TaylorAssumption DEF Call
<1>7. CASE UNCHANGED vars
  BY <1>7 DEF vars
<1> QED BY <1>1, <1>2, <1>3, <1>4, <1>5, <1>6, <1>7 DEF Next

\* The invariant holds of every call.
THEOREM Invariance == Spec => []IInv
BY InitIInv, NextIInv, PTL DEF Spec

\* compute_inflation returns a fraction, and no magnitude ever goes below
\* zero, for every accuracy and every argument.
THEOREM TypeCorrect == Spec => []TypeOK
<1>1. IInv => TypeOK
  BY DEF IInv
<1> QED BY <1>1, Invariance, PTL

\* A multiple is divided without a rest.
LEMMA WholeQuotient ==
  ASSUME NEW a \in Nat, NEW b \in Nat \ {0}
  PROVE  (a * b) \div b = a /\ (b * a) \div b = a
OBVIOUS

\* No stake is no share; the ideal stake, unless it is none, is all of it.
LEMMA ShareAtEnds ==
  ASSUME NEW q \in Nat
  PROVE  FromRational(0, q) = 0 /\ (q # 0 => FromRational(q, q) = Accuracy)
<1>1. ASSUME q # 0 PROVE (q * Accuracy) \div q = Accuracy
  BY <1>1, PerThingAssumption, WholeQuotient
<1>2. ASSUME NEW n \in Nat \ {0} PROVE (0 * Accuracy) \div n = 0
  BY PerThingAssumption
<1> QED BY <1>1, <1>2, PerThingAssumption DEF FromRational

\* compute_i_npos stays between the least and the peak interest, and reaches
\* the one without stake and the other at the ideal stake.
THEOREM InterestBounded == Spec => []InterestInRange
<1>1. IInv => InterestInRange
  <2> DEFINE peak == PartOfPart(IIdeal, arg.x_ideal)
             gain == PartOfPart(peak - I0, result)
  <2> SUFFICES ASSUME IInv, pc = "returned", I0 <= peak PROVE InterestInRange
    BY DEF InterestInRange
  <2>1. /\ Accuracy \in Nat \ {0} /\ I0 \in Nat /\ I0 <= Accuracy
        /\ IIdeal \in Nat /\ IIdeal <= Accuracy
        /\ arg.x \in Nat /\ arg.x_ideal \in Nat
        /\ arg.x_ideal \in Parts /\ result \in Parts
    BY PerThingAssumption, TaylorAssumption DEF IInv, TypeOK, Arguments, Parts
  <2>2. peak \in Nat /\ peak <= IIdeal
    BY <2>1, PartBound
  <2>3. peak - I0 \in Nat
    BY <2>1, <2>2
  <2>4. gain \in Nat /\ gain <= peak - I0
    BY <2>1, <2>3, PartBound
  <2>5. InterestAt(I0, IIdeal, arg.x_ideal, result) = I0 + gain
    <3>1. (IF peak > I0 THEN peak - I0 ELSE 0) = peak - I0
      BY <2>1, <2>2
    <3>2. ~ (I0 + gain > Accuracy)
      BY <2>1, <2>2, <2>4
    <3> QED BY <3>1, <3>2 DEF InterestAt
  <2>6. ASSUME arg.x = 0 PROVE gain = 0
    <3>1. result = 0
      BY <2>1, <2>6, ShareAtEnds DEF IInv
    <3>2. ((peak - I0) * 0) \div Accuracy = 0
      BY <2>1, <2>3
    <3> QED BY <3>1, <3>2 DEF PartOfPart
  <2>7. ASSUME arg.x = arg.x_ideal PROVE gain = peak - I0
    <3>1. CASE arg.x_ideal = 0
      <4>1. (IIdeal * 0) \div Accuracy = 0
        BY <2>1
      <4>2. peak = 0
        BY <3>1, <4>1 DEF PartOfPart
      <4> QED BY <2>1, <2>2, <2>3, <2>4, <4>2
    <3>2. CASE arg.x_ideal # 0
      <4>1. result = Accuracy
        BY <2>1, <2>7, <3>2, ShareAtEnds DEF IInv
      <4>2. ((peak - I0) * Accuracy) \div Accuracy = peak - I0
        BY <2>1, <2>3, WholeQuotient
      <4> QED BY <4>1, <4>2 DEF PartOfPart
    <3> QED BY <3>1, <3>2
  <2> HIDE DEF gain
  <2>8. I0 <= I0 + gain /\ I0 + gain <= peak
    BY <2>1, <2>2, <2>4
  <2>9. arg.x = 0 => I0 + gain = I0
    BY <2>1, <2>6
  <2>10. arg.x = arg.x_ideal => I0 + gain = peak
    BY <2>1, <2>2, <2>7
  <2> QED BY <2>5, <2>8, <2>9, <2>10 DEF InterestInRange
<1> QED BY <1>1, Invariance, PTL

-----------------------------------------------------------------------------
(* Refinement.                                                             *)

\* A first call starts with the empty sum.
LEMMA InitSums == Init => Signed!Init
BY DEF Init, Signed!Init, Signed!Empty, SeriesStart

\* Every step of the loop is a step of the signed sum.
LEMMA NextSums == IInv /\ [Next]_vars => [Signed!Next]_(Signed!svars)
<1> SUFFICES ASSUME IInv, [Next]_vars
             PROVE  Signed!Next \/ UNCHANGED Signed!svars
  OBVIOUS
<1>1. CASE BelowIdeal
  BY <1>1 DEF BelowIdeal, Signed!Next, Signed!Shortcut
<1>2. CASE FalloffTooSmall
  BY <1>2 DEF FalloffTooSmall, Signed!Next, Signed!Shortcut
<1>3. CASE StartSeries
  BY <1>3 DEF StartSeries, Signed!Next, Signed!Begin
<1>4. CASE Iterate
  <2>1. k + 1 \in Nat \ {0} /\ arg \in Arguments /\ s \in Sums
    BY InflationAssumption DEF IInv, TypeOK
  <2>2. s' = SeriesStep(k + 1, s, arg)
    BY <1>4 DEF Iterate
  <2>3. SignedSum(s') = IF (k + 1) % 2 = 0 THEN SignedSum(s) + s'.term
                                           ELSE SignedSum(s) - s'.term
    BY <1>4, <2>1, <2>2, SeriesStepSound DEF Iterate, IInv
  <2>4. pc' = pc /\ pc = "series" /\ k' = k + 1 /\ result' = result
    BY <1>4 DEF Iterate
  <2>5. Signed!Add
    BY <2>3, <2>4 DEF Signed!Add, SignedSum
  <2> QED BY <2>5 DEF Signed!Next
<1>5. CASE Finish
  <2>1. s.sum \in Nat /\ s.positive \in BOOLEAN /\ Accuracy \in Nat
    BY PerThingAssumption DEF IInv, TypeOK, Sums
  <2>2. Clamped(s) = LET total == IF s.positive THEN s.sum ELSE 0 - s.sum
                     IN  IF 0 <= total /\ total <= Accuracy THEN total ELSE 0
    BY <2>1 DEF Clamped
  <2>3. Signed!Return
    BY <1>5, <2>2 DEF Finish, Signed!Return
  <2> QED BY <2>3 DEF Signed!Next
<1>6. ASSUME NEW a \in Inputs, Call(a) PROVE Signed!Next
  BY <1>6 DEF Call, Signed!Next, Signed!Again, Signed!Empty, SeriesStart
<1>7. CASE UNCHANGED vars
  BY <1>7 DEF vars, Signed!svars
<1> QED BY <1>1, <1>2, <1>3, <1>4, <1>5, <1>6, <1>7 DEF Next

\* The sum compute_taylor_serie_part keeps as a magnitude and a sign is the
\* signed alternating sum of its terms, for every accuracy, argument and
\* number of terms, and the value returned is that sum.
THEOREM SumsWithSign == Spec => ImplementsSum
BY InitSums, NextSums, Invariance, PTL DEF Spec, ImplementsSum, Signed!Spec

-----------------------------------------------------------------------------
(* The terms of the series vanish.  While n < 70 they may grow, by a       *)
(* factor of 70 / n at most; once n is beyond 140 they at least halve.     *)

\* One power of two after the other, as far as the terms of a Perbill reach.
IsPowers(p, m) == p = [h \in 0 .. m |-> IF h = 0 THEN 1 ELSE 2 * p[h - 1]]

Pow2 == CHOOSE p : IsPowers(p, 200)

\* The number of bits of the term after n iterations, from 30 for a Perbill up
\* to 179, where it stays while n < 140, and down to zero.
Height(n) ==
  CASE n \in 0 .. 4     -> 30 + 7 * n
    [] n \in 5 .. 17    -> 58 + 4 * (n - 4)
    [] n \in 18 .. 34   -> 110 + 2 * (n - 17)
    [] n \in 35 .. 69   -> 144 + (n - 34)
    [] n \in 70 .. 139  -> 179
    [] n \in 140 .. 279 -> 179 - (n - 139)
    [] n \in 280 .. 298 -> 39 - 2 * (n - 279)
    [] OTHER            -> 0

\* The terms are no longer than that.
Bounded == pc \in {"idle", "series"} => s.term < Pow2[Height(k)]

\* The recursion in Pow2 defines a function.
LEMMA PowersExist == IsPowers(Pow2, 200)
<1> DEFINE G == {m \in Nat : \E p : IsPowers(p, m)}
<1>1. 0 \in G
  <2>1. IsPowers([h \in 0 .. 0 |-> 1], 0)
    BY DEF IsPowers
  <2> QED BY <2>1
<1>2. ASSUME NEW m \in Nat, m \in G PROVE m + 1 \in G
  <2>1. PICK q : IsPowers(q, m)
    BY <1>2
  <2> DEFINE p == [h \in 0 .. m + 1 |-> IF h = 0 THEN 1 ELSE 2 * q[h - 1]]
  <2>2. \A h \in 0 .. m : h \in 0 .. m + 1
    OBVIOUS
  <2>3. \A h \in 0 .. m : q[h] = IF h = 0 THEN 1 ELSE 2 * q[h - 1]
    BY <2>1 DEF IsPowers
  <2>4. \A h \in 0 .. m : p[h] = q[h]
    BY <2>2, <2>3
  <2>5. \A h \in 0 .. m + 1 : h # 0 => h - 1 \in 0 .. m
    OBVIOUS
  <2>6. \A h \in 0 .. m + 1 : h # 0 => p[h - 1] = q[h - 1]
    BY <2>4, <2>5
  <2>7. p = [h \in 0 .. m + 1 |-> IF h = 0 THEN 1 ELSE 2 * p[h - 1]]
    BY <2>6
  <2>8. IsPowers(p, m + 1)
    BY <2>7 DEF IsPowers
  <2> HIDE DEF p
  <2> QED BY <2>8
<1> HIDE DEF G
<1>3. 200 \in G
  BY <1>1, <1>2, NatSetInduction
<1>4. \E p : IsPowers(p, 200)
  BY <1>3 DEF G
<1> QED BY <1>4, Zenon DEF Pow2

\* Every power is twice the one before.
LEMMA Powers ==
  /\ Pow2[0] = 1
  /\ \A h \in 0 .. 199 : Pow2[h] \in Nat /\ Pow2[h + 1] = 2 * Pow2[h]
<1>1. \A h \in 0 .. 200 : Pow2[h] = IF h = 0 THEN 1 ELSE 2 * Pow2[h - 1]
  BY PowersExist DEF IsPowers
<1>2. Pow2[0] = 1
  BY <1>1
<1>3. \A h \in 0 .. 199 : Pow2[h + 1] = 2 * Pow2[h]
  <2> TAKE h \in 0 .. 199
  <2>1. h + 1 \in 0 .. 200 /\ h + 1 # 0 /\ (h + 1) - 1 = h
    OBVIOUS
  <2> QED BY <1>1, <2>1
<1> DEFINE G == {h \in Nat : h <= 199 => Pow2[h] \in Nat}
<1>4. 0 \in G
  BY <1>2
<1>5. ASSUME NEW h \in Nat, h \in G PROVE h + 1 \in G
  <2> SUFFICES ASSUME h + 1 <= 199 PROVE Pow2[h + 1] \in Nat
    OBVIOUS
  <2>1. h \in 0 .. 199 /\ Pow2[h] \in Nat
    BY <1>5
  <2> QED BY <1>3, <2>1
<1> HIDE DEF G
<1>6. \A h \in Nat : h \in G
  BY <1>4, <1>5, NatSetInduction
<1> QED BY <1>2, <1>3, <1>6 DEF G

\* One, two, four and seven powers on.
LEMMA PowersOn ==
  ASSUME NEW h \in 0 .. 190
  PROVE  /\ Pow2[h] \in Nat
         /\ Pow2[h + 1] = 2 * Pow2[h] /\ Pow2[h + 2] = 4 * Pow2[h]
         /\ Pow2[h + 4] = 16 * Pow2[h] /\ Pow2[h + 7] = 128 * Pow2[h]
<1>1. /\ h \in 0 .. 199 /\ h + 1 \in 0 .. 199 /\ h + 2 \in 0 .. 199
      /\ h + 3 \in 0 .. 199 /\ h + 4 \in 0 .. 199 /\ h + 5 \in 0 .. 199
      /\ h + 6 \in 0 .. 199
      /\ (h + 1) + 1 = h + 2 /\ (h + 2) + 1 = h + 3 /\ (h + 3) + 1 = h + 4
      /\ (h + 4) + 1 = h + 5 /\ (h + 5) + 1 = h + 6 /\ (h + 6) + 1 = h + 7
  OBVIOUS
<1>2. /\ Pow2[h] \in Nat /\ Pow2[h + 1] = 2 * Pow2[h]
      /\ Pow2[h + 2] = 2 * Pow2[h + 1] /\ Pow2[h + 3] = 2 * Pow2[h + 2]
      /\ Pow2[h + 4] = 2 * Pow2[h + 3] /\ Pow2[h + 5] = 2 * Pow2[h + 4]
      /\ Pow2[h + 6] = 2 * Pow2[h + 5] /\ Pow2[h + 7] = 2 * Pow2[h + 6]
  BY <1>1, Powers
<1> QED BY <1>2

\* A Perbill has fewer than thirty-one bits.
LEMMA AccuracyFits == Accuracy < Pow2[30]
<1>1. \A h \in 0 .. 180 : Pow2[h + 10] = 1024 * Pow2[h] /\ Pow2[h] \in Nat
  <2> TAKE h \in 0 .. 180
  <2>1. /\ h \in 0 .. 190 /\ h + 7 \in 0 .. 190 /\ h + 9 \in 0 .. 190
        /\ (h + 7) + 2 = h + 9 /\ (h + 9) + 1 = h + 10
    OBVIOUS
  <2>2. Pow2[h] \in Nat /\ Pow2[h + 7] = 128 * Pow2[h]
    BY <2>1, PowersOn
  <2>3. Pow2[h + 9] = 4 * Pow2[h + 7]
    BY <2>1, PowersOn
  <2>4. Pow2[h + 10] = 2 * Pow2[h + 9]
    BY <2>1, PowersOn
  <2> QED BY <2>2, <2>3, <2>4
<1>2. /\ 0 \in 0 .. 180 /\ 10 \in 0 .. 180 /\ 20 \in 0 .. 180
      /\ 0 + 10 = 10 /\ 10 + 10 = 20 /\ 20 + 10 = 30
  OBVIOUS
<1>3. /\ Pow2[10] = 1024 * Pow2[0] /\ Pow2[20] = 1024 * Pow2[10]
      /\ Pow2[30] = 1024 * Pow2[20]
  BY <1>1, <1>2
<1>4. Pow2[30] = 1024 * 1024 * 1024
  BY <1>3, Powers
<1>5. Accuracy \in Nat /\ Accuracy <= 1000 * 1000 * 1000
  BY PerThingAssumption, PerbillAssumption
<1> QED BY <1>4, <1>5

\* ln2_div_d is at most 70 times one: a falloff is at least one percent.
LEMMA RateBound ==
  ASSUME NEW d \in Parts, d >= OnePercent
  PROVE  Ln2DivD(d) \in Nat /\ Ln2DivD(d) <= 70 * Accuracy
<1> DEFINE rate == Ln2DivD(d)
<1>1. /\ Accuracy \in Nat /\ Accuracy > 0 /\ Ln2 \in Nat /\ OnePercent \in Nat
      /\ d \in Nat /\ d > 0
  BY PerThingAssumption, InflationAssumption DEF Parts
<1>2. Ln2 * Accuracy \in Nat
  BY <1>1, ProductNat
<1>3. rate \in Nat /\ rate * d <= Ln2 * Accuracy
  <2>1. (Ln2 * Accuracy) \div d \in Nat
    BY <1>1, <1>2, QuotientNat
  <2>2. ((Ln2 * Accuracy) \div d) * d <= Ln2 * Accuracy
    BY <1>1, <1>2, QuotientTimes
  <2> QED BY <2>1, <2>2 DEF Ln2DivD
<1> HIDE DEF rate
<1>4. rate * Accuracy <= 100 * (rate * d)
  <2>1. Accuracy <= 100 * d /\ 100 * d \in Nat
    BY <1>1, PerbillAssumption
  <2>2. Accuracy * rate <= (100 * d) * rate
    BY <1>1, <1>3, <2>1, ProductMonotone
  <2>3. (100 * d) * rate = 100 * (rate * d) /\ Accuracy * rate = rate * Accuracy
    BY <1>1, <1>3
  <2> QED BY <2>2, <2>3
<1>5. 100 * (Ln2 * Accuracy) <= (70 * Accuracy) * Accuracy
  <2>1. 100 * Ln2 \in Nat /\ 70 * Accuracy \in Nat /\ 100 * Ln2 <= 70 * Accuracy
    BY <1>1, PerbillAssumption
  <2>2. (100 * Ln2) * Accuracy <= (70 * Accuracy) * Accuracy
    BY <1>1, <2>1, ProductMonotone
  <2>3. (100 * Ln2) * Accuracy = 100 * (Ln2 * Accuracy)
    BY <1>1
  <2> QED BY <2>2, <2>3
<1>8. rate * Accuracy <= (70 * Accuracy) * Accuracy
  <2> DEFINE p == rate * Accuracy
             q == rate * d
             r == Ln2 * Accuracy
             t == (70 * Accuracy) * Accuracy
  <2>1. p \in Nat /\ q \in Nat /\ r \in Nat /\ t \in Nat
    BY <1>1, <1>2, <1>3, ProductNat
  <2>2. p <= 100 * q /\ q <= r /\ 100 * r <= t
    BY <1>3, <1>4, <1>5
  <2> HIDE DEF p, q, r, t
  <2>3. p <= t
    BY <2>1, <2>2
  <2> QED BY <2>3 DEF p, t
<1>9. rate <= 70 * Accuracy
  BY <1>1, <1>3, <1>8, FactorOut
<1> QED BY <1>3, <1>9 DEF rate

\* compute_taylor_term: the term number n is at most 70 / n of the one before.
LEMMA TermBound ==
  ASSUME NEW a \in Arguments, a.x > a.x_ideal, a.d >= OnePercent,
         NEW n \in Nat \ {0}, NEW previous \in Nat
  PROVE  Term(n, previous, a) * n <= 70 * previous
<1> DEFINE excess == a.x - a.x_ideal
           rate   == Ln2DivD(a.d)
           product == previous * excess * rate
           whole  == product \div n
           t == Term(n, previous, a)
<1>1. Accuracy \in Nat /\ Accuracy > 0
  BY PerThingAssumption
<1>2. excess \in Nat /\ excess <= Accuracy
  BY <1>1 DEF Arguments, Parts
<1>3. rate \in Nat /\ rate <= 70 * Accuracy
  <2>1. a.d \in Parts
    BY DEF Arguments
  <2> QED BY <2>1, RateBound
<1>4. t = (whole \div Accuracy) \div Accuracy /\ t \in Nat
  BY TermNat DEF Term
<1> HIDE DEF excess, rate, t
<1>5. product \in Nat
  BY <1>2, <1>3, ProductNat
<1>6. product <= (70 * previous) * (Accuracy * Accuracy)
  <2>1. excess * previous <= Accuracy * previous
    BY <1>1, <1>2, ProductMonotone
  <2>2. previous * excess \in Nat /\ Accuracy * previous \in Nat
    BY <1>1, <1>2, ProductNat
  <2>3. (previous * excess) * rate <= (Accuracy * previous) * rate
    <3>1. previous * excess <= Accuracy * previous
      BY <1>1, <1>2, <2>1
    <3> QED BY <1>3, <2>2, <3>1, ProductMonotone
  <2>4. rate * (Accuracy * previous) <= (70 * Accuracy) * (Accuracy * previous)
    <3>1. 70 * Accuracy \in Nat
      BY <1>1
    <3> QED BY <1>3, <2>2, <3>1, ProductMonotone
  <2>5. /\ rate * (Accuracy * previous) = (Accuracy * previous) * rate
        /\ (70 * Accuracy) * (Accuracy * previous)
             = (70 * previous) * (Accuracy * Accuracy)
    BY <1>1, <1>3
  <2>6. (Accuracy * previous) * rate <= (70 * previous) * (Accuracy * Accuracy)
    BY <2>4, <2>5
  <2>7. /\ (Accuracy * previous) * rate \in Nat
        /\ (70 * previous) * (Accuracy * Accuracy) \in Nat
    BY <1>1, <1>3, <2>2, ProductNat
  <2> DEFINE p == (Accuracy * previous) * rate
             q == (70 * previous) * (Accuracy * Accuracy)
  <2>8. product <= p /\ p <= q /\ p \in Nat /\ q \in Nat
    BY <2>3, <2>6, <2>7
  <2> HIDE DEF p, q, product
  <2>9. product <= q
    BY <1>5, <2>8
  <2> QED BY <2>9 DEF q
<1> HIDE DEF product
<1>7. whole \in Nat /\ whole * n <= product
  BY <1>5, QuotientNat, QuotientTimes
<1> HIDE DEF whole
<1> DEFINE part == whole \div Accuracy
<1>8. part \in Nat /\ part * Accuracy <= whole
  BY <1>1, <1>7, QuotientNat, QuotientTimes
<1>9. t = part \div Accuracy
  BY <1>4
<1> HIDE DEF part
<1>10. t * Accuracy <= part
  BY <1>1, <1>8, <1>9, QuotientTimes
<1>11. (t * Accuracy) * Accuracy <= whole
  <2>1. t * Accuracy \in Nat
    BY <1>1, <1>4, ProductNat
  <2>2. (t * Accuracy) * Accuracy <= part * Accuracy
    BY <1>1, <1>8, <1>10, <2>1, ProductMonotone
  <2>3. (t * Accuracy) * Accuracy \in Nat /\ part * Accuracy \in Nat
    BY <1>1, <1>8, <2>1, ProductNat
  <2> QED BY <1>7, <1>8, <2>2, <2>3
<1>12. ((t * Accuracy) * Accuracy) * n <= (70 * previous) * (Accuracy * Accuracy)
  <2> DEFINE u == (t * Accuracy) * Accuracy
             q == (70 * previous) * (Accuracy * Accuracy)
  <2>1. u \in Nat /\ q \in Nat
    BY <1>1, <1>4, ProductNat
  <2>2. u <= whole /\ product <= q
    BY <1>6, <1>11
  <2> HIDE DEF u, q
  <2>3. u * n <= whole * n /\ u * n \in Nat /\ whole * n \in Nat
    BY <1>7, <2>1, <2>2, ProductMonotone, ProductNat
  <2>4. u * n <= q
    BY <1>5, <1>7, <2>1, <2>2, <2>3
  <2> QED BY <2>4 DEF u, q
<1>13. ((t * Accuracy) * Accuracy) * n = (t * n) * (Accuracy * Accuracy)
  BY <1>1, <1>4
<1>14. t * n \in Nat /\ 70 * previous \in Nat /\ Accuracy * Accuracy \in Nat
  BY <1>1, <1>4, ProductNat
<1>15. Accuracy * Accuracy > 0
  BY <1>1
<1>16. t * n <= 70 * previous
  <2>1. (t * n) * (Accuracy * Accuracy) <= (70 * previous) * (Accuracy * Accuracy)
    BY <1>12, <1>13
  <2> DEFINE u == t * n
             v == 70 * previous
             w == Accuracy * Accuracy
  <2>2. u \in Nat /\ v \in Nat /\ w \in Nat /\ w > 0 /\ u * w <= v * w
    BY <1>14, <1>15, <2>1
  <2> HIDE DEF u, v, w
  <2>3. u <= v
    BY <2>2, FactorOut
  <2> QED BY <2>3 DEF u, v
<1> QED BY <1>16 DEF t

\* The body of the loop leaves the term behind that it computed.
LEMMA StepTerm ==
  ASSUME NEW n, NEW v \in Sums, NEW a
  PROVE  SeriesStep(n, v, a).term = Term(n, v.term, a)
<1> DEFINE t == Term(n, v.term, a)
<1>1. SeriesStep(n, v, a) = IF t = 0 THEN [v EXCEPT !.term = 0]
                                     ELSE AddTerm(v, t, n % 2 = 0)
  BY DEF SeriesStep
<1> HIDE DEF t
<1>2. CASE t = 0
  BY <1>1, <1>2 DEF Sums, t
<1>3. CASE t # 0
  <2>1. \A up : AddTerm(v, t, up).term = t
    BY DEF AddTerm
  <2> QED BY <1>1, <1>3, <2>1 DEF t
<1> QED BY <1>2, <1>3

\* From the m-th term on, every term is at most 70 / m of the one before.
LEMMA FromTerm ==
  ASSUME NEW t \in Nat, NEW p \in Nat, NEW n \in Nat, NEW m \in Nat, m <= n,
         t * n <= 70 * p
  PROVE  t * m <= 70 * p
<1>1. m * t <= n * t
  BY ProductMonotone
<1>2. m * t = t * m /\ n * t = t * n /\ t * m \in Nat /\ t * n \in Nat
  BY ProductNat
<1> QED BY <1>1, <1>2

\* The height while the terms grow.
LEMMA Rising ==
  ASSUME NEW n \in 1 .. 139
  PROVE  /\ Height(n - 1) \in 0 .. 190
         /\ n \in 1 .. 4    => Height(n) = Height(n - 1) + 7
         /\ n \in 5 .. 17   => Height(n) = Height(n - 1) + 4
         /\ n \in 18 .. 34  => Height(n) = Height(n - 1) + 2
         /\ n \in 35 .. 69  => Height(n) = Height(n - 1) + 1
         /\ n \in 70 .. 139 => Height(n) = Height(n - 1)
<1>1. CASE n \in 1 .. 4
  <2>1. n \in 0 .. 4 /\ n - 1 \in 0 .. 4
    BY <1>1
  <2>2. Height(n) = 30 + 7 * n /\ Height(n - 1) = 30 + 7 * (n - 1)
    BY <2>1 DEF Height
  <2> QED BY <1>1, <2>2
<1>2. CASE n \in 5 .. 17
  <2>1. Height(n) = 58 + 4 * (n - 4)
    BY <1>2 DEF Height
  <2>2. Height(n - 1) = 58 + 4 * ((n - 1) - 4)
    BY <1>2 DEF Height
  <2> QED BY <1>2, <2>1, <2>2
<1>3. CASE n \in 18 .. 34
  <2>1. Height(n) = 110 + 2 * (n - 17)
    BY <1>3 DEF Height
  <2>2. Height(n - 1) = 110 + 2 * ((n - 1) - 17)
    BY <1>3 DEF Height
  <2> QED BY <1>3, <2>1, <2>2
<1>4. CASE n \in 35 .. 69
  <2>1. Height(n) = 144 + (n - 34)
    BY <1>4 DEF Height
  <2>2. Height(n - 1) = 144 + ((n - 1) - 34)
    BY <1>4 DEF Height
  <2> QED BY <1>4, <2>1, <2>2
<1>5. CASE n \in 70 .. 139
  <2>1. Height(n) = 179
    BY <1>5 DEF Height
  <2>2. Height(n - 1) = 179
    BY <1>5 DEF Height
  <2> QED BY <1>5, <2>1, <2>2
<1> QED BY <1>1, <1>2, <1>3, <1>4, <1>5

\* The height while the terms halve, twice at the end.
LEMMA Falling ==
  ASSUME NEW n \in Nat, n >= 140
  PROVE  /\ Height(n) \in 0 .. 190
         /\ n \in 140 .. 279 => Height(n - 1) = Height(n) + 1
         /\ n \in 280 .. 298 => Height(n - 1) = Height(n) + 2
         /\ n = 299 => Height(n) = 0 /\ Height(n - 1) = 1
         /\ n >= 300 => Height(n) = 0 /\ Height(n - 1) = 0
<1>1. CASE n \in 140 .. 279
  <2>1. Height(n) = 179 - (n - 139)
    BY <1>1 DEF Height
  <2>2. Height(n - 1) = 179 - ((n - 1) - 139)
    BY <1>1 DEF Height
  <2> QED BY <1>1, <2>1, <2>2
<1>2. CASE n \in 280 .. 298
  <2>1. Height(n) = 39 - 2 * (n - 279)
    BY <1>2 DEF Height
  <2>2. Height(n - 1) = 39 - 2 * ((n - 1) - 279)
    BY <1>2 DEF Height
  <2> QED BY <1>2, <2>1, <2>2
<1>3. CASE n = 299
  <2>1. Height(299) = 0
    BY DEF Height
  <2>2. Height(298) = 1
    BY DEF Height
  <2> QED BY <1>3, <2>1, <2>2
<1>4. CASE n >= 300
  <2>1. Height(n) = 0
    BY <1>4 DEF Height
  <2>2. Height(n - 1) = 0
    BY <1>4 DEF Height
  <2> QED BY <1>4, <2>1, <2>2
<1> QED BY <1>1, <1>2, <1>3, <1>4

\* One iteration: the term stays below the height of its number.
LEMMA HeightStep ==
  ASSUME NEW n \in Nat \ {0}, NEW p \in Nat, NEW t \in Nat,
         t * n <= 70 * p, p < Pow2[Height(n - 1)]
  PROVE  t < Pow2[Height(n)]
<1>1. CASE n \in 1 .. 139
  <2> DEFINE h == Height(n - 1)
  <2>1. /\ Pow2[h] \in Nat
        /\ Pow2[h + 1] = 2 * Pow2[h] /\ Pow2[h + 2] = 4 * Pow2[h]
        /\ Pow2[h + 4] = 16 * Pow2[h] /\ Pow2[h + 7] = 128 * Pow2[h]
    <3>1. h \in 0 .. 190
      BY <1>1, Rising
    <3> HIDE DEF h
    <3> QED BY <3>1, PowersOn
  <2>2. p < Pow2[h]
    OBVIOUS
  <2>3. CASE n \in 1 .. 4
    <3>1. Height(n) = h + 7
      BY <1>1, <2>3, Rising
    <3>2. t * 1 <= 70 * p
      BY <2>3, FromTerm
    <3> HIDE DEF h
    <3> QED BY <2>1, <2>2, <3>1, <3>2
  <2>4. CASE n \in 5 .. 17
    <3>1. Height(n) = h + 4
      BY <1>1, <2>4, Rising
    <3>2. t * 5 <= 70 * p
      BY <2>4, FromTerm
    <3> HIDE DEF h
    <3> QED BY <2>1, <2>2, <3>1, <3>2
  <2>5. CASE n \in 18 .. 34
    <3>1. Height(n) = h + 2
      BY <1>1, <2>5, Rising
    <3>2. t * 18 <= 70 * p
      BY <2>5, FromTerm
    <3> HIDE DEF h
    <3> QED BY <2>1, <2>2, <3>1, <3>2
  <2>6. CASE n \in 35 .. 69
    <3>1. Height(n) = h + 1
      BY <1>1, <2>6, Rising
    <3>2. t * 35 <= 70 * p
      BY <2>6, FromTerm
    <3> HIDE DEF h
    <3> QED BY <2>1, <2>2, <3>1, <3>2
  <2>7. CASE n \in 70 .. 139
    <3>1. Height(n) = h
      BY <1>1, <2>7, Rising
    <3>2. t * 70 <= 70 * p
      BY <2>7, FromTerm
    <3> HIDE DEF h
    <3> QED BY <2>1, <2>2, <3>1, <3>2
  <2> QED BY <1>1, <2>3, <2>4, <2>5, <2>6, <2>7
<1>2. CASE n >= 140
  <2> DEFINE h == Height(n)
  <2>1. /\ Pow2[h] \in Nat
        /\ Pow2[h + 1] = 2 * Pow2[h] /\ Pow2[h + 2] = 4 * Pow2[h]
    <3>1. h \in 0 .. 190
      BY <1>2, Falling
    <3> HIDE DEF h
    <3> QED BY <3>1, PowersOn
  <2>2. t * 140 <= 70 * p
    BY <1>2, FromTerm
  <2>3. CASE n \in 140 .. 279
    <3>1. Height(n - 1) = h + 1
      BY <1>2, <2>3, Falling
    <3>2. p < Pow2[h + 1]
      BY <3>1
    <3> HIDE DEF h
    <3>3. t < Pow2[h]
      BY <2>1, <2>2, <3>2
    <3> QED BY <3>3 DEF h
  <2>4. CASE n \in 280 .. 298
    <3>1. Height(n - 1) = h + 2
      BY <1>2, <2>4, Falling
    <3>2. p < Pow2[h + 2] /\ t * 280 <= 70 * p
      BY <2>4, <3>1, FromTerm
    <3> HIDE DEF h
    <3>3. t < Pow2[h]
      BY <2>1, <3>2
    <3> QED BY <3>3 DEF h
  <2>5. CASE n >= 299
    <3>1. Height(n) = 0 /\ Height(n - 1) \in {0, 1}
      BY <1>2, <2>5, Falling
    <3>2. Pow2[0] = 1 /\ Pow2[1] = 2
      BY Powers
    <3>3. p < 2
      BY <3>1, <3>2
    <3>4. t = 0
      BY <2>2, <3>3
    <3> QED BY <3>1, <3>2, <3>4
  <2> QED BY <1>2, <2>3, <2>4, <2>5
<1> QED BY <1>1, <1>2

\* The first term is one.
LEMMA StartBounded == SeriesStart.term < Pow2[Height(0)]
<1>1. Height(0) = 30
  BY DEF Height
<1> QED BY <1>1, AccuracyFits DEF SeriesStart

\* Every iteration keeps the terms below the height.
LEMMA NextBounded == IInv /\ Bounded /\ [Next]_vars => Bounded'
<1> SUFFICES ASSUME IInv, Bounded, [Next]_vars PROVE Bounded'
  OBVIOUS
<1>1. CASE StartSeries
  BY <1>1 DEF StartSeries, Bounded
<1>2. CASE Iterate
  <2>1. /\ k \in Nat /\ s \in Sums /\ arg \in Arguments
        /\ arg.x > arg.x_ideal /\ arg.d >= OnePercent /\ s.term \in Nat
    BY <1>2, InflationAssumption DEF Iterate, IInv, TypeOK, Sums
  <2>2. k + 1 \in Nat \ {0} /\ (k + 1) - 1 = k
    BY <2>1
  <2>3. s.term < Pow2[Height(k)]
    BY <1>2 DEF Iterate, Bounded
  <2>4. k' = k + 1 /\ s'.term = Term(k + 1, s.term, arg)
    BY <1>2, <2>1, StepTerm DEF Iterate
  <2>5. /\ Term(k + 1, s.term, arg) \in Nat
        /\ Term(k + 1, s.term, arg) * (k + 1) <= 70 * s.term
    BY <2>1, <2>2, TermNat, TermBound
  <2>6. s'.term < Pow2[Height(k + 1)]
    BY <2>1, <2>2, <2>3, <2>4, <2>5, HeightStep
  <2> QED BY <2>4, <2>6 DEF Bounded
<1>3. CASE BelowIdeal \/ FalloffTooSmall \/ Finish
  BY <1>3 DEF BelowIdeal, FalloffTooSmall, Finish, Bounded
<1>4. ASSUME NEW a \in Inputs, Call(a) PROVE Bounded'
  BY <1>4, StartBounded DEF Call, Bounded
<1>5. CASE UNCHANGED vars
  BY <1>5 DEF vars, Bounded
<1> QED BY <1>1, <1>2, <1>3, <1>4, <1>5 DEF Next

\* compute_taylor_serie_part: with a Perbill the loop over 1..300 always ends
\* because a term vanishes, never because it runs out, whatever the stake,
\* the ideal stake and the falloff are.
THEOREM SeriesAlwaysConverges == Spec => []SeriesConverges
<1>1. Init => Bounded
  BY StartBounded DEF Init, Bounded
<1>2. IInv /\ Bounded => SeriesConverges
  <2> SUFFICES ASSUME IInv, Bounded, pc = "series", ~ Continues, s.term # 0
               PROVE  FALSE
    BY DEF SeriesConverges
  <2>1. k \in Nat /\ s.term \in Nat /\ k >= 299
    BY InflationAssumption, PerbillAssumption DEF IInv, TypeOK, Sums, Continues
  <2>2. Height(k) = 0
    BY <2>1, Falling
  <2>3. s.term < Pow2[0]
    BY <2>2 DEF Bounded
  <2> QED BY <2>1, <2>3, Powers
<1> QED BY <1>1, <1>2, Invariance, NextBounded, PTL DEF Spec
=============================================================================
