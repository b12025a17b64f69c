--------------------------- MODULE InflationProofs --------------------------
(***************************************************************************)
(* What the fixed-point arithmetic of PerThing and the operators of        *)
(* Inflation compute, for every accuracy and every number of terms.        *)
(***************************************************************************)
EXTENDS Inflation, SumProofs

-----------------------------------------------------------------------------
(* Fixed-point arithmetic.                                                 *)

\* Products of magnitudes are magnitudes.
LEMMA ProductNat ==
  ASSUME NEW a \in Nat, NEW b \in Nat
  PROVE  a * b \in Nat
OBVIOUS

\* div_by_stripped and div_unit give magnitudes.
LEMMA QuotientNat ==
  ASSUME NEW a \in Nat, NEW b \in Nat, b > 0
  PROVE  a \div b \in Nat
OBVIOUS

\* Multiplication by a magnitude keeps the order.
LEMMA ProductMonotone ==
  ASSUME NEW a \in Nat, NEW b \in Nat, NEW c \in Nat, a <= b
  PROVE  a * c <= b * c
OBVIOUS

\* A quotient is at most what its divisor is multiplied by.
LEMMA QuotientBound ==
  ASSUME NEW a \in Nat, NEW b \in Nat, NEW m \in Nat, b > 0, a <= m * b
  PROVE  a \div b <= m
<1>1. a \div b \in Nat /\ (a \div b) * b <= a
  BY QuotientNat
<1>2. SUFFICES ASSUME a \div b >= m + 1 PROVE FALSE
  BY <1>1
<1>3. (m + 1) * b <= (a \div b) * b
  BY <1>1, <1>2, ProductMonotone
<1>4. (m + 1) * b = m * b + b
  OBVIOUS
<1>5. m * b \in Nat /\ (a \div b) * b \in Nat
  BY <1>1, ProductNat
<1> QED BY <1>1, <1>3, <1>4, <1>5

\* What is left of a quotient, multiplied back.
LEMMA QuotientTimes ==
  ASSUME NEW a \in Nat, NEW b \in Nat, b > 0
  PROVE  (a \div b) * b <= a
OBVIOUS

\* A positive factor may be dropped from a comparison.
LEMMA FactorOut ==
  ASSUME NEW a \in Nat, NEW b \in Nat, NEW c \in Nat, c > 0, a * c <= b * c
  PROVE  a <= b
<1> SUFFICES ASSUME a >= b + 1 PROVE FALSE
  OBVIOUS
<1>1. (b + 1) * c <= a * c
  BY ProductMonotone
<1>2. (b + 1) * c = b * c + c /\ b * c \in Nat /\ a * c \in Nat
  BY ProductNat
<1> QED BY <1>1, <1>2

\* PerThing::from_rational is a fraction, whatever it is given.
LEMMA FractionType ==
  ASSUME NEW p \in Nat, NEW q \in Nat
  PROVE  FromRational(p, q) \in Parts
<1> DEFINE den == IF q = 0 THEN 1 ELSE q
           num == IF p > den THEN den ELSE p
<1>1. den \in Nat /\ den > 0 /\ num \in Nat /\ num <= den
  OBVIOUS
<1>2. FromRational(p, q) = (num * Accuracy) \div den
  BY DEF FromRational
<1> HIDE DEF den, num
<1>3. Accuracy \in Nat /\ Accuracy > 0
  BY PerThingAssumption
<1>4. num * Accuracy \in Nat
  BY <1>1, <1>3, ProductNat
<1>5. num * Accuracy <= den * Accuracy
  BY <1>1, <1>3, ProductMonotone
<1>6. den * Accuracy = Accuracy * den
  BY <1>1, <1>3
<1>7. num * Accuracy <= Accuracy * den
  BY <1>5, <1>6
<1>8. (num * Accuracy) \div den <= Accuracy
  BY <1>1, <1>3, <1>4, <1>7, QuotientBound
<1>9. (num * Accuracy) \div den \in Nat
  BY <1>1, <1>4, QuotientNat
<1> QED BY <1>2, <1>3, <1>8, <1>9 DEF Parts

\* A part of a number is no larger than the number.
LEMMA PartBound ==
  ASSUME NEW a \in Nat, NEW b \in Parts
  PROVE  PartOfPart(a, b) \in 0 .. a
<1>1. Accuracy \in Nat /\ Accuracy > 0 /\ b \in Nat /\ b <= Accuracy
  BY PerThingAssumption DEF Parts
<1>2. a * b \in Nat
  BY <1>1, ProductNat
<1>3. a * b <= a * Accuracy
  <2>1. b * a <= Accuracy * a
    BY <1>1, ProductMonotone
  <2> QED BY <1>1, <2>1
<1>4. (a * b) \div Accuracy \in Nat /\ (a * b) \div Accuracy <= a
  BY <1>1, <1>2, <1>3, QuotientNat, QuotientBound
<1> QED BY <1>4 DEF PartOfPart

\* compute_taylor_term: x_minus_x_ideal and the divisions stay in the naturals.
LEMMA TermNat ==
  ASSUME NEW a \in Arguments, a.x > a.x_ideal, a.d >= OnePercent,
         NEW n \in Nat \ {0}, NEW previous \in Nat
  PROVE  Term(n, previous, a) \in Nat
<1>1. Accuracy \in Nat /\ Accuracy > 0 /\ Ln2 \in Nat
  BY PerThingAssumption, InflationAssumption
<1>2. a.x - a.x_ideal \in Nat /\ a.d \in Nat /\ a.d > 0
  BY InflationAssumption, <1>1 DEF Arguments, Parts
<1>3. Ln2DivD(a.d) \in Nat
  BY <1>1, <1>2, ProductNat, QuotientNat DEF Ln2DivD
<1> DEFINE excess == a.x - a.x_ideal
           rate   == Ln2DivD(a.d)
           whole  == (previous * excess * rate) \div n
<1>4. excess \in Nat /\ rate \in Nat
  BY <1>2, <1>3
<1>5. Term(n, previous, a) = (whole \div Accuracy) \div Accuracy
  BY DEF Term
<1> HIDE DEF excess, rate
<1>6. previous * excess \in Nat
  BY <1>4, ProductNat
<1>7. (previous * excess) * rate \in Nat
  BY <1>4, <1>6, ProductNat
<1>8. whole \in Nat
  BY <1>7, QuotientNat
<1> HIDE DEF whole
<1>9. whole \div Accuracy \in Nat
  BY <1>1, <1>8, QuotientNat
<1>10. (whole \div Accuracy) \div Accuracy \in Nat
  BY <1>1, <1>9, QuotientNat
<1> QED BY <1>5, <1>10

-----------------------------------------------------------------------------
(* One iteration, with its sign.                                           *)

SignedSum(v) == IF v.positive THEN v.sum ELSE 0 - v.sum

\* compute_taylor_serie_part: whichever of the three ways the term is added,
\* magnitude and sign end up being the signed sum, and BigUint::sub is never
\* asked for a negative difference.
LEMMA AddTermSound ==
  ASSUME NEW v \in Sums, NEW t \in Nat, NEW up \in BOOLEAN
  PROVE  /\ AddTerm(v, t, up) \in Sums
         /\ AddTerm(v, t, up).term = t
         /\ SignedSum(AddTerm(v, t, up)) =
              IF up THEN SignedSum(v) + t ELSE SignedSum(v) - t
<1>1. v.sum \in Nat /\ v.positive \in BOOLEAN
  BY DEF Sums
<1>2. CASE v.positive = up
  <2>1. AddTerm(v, t, up) = [term |-> t, sum |-> v.sum + t, positive |-> v.positive]
    BY <1>2 DEF AddTerm
  <2> QED BY <1>1, <1>2, <2>1 DEF Sums, SignedSum
<1>3. CASE v.positive # up /\ v.sum >= t
  <2>1. AddTerm(v, t, up) = [term |-> t, sum |-> v.sum - t, positive |-> v.positive]
    BY <1>3 DEF AddTerm
  <2> QED BY <1>1, <1>3, <2>1 DEF Sums, SignedSum
<1>4. CASE v.positive # up /\ ~ (v.sum >= t)
  <2>1. AddTerm(v, t, up) = [term |-> t, sum |-> t - v.sum, positive |-> ~ v.positive]
    BY <1>4 DEF AddTerm
  <2> QED BY <1>1, <1>4, <2>1 DEF Sums, SignedSum
<1> QED BY <1>2, <1>3, <1>4

\* The body of the loop, the break on a zero term included.
LEMMA SeriesStepSound ==
  ASSUME NEW a \in Arguments, a.x > a.x_ideal, a.d >= OnePercent,
         NEW n \in Nat \ {0}, NEW v \in Sums
  PROVE  LET w == SeriesStep(n, v, a)
         IN  /\ w \in Sums
             /\ SignedSum(w) = IF n % 2 = 0 THEN SignedSum(v) + w.term
                                            ELSE SignedSum(v) - w.term
<1> DEFINE t == Term(n, v.term, a)
<1>1. t \in Nat
  BY TermNat DEF Sums
<1>2. SeriesStep(n, v, a) = IF t = 0 THEN [v EXCEPT !.term = 0]
                                     ELSE AddTerm(v, t, n % 2 = 0)
  BY DEF SeriesStep
<1> HIDE DEF t
<1>3. CASE t = 0
  BY <1>2, <1>3 DEF Sums, SignedSum
<1>4. CASE t # 0
  <2> DEFINE up == n % 2 = 0
             w  == AddTerm(v, t, up)
  <2>1. up \in BOOLEAN
    OBVIOUS
  <2>2. SeriesStep(n, v, a) = w
    BY <1>2, <1>4
  <2>3. /\ w \in Sums /\ w.term = t
        /\ SignedSum(w) = IF up THEN SignedSum(v) + t ELSE SignedSum(v) - t
    <3> HIDE DEF up
    <3> QED BY <1>1, <2>1, AddTermSound
  <2> HIDE DEF w
  <2> QED BY <2>2, <2>3
<1> QED BY <1>3, <1>4

-----------------------------------------------------------------------------
(* The series as a function.                                               *)

\* The function that the recursion in TaylorSeriePart defines.
IsSeries(g, a) ==
  g = [n \in 0 .. MaxTerms - 1 |->
         IF n = 0 THEN SeriesStart
         ELSE IF g[n - 1].term = 0 THEN g[n - 1] ELSE SeriesStep(n, g[n - 1], a)]

\* g[n] holds the sums after n iterations of compute_taylor_serie_part.
Iterates(g, a) ==
  /\ TaylorSeriePart(a) = g[MaxTerms - 1]
  /\ g[0] = SeriesStart
  /\ \A n \in Nat : n + 1 <= MaxTerms - 1 =>
       g[n + 1] = IF g[n].term = 0 THEN g[n] ELSE SeriesStep(n + 1, g[n], a)

\* The recursion in TaylorSeriePart defines a function, iteration by iteration.
LEMMA SeriesIterations ==
  ASSUME NEW a
  PROVE  \E g : Iterates(g, a)
<1> DEFINE At(n, v) == IF n = 0 THEN SeriesStart
                       ELSE IF v.term = 0 THEN v ELSE SeriesStep(n, v, a)
           Upto(g, m) == g = [n \in 0 .. m |-> At(n, g[n - 1])]
           G == {m \in Nat : \E g : Upto(g, m)}
<1>0. MaxTerms - 1 \in Nat
  BY InflationAssumption
<1>1. 0 \in G
  <2>1. Upto([n \in 0 .. 0 |-> SeriesStart], 0)
    OBVIOUS
  <2> HIDE DEF Upto
  <2> QED BY <2>1
<1> HIDE DEF At
<1>2. ASSUME NEW m \in Nat, m \in G PROVE m + 1 \in G
  <2>1. PICK h : Upto(h, m)
    BY <1>2
  <2> DEFINE g == [n \in 0 .. m + 1 |-> At(n, h[n - 1])]
  <2>2. \A n \in 0 .. m : g[n] = h[n]
    <3>1. \A n \in 0 .. m : n \in 0 .. m + 1
      OBVIOUS
    <3>2. \A n \in 0 .. m : h[n] = At(n, h[n - 1])
      BY <2>1
    <3> QED BY <3>1, <3>2
  <2>3. Upto(g, m + 1)
    <3>1. \A n \in 0 .. m + 1 : n # 0 => n - 1 \in 0 .. m
      OBVIOUS
    <3>2. \A n \in 0 .. m + 1 : n # 0 => h[n - 1] = g[n - 1]
      BY <2>2, <3>1
    <3>3. \A n \in 0 .. m + 1 : At(n, h[n - 1]) = At(n, g[n - 1])
      BY <3>2 DEF At
    <3>4. g = [n \in 0 .. m + 1 |-> At(n, g[n - 1])]
      BY <3>3
    <3> QED BY <3>4
  <2> HIDE DEF g, Upto
  <2> QED BY <2>3
<1> HIDE DEF G
<1>3. MaxTerms - 1 \in G
  BY <1>0, <1>1, <1>2, NatSetInduction
<1>4. \E g : IsSeries(g, a)
  BY <1>3 DEF G, IsSeries, At
<1>5. TaylorSeriePart(a) = (CHOOSE g : IsSeries(g, a))[MaxTerms - 1]
  BY Zenon DEF TaylorSeriePart, IsSeries
<1>6. PICK g : IsSeries(g, a) /\ TaylorSeriePart(a) = g[MaxTerms - 1]
  BY <1>4, <1>5
<1>7. \A n \in 0 .. MaxTerms - 1 : g[n] =
         IF n = 0 THEN SeriesStart
         ELSE IF g[n - 1].term = 0 THEN g[n - 1] ELSE SeriesStep(n, g[n - 1], a)
  BY <1>6 DEF IsSeries
<1>8. ASSUME NEW n \in Nat, n + 1 <= MaxTerms - 1
      PROVE  g[n + 1] = IF g[n].term = 0 THEN g[n] ELSE SeriesStep(n + 1, g[n], a)
  <2>1. n + 1 \in 0 .. MaxTerms - 1 /\ n + 1 # 0 /\ (n + 1) - 1 = n
    BY <1>0, <1>8
  <2> QED BY <1>7, <2>1
<1>9. g[0] = SeriesStart
  BY <1>0, <1>7
<1> QED BY <1>6, <1>8, <1>9 DEF Iterates

\* compute_taylor_serie_part returns magnitudes and a sign.
LEMMA SeriesType ==
  ASSUME NEW a \in Arguments, a.x > a.x_ideal, a.d >= OnePercent
  PROVE  TaylorSeriePart(a) \in Sums
<1>1. PICK g : Iterates(g, a)
  BY SeriesIterations
<1>2. MaxTerms - 1 \in Nat
  BY InflationAssumption
<1> DEFINE G == {n \in Nat : n <= MaxTerms - 1 => g[n] \in Sums}
<1>3. 0 \in G
  <2>1. SeriesStart \in Sums
    BY PerThingAssumption DEF SeriesStart, Sums
  <2> QED BY <1>1, <2>1 DEF Iterates
<1>4. ASSUME NEW n \in Nat, n \in G PROVE n + 1 \in G
  <2> SUFFICES ASSUME n + 1 <= MaxTerms - 1 PROVE g[n + 1] \in Sums
    OBVIOUS
  <2>1. g[n] \in Sums
    BY <1>2, <1>4
  <2>2. g[n + 1] = IF g[n].term = 0 THEN g[n] ELSE SeriesStep(n + 1, g[n], a)
    BY <1>1 DEF Iterates
  <2>3. n + 1 \in Nat \ {0}
    OBVIOUS
  <2>4. SeriesStep(n + 1, g[n], a) \in Sums
    BY <2>1, <2>3, SeriesStepSound
  <2> QED BY <2>1, <2>2, <2>4
<1> HIDE DEF G
<1>5. MaxTerms - 1 \in G
  BY <1>2, <1>3, <1>4, NatSetInduction
<1> QED BY <1>1, <1>2, <1>5 DEF G, Iterates

\* compute_inflation returns a fraction.
LEMMA CurveType ==
  ASSUME NEW a \in Arguments
  PROVE  ComputeInflation(a) \in Parts
<1>1. a.x \in Nat /\ a.x_ideal \in Nat /\ a.d \in Nat /\ Accuracy \in Nat
  BY PerThingAssumption DEF Arguments, Parts
<1>2. OnePercent \in Nat
  BY InflationAssumption
<1>3. CASE a.x <= a.x_ideal
  BY <1>1, <1>3, FractionType DEF ComputeInflation
<1>4. CASE ~ (a.x <= a.x_ideal) /\ a.d < OnePercent
  BY <1>1, <1>4 DEF ComputeInflation, Parts
<1>5. CASE ~ (a.x <= a.x_ideal) /\ ~ (a.d < OnePercent)
  <2>1. a.x > a.x_ideal /\ a.d >= OnePercent
    BY <1>1, <1>2, <1>5
  <2>2. TaylorSeriePart(a) \in Sums
    BY <2>1, SeriesType
  <2>3. Clamped(TaylorSeriePart(a)) \in Parts
    BY <1>1, <2>2 DEF Clamped, Sums, Parts
  <2> QED BY <1>5, <2>3 DEF ComputeInflation
<1> QED BY <1>3, <1>4, <1>5

\* compute_i_npos returns a fraction.
LEMMA InterestType ==
  ASSUME NEW i_0 \in Parts, NEW i_ideal \in Parts, NEW x_ideal \in Parts,
         NEW inflation \in Parts
  PROVE  InterestAt(i_0, i_ideal, x_ideal, inflation) \in Parts
<1> DEFINE peak   == PartOfPart(i_ideal, x_ideal)
           excess == IF peak > i_0 THEN peak - i_0 ELSE 0
           gain   == PartOfPart(excess, inflation)
<1>1. /\ Accuracy \in Nat /\ i_0 \in Nat /\ i_0 <= Accuracy /\ i_ideal \in Nat
  BY PerThingAssumption DEF Parts
<1>2. peak \in Nat
  BY <1>1, PartBound
<1>3. excess \in Nat
  BY <1>1, <1>2
<1>4. gain \in Nat
  BY <1>3, PartBound
<1>5. InterestAt(i_0, i_ideal, x_ideal, inflation) =
        IF i_0 + gain > Accuracy THEN Accuracy ELSE i_0 + gain
  BY DEF InterestAt
<1> HIDE DEF gain
<1> QED BY <1>1, <1>4, <1>5 DEF Parts

-----------------------------------------------------------------------------
(* Rounding, and the parts of a whole.                                     *)

\* PerThing * n rounds up by at most a half.
LEMMA RoundedPart ==
  ASSUME NEW part \in Nat, NEW n \in Nat
  PROVE  /\ PartOf(part, n) \in Nat
         /\ 2 * (PartOf(part, n) * Accuracy) <= 2 * (part * n) + Accuracy
<1> DEFINE whole == (part * n) \div Accuracy
           rest  == (part * n) % Accuracy
<1>1. Accuracy \in Nat /\ Accuracy > 0
  BY PerThingAssumption
<1>2. part * n \in Nat
  BY ProductNat
<1>3. PartOf(part, n) = IF rest > Accuracy \div 2 THEN whole + 1 ELSE whole
  BY DEF PartOf
<1>4. /\ whole \in Nat /\ rest \in Nat /\ rest < Accuracy
      /\ part * n = whole * Accuracy + rest
  <2> DEFINE p == part * n
  <2>1. p \in Nat
    BY <1>2
  <2> HIDE DEF p
  <2>2. /\ p \div Accuracy \in Nat /\ p % Accuracy \in Nat
        /\ p % Accuracy < Accuracy
        /\ p = (p \div Accuracy) * Accuracy + (p % Accuracy)
    BY <1>1, <2>1
  <2> QED BY <2>2 DEF p
<1> HIDE DEF whole, rest
<1>5. Accuracy \div 2 \in Nat /\ 2 * (Accuracy \div 2) + 1 >= Accuracy
  BY <1>1
<1>6. whole * Accuracy \in Nat /\ (whole + 1) * Accuracy = whole * Accuracy + Accuracy
  BY <1>1, <1>4, ProductNat
<1>7. CASE rest > Accuracy \div 2
  <2>1. 2 * rest >= Accuracy
    BY <1>1, <1>4, <1>5, <1>7
  <2>2. PartOf(part, n) * Accuracy = whole * Accuracy + Accuracy
    BY <1>3, <1>6, <1>7
  <2> QED BY <1>1, <1>2, <1>3, <1>4, <1>6, <1>7, <2>1, <2>2
<1>8. CASE ~ (rest > Accuracy \div 2)
  BY <1>1, <1>2, <1>3, <1>4, <1>6, <1>8
<1> QED BY <1>7, <1>8

\* The fraction p/q is rounded down, and nothing out of nothing is nothing.
LEMMA FractionBound ==
  ASSUME NEW p \in Nat, NEW q \in Nat, p <= q
  PROVE  /\ FromRational(p, q) \in Nat
         /\ FromRational(p, q) * q <= p * Accuracy
         /\ q = 0 => FromRational(p, q) = 0
<1>1. Accuracy \in Nat /\ Accuracy > 0
  BY PerThingAssumption
<1>2. p * Accuracy \in Nat
  BY <1>1, ProductNat
<1>3. CASE q = 0
  <2>1. p = 0 /\ (0 * Accuracy) \div 1 = 0
    BY <1>1, <1>3
  <2>2. FromRational(p, q) = 0
    BY <1>3, <2>1 DEF FromRational
  <2> QED BY <1>1, <1>2, <1>3, <2>2
<1>4. CASE q # 0
  <2>1. FromRational(p, q) = (p * Accuracy) \div q
    BY <1>4 DEF FromRational
  <2> DEFINE n == p * Accuracy
  <2>2. n \in Nat /\ q > 0
    BY <1>2, <1>4
  <2> HIDE DEF n
  <2>3. n \div q \in Nat /\ (n \div q) * q <= n
    BY <2>2
  <2> QED BY <1>4, <2>1, <2>3 DEF n
<1> QED BY <1>3, <1>4

\* What PerThing::from_rational divides by.
Divisor(q) == IF q = 0 THEN 1 ELSE q

\* The fraction p/q is rounded down also where p exceeds q.
LEMMA FractionUnder ==
  ASSUME NEW p \in Nat, NEW q \in Nat
  PROVE  /\ Divisor(q) \in Nat \ {0}
         /\ FromRational(p, q) \in Nat
         /\ FromRational(p, q) * Divisor(q) <= p * Accuracy
<1> DEFINE d   == Divisor(q)
           num == IF p > d THEN d ELSE p
           n   == num * Accuracy
<1>1. Accuracy \in Nat /\ Accuracy > 0
  BY PerThingAssumption
<1>2. d \in Nat /\ d > 0
  BY DEF Divisor
<1>3. FromRational(p, q) = n \div d
  BY DEF FromRational, Divisor
<1> HIDE DEF d
<1>4. num \in Nat /\ num <= p
  BY <1>2
<1> HIDE DEF num
<1>5. n \in Nat /\ n <= p * Accuracy
  BY <1>1, <1>4, ProductNat, ProductMonotone
<1>6. p * Accuracy \in Nat
  BY <1>1, ProductNat
<1> HIDE DEF n
<1>7. n \div d \in Nat /\ (n \div d) * d <= n
  BY <1>2, <1>5
<1>8. (n \div d) * d \in Nat
  BY <1>2, <1>7, ProductNat
<1>9. (n \div d) * d <= p * Accuracy
  BY <1>5, <1>6, <1>7, <1>8
<1> QED BY <1>2, <1>3, <1>7, <1>9 DEF d

\* A part of at most a half is at most half of it.
LEMMA HalfPart ==
  ASSUME NEW half \in Nat, 2 * half <= Accuracy, NEW x \in Nat
  PROVE  PartOfPart(half, x) \in Nat /\ 2 * PartOfPart(half, x) <= x
<1>1. Accuracy \in Nat /\ Accuracy > 0
  BY PerThingAssumption
<1> DEFINE p == half * x
           y == p \div Accuracy
<1>2. p \in Nat
  BY ProductNat
<1>3. 2 * p <= Accuracy * x
  <2>1. (2 * half) * x <= Accuracy * x
    BY <1>1, ProductMonotone
  <2> QED BY <2>1
<1> HIDE DEF p
<1>4. y \in Nat /\ y * Accuracy <= p
  BY <1>1, <1>2
<1> HIDE DEF y
<1>5. (2 * y) * Accuracy <= x * Accuracy
  BY <1>1, <1>2, <1>3, <1>4
<1>6. 2 * y <= x
  BY <1>1, <1>4, <1>5, FactorOut
<1> QED BY <1>4, <1>6 DEF PartOfPart, y, p
=============================================================================
