------------------------------ MODULE Inflation ------------------------------
(***************************************************************************)
(* inflation.rs and taylor_series.rs: how much one round mints.  The share *)
(* of the ideal interest that is paid when a fraction x of all tokens is   *)
(* staked is                                                               *)
(*   x / x_ideal              up to x_ideal,                               *)
(*   2 ^ ((x_ideal - x) / d)  beyond it,                                   *)
(* the latter as a Taylor series whose sum is kept as a magnitude and a    *)
(* sign, because BigUint has no sign.  BigUints are naturals here: lstrip  *)
(* and the cases of div_by_stripped make them divide as naturals do.       *)
(***************************************************************************)
EXTENDS PerThing

CONSTANTS
  Ln2,          \* ln(2) in parts: P::from_rational(LN2, 10^18)
  OnePercent,   \* P::from_percent(1)
  MaxTerms      \* the loop is `for k in 1..300`

ASSUME InflationAssumption ==
  /\ Ln2 \in Nat
  /\ OnePercent \in Nat \ {0}
  /\ MaxTerms \in Nat \ {0}

\* The arguments of compute_inflation: stake, ideal_stake and falloff.
Arguments == [x : Parts, x_ideal : Parts, d : Parts]

Ln2DivD(d) == (Ln2 * Accuracy) \div d

\* Divided by n + 1.
MutTerm(n, previous, a) ==
  (((previous * (a.x - a.x_ideal) * Ln2DivD(a.d)) \div (n + 1)) \div Accuracy)
    \div Accuracy

\* compute_taylor_term
Term(n, previous, a) ==
  (((previous * (a.x - a.x_ideal) * Ln2DivD(a.d)) \div n) \div Accuracy)
    \div Accuracy

\* The sign kept although the term outweighs the sum.
MutAddTerm(s, t, termPositive) ==
  [term     |-> t,
   sum      |-> IF s.positive = termPositive THEN s.sum + t
                ELSE IF s.sum >= t THEN s.sum - t ELSE t - s.sum,
   positive |-> s.positive]

\* Subtracted without comparing first.
MutAddUnsigned(s, t, termPositive) ==
  [term     |-> t,
   sum      |-> IF s.positive = termPositive THEN s.sum + t ELSE s.sum - t,
   positive |-> s.positive]

\* Term t added to the sum of s, both as magnitude and sign.
AddTerm(s, t, termPositive) ==
  IF s.positive = termPositive
    THEN [term |-> t, sum |-> s.sum + t, positive |-> s.positive]
    ELSE IF s.sum >= t
           THEN [term |-> t, sum |-> s.sum - t, positive |-> s.positive]
           ELSE [term |-> t, sum |-> t - s.sum, positive |-> ~ s.positive]

\* last_taylor_term, taylor_sum and taylor_sum_positive
Sums == [term : Nat, sum : Nat, positive : BOOLEAN]

SeriesStart == [term |-> Accuracy, sum |-> Accuracy, positive |-> TRUE]

\* Iteration n of the loop: a term that is zero is not added.
SeriesStep(n, s, a) ==
  LET t == Term(n, s.term, a)
  IN  IF t = 0 THEN [s EXCEPT !.term = 0] ELSE AddTerm(s, t, n % 2 = 0)

\* What becomes of the sum: zero when it is negative or beyond one.
Clamped(s) == IF s.positive /\ s.sum <= Accuracy THEN s.sum ELSE 0

\* compute_taylor_serie_part: the sums after n iterations; the loop breaks
\* after a term that is zero.
TaylorSeriePart(a) ==
  LET after[n \in 0 .. MaxTerms - 1] ==
        IF n = 0 THEN SeriesStart
        ELSE LET s == after[n - 1]
             IN  IF s.term = 0 THEN s ELSE SeriesStep(n, s, a)
  IN  after[MaxTerms - 1]

ComputeInflation(a) ==
  IF a.x <= a.x_ideal THEN FromRational(a.x, a.x_ideal)
  ELSE IF a.d < OnePercent THEN 0
  ELSE Clamped(TaylorSeriePart(a))

\* The whole peak on top of the least interest.
MutInterestAt(i_0, i_ideal, x_ideal, inflation) ==
  LET i_npos == i_0 + PartOfPart(PartOfPart(i_ideal, x_ideal), inflation)
  IN  IF i_npos > Accuracy THEN Accuracy ELSE i_npos

\* compute_i_npos: from the least interest i_0 up to i_ideal * x_ideal,
\* by the inflation curve.
InterestAt(i_0, i_ideal, x_ideal, inflation) ==
  LET peak   == PartOfPart(i_ideal, x_ideal)
      excess == IF peak > i_0 THEN peak - i_0 ELSE 0
      i_npos == i_0 + PartOfPart(excess, inflation)
  IN  IF i_npos > Accuracy THEN Accuracy ELSE i_npos
=============================================================================
