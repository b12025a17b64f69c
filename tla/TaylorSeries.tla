---------------------------- MODULE TaylorSeries ----------------------------
(***************************************************************************)
(* compute_inflation as it runs: one action per branch, one per iteration  *)
(* of the series, called once for each payout with the round's figures.    *)
(***************************************************************************)
EXTENDS Inflation

CONSTANTS
  Inputs,            \* the arguments of the calls explored
  I0, IIdeal,        \* the least and the ideal interest, in parts
  Tolerance          \* allowed error of the result, in parts

ASSUME TaylorAssumption ==
  /\ Inputs \subseteq Arguments
  /\ I0 \in Parts /\ IIdeal \in Parts
  /\ Tolerance \in Nat

\* payout_stakers computes with Perbill: 10^9 parts, of which ln(2) takes
\* less than 70 percent and one percent is 10^7; the loop runs over 1..300.
ASSUME PerbillAssumption ==
  /\ Accuracy <= 1000 * 1000 * 1000
  /\ 100 * Ln2 <= 70 * Accuracy
  /\ Accuracy <= 100 * OnePercent
  /\ MaxTerms >= 300

VARIABLES
  pc,           \* "idle", "series" or "returned"
  arg,          \* the arguments
  k,            \* the loop variable, 0 before the loop
  s,            \* last_taylor_term, taylor_sum, taylor_sum_positive
  result        \* the value returned

vars == <<pc, arg, k, s, result>>

Init ==
  /\ pc = "idle"
  /\ arg \in Inputs
  /\ k = 0
  /\ s = SeriesStart
  /\ result = 0

\* stake <= ideal_stake
BelowIdeal ==
  /\ pc = "idle" /\ arg.x <= arg.x_ideal
  /\ pc' = "returned"
  /\ result' = FromRational(arg.x, arg.x_ideal)
  /\ UNCHANGED <<arg, k, s>>

\* "falloff less than 1% is not supported"
FalloffTooSmall ==
  /\ pc = "idle" /\ arg.x > arg.x_ideal /\ arg.d < OnePercent
  /\ pc' = "returned"
  /\ UNCHANGED <<arg, k, s, result>>

StartSeries ==
  /\ pc = "idle" /\ arg.x > arg.x_ideal /\ arg.d >= OnePercent
  /\ pc' = "series"
  /\ UNCHANGED <<arg, k, s, result>>

\* The series cut off after the tenth term.
MutContinues == k < 10 /\ s.term # 0

\* The loop has neither broken off nor run out.
Continues == k + 1 < MaxTerms /\ s.term # 0

Iterate ==
  /\ pc = "series" /\ Continues
  /\ k' = k + 1
  /\ s' = SeriesStep(k + 1, s, arg)
  /\ UNCHANGED <<pc, arg, result>>

Finish ==
  /\ pc = "series" /\ ~ Continues
  /\ pc' = "returned"
  /\ result' = Clamped(s)
  /\ UNCHANGED <<arg, k, s>>

\* The next call; nothing is kept from one to the next.
Call(a) ==
  /\ pc = "returned"
  /\ pc' = "idle"
  /\ arg' = a
  /\ k' = 0 /\ s' = SeriesStart /\ result' = 0

Next == \/ BelowIdeal \/ FalloffTooSmall \/ StartSeries \/ Iterate \/ Finish
        \/ \E a \in Inputs : Call(a)

Spec == Init /\ [][Next]_vars

-----------------------------------------------------------------------------
(* Properties.                                                             *)

\* The result is a fraction, the magnitudes are naturals: BigUint::sub never
\* takes its error path.
TypeOK ==
  /\ pc \in {"idle", "series", "returned"}
  /\ arg \in Arguments
  /\ k \in 0 .. MaxTerms - 1
  /\ s \in Sums
  /\ result \in Parts

\* The series is summed until its terms vanish: the limit on the number of
\* iterations never cuts it short.
SeriesConverges == pc = "series" /\ ~ Continues => s.term = 0

\* Beyond the ideal the result halves with every d of excess stake, up to
\* Tolerance (inflation.rs, on test_precision: "less or equal to
\* 8/accuracy"), although every term is truncated three times and the terms
\* grow before they vanish.
CloseToCurve ==
  pc = "returned" /\ arg.x > arg.x_ideal /\ arg.d >= OnePercent =>
    LET excess == arg.x - arg.x_ideal
        floor  == excess \div arg.d
        ceil   == (excess + arg.d - 1) \div arg.d
    IN  /\ result <= (Accuracy \div 2 ^ floor) + Tolerance
        /\ result + Tolerance >= Accuracy \div 2 ^ ceil

\* Where the least interest i_0 is below i_ideal * x_ideal, compute_i_npos runs
\* between the two: nothing staked pays i_0, the ideal stake pays the peak, and
\* neither truncation nor the series beyond the ideal leaves the range.  (With
\* i_0 above the peak compute_i_npos returns i_0, where the oracle float_i_npos of
\* its tests takes a tenth of the peak as the least interest.)
InterestInRange ==
  LET peak == PartOfPart(IIdeal, arg.x_ideal)
      i    == InterestAt(I0, IIdeal, arg.x_ideal, result)
  IN  pc = "returned" /\ I0 <= peak =>
        /\ I0 <= i /\ i <= peak
        /\ arg.x = 0 => i = I0
        /\ arg.x = arg.x_ideal => i = peak

Signed == INSTANCE AlternatingSum
            WITH One    <- Accuracy,
                 stage  <- pc,
                 n      <- k,
                 term   <- s.term,
                 total  <- IF s.positive THEN s.sum ELSE 0 - s.sum,
                 answer <- result

\* Magnitude and sign together always are the signed alternating sum of the
\* terms, through every change of sign, and what is returned is that sum.
ImplementsSum == Signed!Spec
=============================================================================
