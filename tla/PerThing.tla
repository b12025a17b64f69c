------------------------------ MODULE PerThing ------------------------------
(***************************************************************************)
(* sp_arithmetic's fixed-point fractions as inflation.rs, taylor_series.rs *)
(* and payout_stakers use them: a fraction is its number of parts of       *)
(* Accuracy (10^9 for the Perbill of the payouts, 100 for a Percent).      *)
(***************************************************************************)
EXTENDS Integers

CONSTANT Accuracy

ASSUME PerThingAssumption == Accuracy \in Nat \ {0}

Parts == 0 .. Accuracy

\* PerThing::from_rational(p, q): rounded down, at most one, and q = 0 is 1.
FromRational(p, q) ==
  LET den == IF q = 0 THEN 1 ELSE q
      num == IF p > den THEN den ELSE p
  IN  (num * Accuracy) \div den

\* part * part, rounded down.
PartOfPart(a, b) == (a * b) \div Accuracy

\* part * n for a number n, rounded to the nearest (a half rounds down).
PartOf(part, n) ==
  LET whole == (part * n) \div Accuracy
      rest  == (part * n) % Accuracy
  IN  IF rest > Accuracy \div 2 THEN whole + 1 ELSE whole
=============================================================================
