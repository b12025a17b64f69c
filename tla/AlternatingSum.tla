--------------------------- MODULE AlternatingSum ---------------------------
(***************************************************************************)
(* What the loop of compute_taylor_serie_part computes, with the signed    *)
(* integers that BigUint lacks: one term after the other, the odd ones     *)
(* subtracted and the even ones added.  The answer is the total, or zero   *)
(* when the total is not between zero and one.                             *)
(***************************************************************************)
EXTENDS Integers

CONSTANT One    \* the number one, and the first term

VARIABLES
  stage,        \* "idle", "series" or "returned"
  n,            \* number of the latest term
  term,         \* the latest term
  total,        \* the signed sum of the terms so far
  answer        \* the value returned

svars == <<stage, n, term, total, answer>>

Empty == n = 0 /\ term = One /\ total = One /\ answer = 0

Init == stage = "idle" /\ Empty

Begin ==
  /\ stage = "idle"
  /\ stage' = "series"
  /\ UNCHANGED <<n, term, total, answer>>

Add ==
  /\ stage = "series"
  /\ n' = n + 1
  /\ total' = IF n' % 2 = 0 THEN total + term' ELSE total - term'
  /\ UNCHANGED <<stage, answer>>

Return ==
  /\ stage = "series"
  /\ stage' = "returned"
  /\ answer' = IF 0 <= total /\ total <= One THEN total ELSE 0
  /\ UNCHANGED <<n, term, total>>

\* Calls that need no series.
Shortcut ==
  /\ stage = "idle"
  /\ stage' = "returned"
  /\ UNCHANGED <<n, term, total>>

Again == stage = "returned" /\ stage' = "idle" /\ Empty'

Next == Begin \/ Add \/ Return \/ Shortcut \/ Again

Spec == Init /\ [][Next]_svars
=============================================================================
