----------------------------- MODULE MCRewards ------------------------------
(* Two collators and two nominators, n2 without an account.  Fractions are *)
(* percents, and a round is a whole year, so that payouts and rounding are *)
(* large next to the amounts.                                              *)
EXTENDS BlockRewards

CONSTANTS c1, c2, n1, n2

MCEndowment == [a \in {c1, c2, n1, n2} |->
                  CASE a = n2 -> 0 [] a = c2 -> 7 [] OTHER -> 400]

Backed(own, by1, by2) ==
  [own |-> own, others |-> [n \in {n1, n2} |-> IF n = n1 THEN by1 ELSE by2]]

\* Both collators, half of the tokens staked; one collator with a nominator
\* that outweighs it, beyond the ideal stake; both collators, the second with a
\* nomination that was stored and then refused; a failed election.
MCElections ==
  { [staked |-> 503, exposed |-> [c \in {c1, c2} |->
       IF c = c1 THEN Backed(153, 0, 100) ELSE Backed(247, 3, 0)]],
    [staked |-> 623, exposed |-> [c \in {c1} |-> Backed(23, 600, 0)]],
    [staked |-> 353, exposed |-> [c \in {c1, c2} |->
       IF c = c1 THEN Backed(23, 300, 0) ELSE Backed(30, 300, 0)]],
    [staked |-> 120, exposed |-> EmptyMap] }
=============================================================================
