------------------------------ MODULE MCTaylor ------------------------------
(* Percents.  TLC computes with 32 bits: the excess stake is at most ten   *)
(* times the falloff, where the largest intermediate product still fits.   *)
EXTENDS TaylorSeries

MCInputs ==
  {a \in [x : {0, 1, 5} \cup {i * 3 : i \in 3 .. 33} \cup {100},
          x_ideal : {0, 10, 50, 100},
          d : {0, 1, 2, 5, 7, 10, 30, 100}] :
     a.x - a.x_ideal <= 10 * a.d \/ a.d = 0}
=============================================================================
