---------------------------- MODULE VestingGrants ----------------------------
(***************************************************************************)
(* What the crowdloan-rewards pallet promises a contributor, without its   *)
(* records: every grant vests linearly over a window of its own, and what  *)
(* has been drawn of it is never ahead of that line.  A grant whose window *)
(* has passed is matured: all of it may be drawn, and the window, which    *)
(* the pallet does not keep, is forgotten.                                 *)
(***************************************************************************)
EXTENDS Naturals

CONSTANT Grantees

VARIABLES
  clock,     \* the block number
  grants,    \* grantee -> its latest grant
  drawn      \* what each grantee has been paid of that grant

avars == <<clock, grants, drawn>>

Matured(g) == [amount |-> g.amount, from |-> 0, to |-> 0]

\* d of grant g may have been drawn by now.  Before the window closes, d is
\* on or below the line from (from, 0) to (to, amount).
OnSchedule(g, d) ==
  /\ d <= g.amount
  /\ clock < g.to => d * (g.to - g.from) <= g.amount * (clock - g.from)

Init ==
  /\ clock = 0
  /\ grants = [g \in {} |-> g]
  /\ drawn = [g \in Grantees |-> 0]

Tick ==
  /\ clock' = clock + 1
  /\ UNCHANGED <<grants, drawn>>

\* New grants start together, once no earlier grant is still vesting.
Grant(new) ==
  /\ \A g \in DOMAIN grants : clock >= grants[g].to
  /\ DOMAIN grants' = DOMAIN grants \cup new
  /\ \A g \in new : grants'[g].from = clock /\ grants'[g].to > clock
  /\ \A g \in DOMAIN grants \ new : grants'[g] = Matured(grants[g])
  /\ drawn' = [g \in Grantees |-> IF g \in new THEN 0 ELSE drawn[g]]
  /\ UNCHANGED clock

Draw(g) ==
  /\ g \in DOMAIN grants
  /\ drawn'[g] > drawn[g]
  /\ OnSchedule(grants[g], drawn'[g])
  /\ drawn' = [drawn EXCEPT ![g] = drawn'[g]]
  /\ UNCHANGED <<clock, grants>>

Next == Tick \/ (\E new \in SUBSET Grantees : Grant(new))
             \/ (\E g \in Grantees : Draw(g))

Spec == Init /\ [][Next]_avars
=============================================================================
