---------------------------- MODULE MCCrowdloan -----------------------------
(* Constants of the small crowdloan instances.                             *)
EXTENDS CrowdloanRewards

CONSTANTS n1, n2, r1, r2

\* r1 signed for both natives, r2 for one of them.
MCProofs == {<<r1, n1>>, <<r1, n2>>, <<r2, n2>>}
=============================================================================
