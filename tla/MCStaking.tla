----------------------------- MODULE MCStaking ------------------------------
(* Constants of the small staking instances.  Account 3 only nominates.    *)
EXTENDS Staking

\* Both candidates bonded at genesis.
TwoStakers == [a \in {1, 2} |-> 2]

\* The nominator, too, asked for a bond at genesis, of less than the minimum.
OneRejected == [a \in 1 .. 3 |-> IF a = 3 THEN 1 ELSE 2]

\* Nobody bonded at genesis.
NoStaker == [a \in {} |-> 0]

Rich  == [a \in 1 .. 3 |-> 40]
Scant == [a \in 1 .. 3 |-> 3]

Setting(duration, blocks, target) ==
  [bond_duration |-> duration, blocks_per_round |-> blocks,
   desired_target |-> target]

EveryBlock    == Setting(1, 1, 1)
LongDelay     == Setting(2, 1, 1)
OneSetting    == {EveryBlock}
DelaySettings == {EveryBlock, LongDelay}
TimeSettings  == {Setting(1, 0, 1), Setting(2, 2, 2)}
=============================================================================
