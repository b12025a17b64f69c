-------------------------- MODULE CrowdloanProofs ---------------------------
(***************************************************************************)
(* Proofs about CrowdloanRewards for every value of its constants: any     *)
(* number of accounts and relays, any amounts, any block bound.            *)
(***************************************************************************)
EXTENDS CrowdloanRewards, TLAPS

\* The campaign's bookkeeping: the relays of the latest list are all
\* contributors, the campaign started at a block that is not in the future,
\* and none of them was paid before it started.
CampaignOK ==
  /\ enlisted \subseteq DOMAIN contributors
  /\ rewardPeriod <= currentRewardEndIn
  /\ currentRewardEndIn - rewardPeriod <= now
  /\ \A r \in enlisted :
       currentRewardEndIn - rewardPeriod <= contributors[r].last_paid

\* An association was made with the relay's signature over that account.
AssociationProven ==
  \A n \in DOMAIN associatedAccount : <<associatedAccount[n], n>> \in Proofs

\* The inductive invariant.
IInv ==
  /\ TypeOK
  /\ PeriodPositive
  /\ PaidWithinReward
  /\ CampaignOK
  /\ VestedOnSchedule
  /\ AssociationProven

-----------------------------------------------------------------------------
\* Treasury: a transfer that CanTransfer allows keeps every balance a natural
\* number (the currency of donate, allocate and get_money).
LEMMA TransferType ==
  ASSUME NEW acc \in [Holders -> AccountData],
         NEW from \in Holders, NEW to \in Holders, NEW v \in Nat,
         CanTransfer(acc, from, to, v)
  PROVE  Transfer(acc, from, to, v) \in [Holders -> AccountData]
<1>1. /\ acc[from].free \in Nat /\ acc[from].reserved \in Nat
      /\ acc[to].free \in Nat /\ acc[to].reserved \in Nat
  BY DEF AccountData
<1>2. CASE v = 0 \/ from = to
  BY <1>2 DEF Transfer
<1>3. CASE ~(v = 0 \/ from = to)
  <2>1. acc[from].free >= v
    BY <1>3 DEF CanTransfer
  <2>2. [free |-> acc[from].free - v, reserved |-> acc[from].reserved]
          \in AccountData
    BY <1>1, <2>1 DEF AccountData
  <2>3. Reap([free |-> acc[from].free - v, reserved |-> acc[from].reserved])
          \in AccountData
    BY <2>2 DEF Reap, NoAccount, AccountData
  <2>4. [free |-> acc[to].free + v, reserved |-> acc[to].reserved]
          \in AccountData
    BY <1>1 DEF AccountData
  <2> QED BY <1>3, <2>3, <2>4 DEF Transfer
<1> QED BY <1>2, <1>3

\* get_money: two instalments at the same rate make the schedule's amount.
LEMMA Instalments ==
  ASSUME NEW q \in Nat, NEW s \in Int, NEW l \in Int, NEW n \in Int
  PROVE  q * (l - s) + q * (n - l) = q * (n - s)
OBVIOUS

\* get_money: a product of naturals is a natural.
LEMMA ProductNat ==
  ASSUME NEW q \in Nat, NEW b \in Nat
  PROVE  q * b \in Nat
OBVIOUS

\* get_money: the rate per block is a natural when the period is not empty.
LEMMA RateNat ==
  ASSUME NEW t \in Nat, NEW p \in Nat, p > 0
  PROVE  t \div p \in Nat
OBVIOUS

\* get_money: what a claim adds to the record never exceeds what is left of
\* the reward, whatever the campaign's rate has become.
LEMMA PayableBound ==
  ASSUME TypeOK, rewardPeriod > 0,
         NEW info \in RewardInfo,
         info.claimed_reward <= info.total_reward,
         info.last_paid <= now
  PROVE  /\ Payable(info) \in Nat
         /\ info.claimed_reward + Payable(info) <= info.total_reward
<1> DEFINE rate == info.total_reward \div rewardPeriod
           blocks == SaturatingSub(now, info.last_paid)
<1>1. rate \in Nat
  BY RateNat DEF TypeOK, RewardInfo
<1>2. blocks \in Nat
  BY DEF TypeOK, RewardInfo, SaturatingSub
<1>3. rate * blocks \in Nat
  BY <1>1, <1>2, ProductNat
<1>4. Payable(info) = IF rate * blocks > info.total_reward - info.claimed_reward
                        THEN info.total_reward - info.claimed_reward
                        ELSE rate * blocks
  BY DEF Payable
<1> HIDE DEF rate, blocks
<1> QED BY <1>3, <1>4 DEF RewardInfo

\* get_money: the record a claim writes.
LEMMA ClaimedFields ==
  ASSUME NEW info \in RewardInfo, now \in Nat, Payable(info) \in Nat
  PROVE  /\ Claimed(info) \in RewardInfo
         /\ Claimed(info).total_reward = info.total_reward
         /\ Claimed(info).claimed_reward = info.claimed_reward + Payable(info)
         /\ Claimed(info).last_paid = now
BY DEF Claimed, RewardInfo

-----------------------------------------------------------------------------
\* The pallets' empty storage satisfies the inductive invariant.
LEMMA InitIInv == Init => IInv
<1> SUFFICES ASSUME Init PROVE IInv
  OBVIOUS
<1>1. TypeOK
  BY CrowdloanAssumption DEF Init, TypeOK, EmptyMap, AccountData
<1> QED BY <1>1 DEF Init, IInv, PeriodPositive, PaidWithinReward, CampaignOK,
           VestedOnSchedule, AssociationProven, EmptyMap

-----------------------------------------------------------------------------
\* initialize_reward: the relays of the new list start from nothing at the
\* campaign's first block; the others keep their records, and the period is
\* positive whatever was stored before.
LEMMA InitializeIInv ==
  ASSUME IInv,
         NEW list \in PartialMaps(Relays, Contributions), NEW rate \in Rates,
         NEW end_block \in 0 .. MaxBlock,
         InitializeReward(list, rate, end_block)
  PROVE  IInv'
<1> USE DEF IInv, InitializeReward, CanInitialize
<1>1. /\ DOMAIN list \subseteq Relays
      /\ \A r \in DOMAIN list : list[r] \in Nat
  BY CrowdloanAssumption DEF PartialMaps
<1>2. rate \in Nat /\ end_block \in Nat /\ now \in Nat
  BY CrowdloanAssumption DEF TypeOK
<1> DEFINE new == NewRewards(list, rate)
<1>3. /\ DOMAIN new = DOMAIN list
      /\ \A r \in DOMAIN list :
           /\ new[r] \in RewardInfo
           /\ new[r].claimed_reward = 0
           /\ new[r].last_paid = now
  BY <1>1, <1>2 DEF NewRewards, RewardInfo
<1> HIDE DEF new
<1>4. /\ contributors' = [x \in DOMAIN contributors \cup DOMAIN list |->
                            IF x \in DOMAIN list THEN new[x]
                                                 ELSE contributors[x]]
      /\ DOMAIN contributors' = DOMAIN contributors \cup DOMAIN list
  BY <1>3 DEF MapInsertAll, new
<1>5. TypeOK'
  BY <1>1, <1>2, <1>3, <1>4 DEF TypeOK
<1>6. PeriodPositive'
  BY <1>2 DEF PeriodPositive
<1>7. PaidWithinReward'
  <2> SUFFICES ASSUME NEW r \in DOMAIN contributors'
               PROVE  /\ paid'[r] <= contributors'[r].claimed_reward
                      /\ contributors'[r].claimed_reward
                           <= contributors'[r].total_reward
                      /\ contributors'[r].last_paid <= now'
    BY DEF PaidWithinReward
  <2>1. CASE r \in DOMAIN list
    BY <1>1, <1>2, <1>3, <1>4, <2>1 DEF TypeOK, RewardInfo
  <2>2. CASE r \notin DOMAIN list
    BY <1>4, <2>2 DEF TypeOK, PaidWithinReward
  <2> QED BY <2>1, <2>2
<1>8. CampaignOK'
  BY <1>2, <1>3, <1>4 DEF CampaignOK
<1>9. VestedOnSchedule'
  <2> SUFFICES ASSUME NEW r \in DOMAIN list
               PROVE  LET info   == contributors'[r]
                          vested == (info.total_reward \div rewardPeriod')
                                      * (info.last_paid
                                          - (currentRewardEndIn' - rewardPeriod'))
                      IN  info.claimed_reward =
                            IF vested > info.total_reward
                              THEN info.total_reward ELSE vested
    BY DEF VestedOnSchedule
  <2>1. contributors'[r] = new[r]
    BY <1>4
  <2>2. new[r].last_paid - (currentRewardEndIn' - rewardPeriod') = 0
    BY <1>2, <1>3
  <2>3. /\ new[r].total_reward \div rewardPeriod' \in Nat
        /\ new[r].total_reward \in Nat
    BY <1>2, <1>3, RateNat DEF RewardInfo
  <2>4. (new[r].total_reward \div rewardPeriod') * 0 = 0
    BY <2>3
  <2> QED BY <1>3, <2>1, <2>2, <2>3, <2>4
<1>10. AssociationProven'
  BY DEF AssociationProven
<1> QED BY <1>5, <1>6, <1>7, <1>8, <1>9, <1>10

\* associate_account touches the associations only, and adds only what the
\* relay signed for.
LEMMA AssociateIInv ==
  ASSUME IInv, NEW who \in Natives, NEW relay \in Relays,
         AssociateAccount(who, relay)
  PROVE  IInv'
<1> USE DEF IInv, AssociateAccount
<1>1. TypeOK'
  BY DEF TypeOK, MapInsert
<1>2. AssociationProven'
  BY DEF AssociationProven, MapInsert, Verify
<1> QED BY <1>1, <1>2 DEF PeriodPositive, PaidWithinReward, CampaignOK,
                          VestedOnSchedule

\* update_associate_account likewise, for the account it hands the relay to.
LEMMA UpdateIInv ==
  ASSUME IInv, NEW who \in Natives, NEW old \in Natives, NEW relay \in Relays,
         UpdateAssociateAccount(who, old, relay)
  PROVE  IInv'
<1> USE DEF IInv, UpdateAssociateAccount, CanUpdate
<1>1. TypeOK'
  BY DEF TypeOK, MapInsert, MapRemove
<1>2. AssociationProven'
  BY DEF AssociationProven, MapInsert, MapRemove, Verify
<1> QED BY <1>1, <1>2 DEF PeriodPositive, PaidWithinReward, CampaignOK,
                          VestedOnSchedule

\* get_money: whether or not the payment succeeds, the claim moves the record
\* along the schedule and within the reward, and pays at most what it records.
LEMMA GetMoneyIInv ==
  ASSUME IInv, NEW who \in Natives, GetMoney(who)
  PROVE  IInv'
<1> DEFINE relay == associatedAccount[who]
           info  == contributors[relay]
           start == currentRewardEndIn - rewardPeriod
           rate  == info.total_reward \div rewardPeriod
<1>1. /\ relay \in Relays /\ relay \in DOMAIN contributors
      /\ info \in RewardInfo
      /\ info.total_reward > info.claimed_reward
  BY DEF IInv, GetMoney, TypeOK, Has
<1>2. rewardPeriod \in Nat /\ rewardPeriod > 0 /\ now \in Nat
  BY <1>1, CrowdloanAssumption DEF IInv, TypeOK, PeriodPositive
<1>3. /\ info.claimed_reward <= info.total_reward
      /\ info.last_paid <= now
      /\ paid[relay] <= info.claimed_reward
  BY <1>1 DEF IInv, PaidWithinReward
<1>4. /\ Payable(info) \in Nat
      /\ info.claimed_reward + Payable(info) <= info.total_reward
  BY <1>1, <1>2, <1>3, PayableBound DEF IInv
<1> DEFINE next == Claimed(info)
<1>5. /\ next \in RewardInfo
      /\ next.total_reward = info.total_reward
      /\ next.claimed_reward = info.claimed_reward + Payable(info)
      /\ next.last_paid = now
  BY <1>1, <1>2, <1>4, ClaimedFields
<1> HIDE DEF next
<1>6. /\ DOMAIN contributors' = DOMAIN contributors
      /\ contributors' = [x \in DOMAIN contributors |->
                            IF x = relay THEN next ELSE contributors[x]]
  BY <1>1 DEF GetMoney, MapInsert, next
<1>7. UNCHANGED <<now, associatedAccount, currentRewardEndIn, rewardPeriod,
                  enlisted>>
  BY DEF GetMoney
<1>8. \/ /\ accounts' = Transfer(accounts, TreasuryAccount, who, Payable(info))
         /\ CanTransfer(accounts, TreasuryAccount, who, Payable(info))
         /\ paid' = [paid EXCEPT ![relay] = @ + Payable(info)]
      \/ UNCHANGED <<accounts, paid>>
  BY DEF GetMoney, PayoutSucceeds
<1> HIDE DEF relay, info, start, rate
<1>9. TypeOK'
  <2>1. accounts' \in [Holders -> AccountData]
    <3>1. /\ TreasuryAccount \in Holders /\ who \in Holders
          /\ accounts \in [Holders -> AccountData]
      BY DEF IInv, TypeOK, Holders
    <3>2. CASE UNCHANGED <<accounts, paid>>
      BY <3>1, <3>2
    <3>3. CASE CanTransfer(accounts, TreasuryAccount, who, Payable(info))
      <4>1. Transfer(accounts, TreasuryAccount, who, Payable(info))
              \in [Holders -> AccountData]
        BY <1>4, <3>1, <3>3, TransferType
      <4> QED BY <1>8, <3>1, <4>1
    <3> QED BY <1>8, <3>2, <3>3
  <2>2. paid' \in [Relays -> Nat]
    BY <1>1, <1>4, <1>8 DEF IInv, TypeOK
  <2>3. contributors' \in [DOMAIN contributors' -> RewardInfo]
    BY <1>1, <1>5, <1>6 DEF IInv, TypeOK
  <2> QED BY <1>6, <1>7, <2>1, <2>2, <2>3 DEF IInv, TypeOK
<1>10. PeriodPositive'
  BY <1>2, <1>7 DEF PeriodPositive
<1>11. PaidWithinReward'
  <2> SUFFICES ASSUME NEW r \in DOMAIN contributors
               PROVE  /\ paid'[r] <= contributors'[r].claimed_reward
                      /\ contributors'[r].claimed_reward
                           <= contributors'[r].total_reward
                      /\ contributors'[r].last_paid <= now'
    BY <1>6 DEF PaidWithinReward
  <2>1. CASE r = relay
    <3>1. contributors'[r] = next
      BY <1>6, <2>1
    <3>2. paid'[r] = paid[r] \/ paid'[r] = paid[r] + Payable(info)
      BY <1>1, <1>8, <2>1 DEF IInv, TypeOK
    <3>3. paid[r] \in Nat /\ info.claimed_reward \in Nat
      BY <1>1, <2>1 DEF IInv, TypeOK, RewardInfo
    <3> QED BY <1>2, <1>3, <1>4, <1>5, <1>7, <2>1, <3>1, <3>2, <3>3
  <2>2. CASE r # relay
    BY <1>1, <1>6, <1>7, <1>8, <2>2 DEF IInv, TypeOK, PaidWithinReward
  <2> QED BY <2>1, <2>2
<1>12. CampaignOK'
  BY <1>2, <1>5, <1>6, <1>7 DEF IInv, CampaignOK, TypeOK
<1>13. VestedOnSchedule'
  <2> SUFFICES ASSUME NEW r \in enlisted
               PROVE  LET inf    == contributors'[r]
                          vested == (inf.total_reward \div rewardPeriod)
                                      * (inf.last_paid
                                          - (currentRewardEndIn - rewardPeriod))
                      IN  inf.claimed_reward =
                            IF vested > inf.total_reward
                              THEN inf.total_reward ELSE vested
    BY <1>7 DEF VestedOnSchedule
  <2>1. r \in DOMAIN contributors
    BY DEF IInv, CampaignOK
  <2>2. CASE r # relay
    <3>1. contributors'[r] = contributors[r]
      BY <1>6, <2>1, <2>2
    <3> QED BY <3>1 DEF IInv, VestedOnSchedule
  <2>3. CASE r = relay
    <3>1. contributors'[r] = next
      BY <1>6, <2>1, <2>3
    <3>2. info.claimed_reward =
            IF rate * (info.last_paid - start) > info.total_reward
              THEN info.total_reward ELSE rate * (info.last_paid - start)
      BY <2>3 DEF IInv, VestedOnSchedule, info, rate, start
    <3>3. rate \in Nat
      BY <1>1, <1>2, RateNat DEF rate, RewardInfo
    <3>4. start \in Int /\ start <= info.last_paid /\ info.last_paid \in Int
      BY <1>1, <1>2, <2>3 DEF IInv, CampaignOK, TypeOK, RewardInfo, start, info
    <3>5. rate * (info.last_paid - start) + rate * (now - info.last_paid)
            = rate * (now - start)
      BY <1>2, <3>3, <3>4, Instalments
    <3>6. /\ rate * (info.last_paid - start) \in Int
          /\ rate * (now - start) \in Int
          /\ rate * (now - info.last_paid) \in Nat
      <4>1. now - info.last_paid \in Nat
        BY <1>2, <1>3, <3>4
      <4>2. rate * (now - info.last_paid) \in Nat
        BY <3>3, <4>1, ProductNat
      <4> QED BY <1>2, <3>3, <3>4, <4>2
    <3>7. Payable(info) =
            IF rate * (now - info.last_paid)
                 > info.total_reward - info.claimed_reward
              THEN info.total_reward - info.claimed_reward
              ELSE rate * (now - info.last_paid)
      BY <1>2, <1>3, <3>4 DEF Payable, SaturatingSub, rate
    <3>8. info.claimed_reward \in Nat /\ info.total_reward \in Nat
      BY <1>1 DEF RewardInfo
    <3>9. next.claimed_reward =
            IF rate * (now - start) > info.total_reward
              THEN info.total_reward ELSE rate * (now - start)
      <4> DEFINE a == rate * (info.last_paid - start)
                 b == rate * (now - info.last_paid)
                 c == rate * (now - start)
      <4>1. a + b = c /\ a \in Int /\ b \in Nat /\ c \in Int
        BY <3>5, <3>6
      <4>2. info.claimed_reward = IF a > info.total_reward
                                    THEN info.total_reward ELSE a
        BY <3>2
      <4>3. next.claimed_reward = info.claimed_reward +
              (IF b > info.total_reward - info.claimed_reward
                 THEN info.total_reward - info.claimed_reward ELSE b)
        BY <1>5, <3>7
      <4> HIDE DEF a, b, c
      <4>4. next.claimed_reward = IF c > info.total_reward
                                    THEN info.total_reward ELSE c
        BY <3>8, <4>1, <4>2, <4>3
      <4> QED BY <4>4 DEF c
    <3> QED BY <1>5, <3>1, <3>9 DEF rate, start
  <2> QED BY <2>2, <2>3
<1>14. AssociationProven'
  BY <1>7 DEF IInv, AssociationProven
<1> QED BY <1>9, <1>10, <1>11, <1>12, <1>13, <1>14 DEF IInv

\* donate and allocate move balances only.
LEMMA TreasuryIInv ==
  ASSUME IInv, TreasuryCall,
         UNCHANGED <<now, contributors, associatedAccount, currentRewardEndIn,
                     rewardPeriod, enlisted, paid>>
  PROVE  IInv'
<1>1. accounts' \in [Holders -> AccountData]
  <2>1. PICK amount \in TransferAmounts :
          \/ \E sender \in Natives : Donate(sender, amount)
          \/ \E dest \in Holders : Allocate(dest, amount)
    BY DEF TreasuryCall
  <2>2. amount \in Nat /\ accounts \in [Holders -> AccountData]
    BY TreasuryAssumption DEF IInv, TypeOK
  <2>3. ASSUME NEW sender \in Natives, Donate(sender, amount)
        PROVE  accounts' \in [Holders -> AccountData]
    <3>1. sender \in Holders /\ TreasuryAccount \in Holders
      BY DEF Holders
    <3> QED BY <2>2, <2>3, <3>1, TransferType DEF Donate
  <2>4. ASSUME NEW dest \in Holders, Allocate(dest, amount)
        PROVE  accounts' \in [Holders -> AccountData]
    <3>1. TreasuryAccount \in Holders
      BY DEF Holders
    <3> QED BY <2>2, <2>4, <3>1, TransferType DEF Allocate
  <2> QED BY <2>1, <2>3, <2>4
<1> QED BY <1>1 DEF IInv, TypeOK, PeriodPositive, PaidWithinReward,
                    CampaignOK, VestedOnSchedule, AssociationProven

\* A new block moves only the clock.
LEMMA NextBlockIInv ==
  ASSUME IInv, NextBlock
  PROVE  IInv'
<1>1. TypeOK'
  BY CrowdloanAssumption DEF IInv, TypeOK, NextBlock
<1>2. PaidWithinReward'
  BY CrowdloanAssumption DEF IInv, TypeOK, NextBlock, PaidWithinReward,
                             RewardInfo
<1>3. CampaignOK'
  BY CrowdloanAssumption DEF IInv, TypeOK, NextBlock, CampaignOK
<1> QED BY <1>1, <1>2, <1>3 DEF IInv, NextBlock, PeriodPositive,
                                VestedOnSchedule, AssociationProven

\* Every step of the composed pallets preserves the inductive invariant.
LEMMA NextIInv == IInv /\ [Next]_vars => IInv'
<1> SUFFICES ASSUME IInv, [Next]_vars PROVE IInv'
  OBVIOUS
<1>1. CASE \E list \in PartialMaps(Relays, Contributions), rate \in Rates,
              end_block \in 0 .. MaxBlock :
             InitializeReward(list, rate, end_block)
  BY <1>1, InitializeIInv
<1>2. CASE \E who \in Natives, relay \in Relays : AssociateAccount(who, relay)
  BY <1>2, AssociateIInv
<1>3. CASE \E who, old \in Natives, relay \in Relays :
             UpdateAssociateAccount(who, old, relay)
  BY <1>3, UpdateIInv
<1>4. CASE \E who \in Natives : GetMoney(who)
  BY <1>4, GetMoneyIInv
<1>5. CASE TreasuryCall /\ UNCHANGED <<now, contributors, associatedAccount,
                                       currentRewardEndIn, rewardPeriod,
                                       enlisted, paid>>
  BY <1>5, TreasuryIInv
<1>6. CASE NextBlock
  BY <1>6, NextBlockIInv
<1>7. CASE UNCHANGED vars
  BY <1>7 DEF IInv, TypeOK, PeriodPositive, PaidWithinReward, CampaignOK,
              VestedOnSchedule, AssociationProven, vars
<1> QED BY <1>1, <1>2, <1>3, <1>4, <1>5, <1>6, <1>7 DEF Next

\* The inductive invariant holds in every reachable state.
THEOREM Invariance == Spec => []IInv
BY InitIInv, NextIInv, PTL DEF Spec

\* Storage of the crowdloan and treasury pallets is well typed: no balance,
\* block number or period ever goes below zero.
THEOREM TypeCorrect == Spec => []TypeOK
<1>1. IInv => TypeOK
  BY DEF IInv
<1> QED BY <1>1, Invariance, PTL

\* get_money never divides by a zero RewardPeriod.
THEOREM NoDivisionByZero == Spec => []PeriodPositive
<1>1. IInv => PeriodPositive
  BY DEF IInv
<1> QED BY <1>1, Invariance, PTL

\* For any number of relays, associations, campaigns and failed payments, a
\* relay is never paid more than its recorded claims, nor these more than its
\* reward.
THEOREM NeverOverpaid == Spec => []PaidWithinReward
<1>1. IInv => PaidWithinReward
  BY DEF IInv
<1> QED BY <1>1, Invariance, PTL

\* For any instalments, drawn through whichever associated accounts, the
\* claims of the running campaign's contributors follow the linear schedule.
THEOREM ClaimsFollowSchedule == Spec => []VestedOnSchedule
<1>1. IInv => VestedOnSchedule
  BY DEF IInv
<1> QED BY <1>1, Invariance, PTL

-----------------------------------------------------------------------------
\* get_money: a step that pays on a relay's behalf credits a native account
\* that the relay signed for.
LEMMA PaymentStep ==
  ASSUME IInv, [Next]_vars, NEW r \in Relays, paid'[r] > paid[r]
  PROVE  \E n \in Natives : /\ <<r, n>> \in Proofs
                            /\ accounts'[n].free > accounts[n].free
<1>1. paid \in [Relays -> Nat] /\ accounts \in [Holders -> AccountData]
  BY DEF IInv, TypeOK
<1>2. ASSUME NEW list \in PartialMaps(Relays, Contributions), NEW rate \in Rates,
             NEW end_block \in 0 .. MaxBlock,
             InitializeReward(list, rate, end_block)
      PROVE  FALSE
  BY <1>1, <1>2 DEF InitializeReward
<1>3. PICK who \in Natives : GetMoney(who)
  <2>1. ~ UNCHANGED paid
    BY <1>1
  <2> QED BY <1>2, <2>1 DEF Next, vars, AssociateAccount,
                            UpdateAssociateAccount, NextBlock
<1> DEFINE relay  == associatedAccount[who]
           amount == Payable(contributors[relay])
<1>4. /\ relay = r
      /\ paid' = [paid EXCEPT ![relay] = @ + amount]
      /\ accounts' = Transfer(accounts, TreasuryAccount, who, amount)
  BY <1>1, <1>3 DEF GetMoney
<1>5. who \in DOMAIN associatedAccount /\ <<r, who>> \in Proofs
  BY <1>3, <1>4 DEF GetMoney, Has, IInv, AssociationProven
<1>6. amount \in Nat
  <2>1. /\ contributors[relay] \in RewardInfo /\ rewardPeriod > 0
        /\ contributors[relay].claimed_reward <= contributors[relay].total_reward
        /\ contributors[relay].last_paid <= now
    BY <1>3 DEF GetMoney, Has, IInv, TypeOK, PeriodPositive, PaidWithinReward
  <2> QED BY <2>1, PayableBound DEF IInv
<1> HIDE DEF relay, amount
<1>7. amount > 0
  BY <1>1, <1>4, <1>6
<1>8. /\ who \in Holders /\ TreasuryAccount \in Holders
      /\ who # TreasuryAccount
  BY TreasuryAssumption DEF Holders
<1>9. accounts'[who].free = accounts[who].free + amount
  BY <1>1, <1>4, <1>6, <1>7, <1>8 DEF Transfer
<1>10. accounts[who].free \in Nat
  BY <1>1, <1>8 DEF AccountData
<1> QED BY <1>5, <1>6, <1>7, <1>9, <1>10

\* Through any sequence of associations and updates, the treasury pays a
\* relay's reward only to an account that relay signed for.
THEOREM PaymentsAreProven == Spec => PaidOnlyWithProof
<1>1. IInv /\ [Next]_vars =>
        [\A r \in Relays :
           paid'[r] > paid[r] =>
             \E n \in Natives : /\ <<r, n>> \in Proofs
                                /\ accounts'[n].free > accounts[n].free]_vars
  BY PaymentStep
<1> QED BY <1>1, Invariance, PTL DEF Spec, PaidOnlyWithProof

-----------------------------------------------------------------------------
\* The relays that some native account may draw for.
Drawn == {associatedAccount[n] : n \in DOMAIN associatedAccount}

\* update_associate_account: the relay of the replaced account is the new
\* account's, and every other association is kept.
LEMMA UpdateKeepsRelays ==
  ASSUME NEW who \in Natives, NEW old \in Natives, NEW relay \in Relays,
         UpdateAssociateAccount(who, old, relay)
  PROVE  Drawn \subseteq Drawn'
<1>1. /\ old \in DOMAIN associatedAccount /\ associatedAccount[old] = relay
      /\ who \notin DOMAIN associatedAccount
      /\ DOMAIN associatedAccount' = (DOMAIN associatedAccount \ {old}) \cup {who}
      /\ associatedAccount'[who] = relay
      /\ \A n \in DOMAIN associatedAccount \ {old} :
           associatedAccount'[n] = associatedAccount[n]
  BY DEF UpdateAssociateAccount, CanUpdate, Has, MapInsert, MapRemove
<1>2. ASSUME NEW n \in DOMAIN associatedAccount
      PROVE  associatedAccount[n] \in Drawn'
  <2>1. CASE n = old
    BY <1>1, <2>1 DEF Drawn
  <2>2. CASE n # old
    BY <1>1, <2>2 DEF Drawn
  <2> QED BY <2>1, <2>2
<1> QED BY <1>2 DEF Drawn

\* associate_account only adds an association.
LEMMA AssociateKeepsRelays ==
  ASSUME NEW who \in Natives, NEW relay \in Relays,
         AssociateAccount(who, relay)
  PROVE  Drawn \subseteq Drawn'
<1>1. /\ who \notin DOMAIN associatedAccount
      /\ DOMAIN associatedAccount' = DOMAIN associatedAccount \cup {who}
      /\ \A n \in DOMAIN associatedAccount :
           associatedAccount'[n] = associatedAccount[n]
  BY DEF AssociateAccount, Has, MapInsert
<1> QED BY <1>1 DEF Drawn

\* Through any chain of associations and updates by any accounts, a relay that
\* some account may draw for is never left without one.
THEOREM RelaysStayDrawable == Spec => RelayStaysAssociated
<1>1. [Next]_vars => Drawn \subseteq Drawn'
  <2> SUFFICES ASSUME [Next]_vars PROVE Drawn \subseteq Drawn'
    OBVIOUS
  <2>1. CASE UNCHANGED associatedAccount
    BY <2>1 DEF Drawn
  <2>2. CASE \E who \in Natives, relay \in Relays : AssociateAccount(who, relay)
    BY <2>2, AssociateKeepsRelays
  <2>3. CASE \E who, old \in Natives, relay \in Relays :
               UpdateAssociateAccount(who, old, relay)
    BY <2>3, UpdateKeepsRelays
  <2> QED BY <2>1, <2>2, <2>3 DEF Next, vars, InitializeReward, GetMoney, NextBlock
<1>2. [Next]_vars =>
        [{associatedAccount[n] : n \in DOMAIN associatedAccount} \subseteq
         {associatedAccount'[n] : n \in DOMAIN associatedAccount'}]_vars
  BY <1>1 DEF Drawn
<1> QED BY <1>2, PTL DEF Spec, RelayStaysAssociated

-----------------------------------------------------------------------------
\* get_money: the truncated rate per block, times the period, is within the
\* reward.
LEMMA RateTruncates ==
  ASSUME NEW t \in Nat, NEW p \in Nat, p > 0
  PROVE  (t \div p) * p <= t
OBVIOUS

\* Multiplication by a natural keeps the order.
LEMMA ProductMonotone ==
  ASSUME NEW a \in Nat, NEW b \in Nat, NEW c \in Nat, a <= b
  PROVE  a * c <= b * c
OBVIOUS

\* get_money: q per block over n blocks is on or below the line that reaches
\* the reward t after p blocks.
LEMMA BelowTheLine ==
  ASSUME NEW t \in Nat, NEW p \in Nat, p > 0, NEW n \in Nat,
         NEW d \in Nat, d <= (t \div p) * n
  PROVE  d * p <= t * n
<1> DEFINE q == t \div p
<1>1. q \in Nat /\ q * p <= t
  BY RateNat, RateTruncates
<1> HIDE DEF q
<1>2. q * n \in Nat /\ q * p \in Nat
  BY <1>1, ProductNat
<1>3. d * p <= (q * n) * p
  BY <1>2, ProductMonotone DEF q
<1>4. (q * n) * p = (q * p) * n
  BY <1>1
<1>5. (q * p) * n <= t * n
  BY <1>1, <1>2, ProductMonotone
<1>6. d * p \in Nat /\ (q * n) * p \in Nat /\ t * n \in Nat
  BY <1>2, ProductNat
<1> QED BY <1>3, <1>4, <1>5, <1>6

\* The mapped grants: one for each contributor.
Grants == [r \in DOMAIN contributors |-> GrantOf(r)]

\* The pallets' empty storage is the promise without grants.
LEMMA InitVests == Init => Vesting!Init
BY DEF Init, Vesting!Init, EmptyMap

\* A step that leaves the contributors, the campaign, the clock and the
\* payments alone leaves the promise alone.
LEMMA StutterVests ==
  ASSUME UNCHANGED <<now, contributors, currentRewardEndIn, rewardPeriod,
                     enlisted, paid>>
  PROVE  UNCHANGED Vesting!avars
<1>1. Grants' = Grants
  BY DEF Grants, GrantOf
<1> QED BY <1>1 DEF Vesting!avars, Grants

\* initialize_reward opens the windows of the new list, after those of every
\* earlier contributor have passed.
LEMMA InitializeVests ==
  ASSUME IInv,
         NEW list \in PartialMaps(Relays, Contributions), NEW rate \in Rates,
         NEW end_block \in 0 .. MaxBlock,
         InitializeReward(list, rate, end_block)
  PROVE  Vesting!Grant(DOMAIN list)
<1> USE DEF InitializeReward, CanInitialize
<1>1. now \in Nat /\ end_block \in Nat /\ now < end_block
  BY CrowdloanAssumption DEF IInv, TypeOK
<1>2. DOMAIN NewRewards(list, rate) = DOMAIN list
  BY DEF NewRewards
<1>3. /\ contributors' = [x \in DOMAIN contributors \cup DOMAIN list |->
                            IF x \in DOMAIN list THEN NewRewards(list, rate)[x]
                                                 ELSE contributors[x]]
      /\ DOMAIN contributors' = DOMAIN contributors \cup DOMAIN list
  BY <1>2 DEF MapInsertAll
<1>4. DOMAIN Grants = DOMAIN contributors /\ DOMAIN Grants' = DOMAIN contributors'
  BY DEF Grants
<1>5. \A g \in DOMAIN Grants : now >= Grants[g].to
  <2> SUFFICES ASSUME NEW g \in DOMAIN contributors
               PROVE  now >= GrantOf(g).to
    BY DEF Grants
  <2> QED BY <1>1 DEF GrantOf
<1>6. \A g \in DOMAIN list : Grants'[g].from = now /\ Grants'[g].to > now
  <2> SUFFICES ASSUME NEW g \in DOMAIN list
               PROVE  Grants'[g].from = now /\ Grants'[g].to > now
    OBVIOUS
  <2>1. Grants'[g] = [amount |-> contributors'[g].total_reward,
                      from |-> end_block - (end_block - now),
                      to |-> end_block]
    BY <1>3 DEF Grants, GrantOf
  <2> QED BY <1>1, <2>1
<1>7. \A g \in DOMAIN Grants \ DOMAIN list :
        Grants'[g] = Vesting!Matured(Grants[g])
  BY <1>3 DEF Grants, GrantOf, Vesting!Matured
<1> QED BY <1>3, <1>4, <1>5, <1>6, <1>7 DEF Vesting!Grant, Grants

\* get_money: a payment is on or below the line of the relay's own grant; a
\* claim that is recorded but not paid changes nothing of the promise.
LEMMA GetMoneyVests ==
  ASSUME IInv, NEW who \in Natives, GetMoney(who)
  PROVE  (\E g \in Relays : Vesting!Draw(g)) \/ UNCHANGED Vesting!avars
<1> DEFINE relay == associatedAccount[who]
           info  == contributors[relay]
<1>1. /\ relay \in Relays /\ relay \in DOMAIN contributors
      /\ info \in RewardInfo
  BY DEF IInv, GetMoney, TypeOK, Has
<1>2. rewardPeriod \in Nat /\ rewardPeriod > 0 /\ now \in Nat
  BY <1>1, CrowdloanAssumption DEF IInv, TypeOK, PeriodPositive
<1>3. /\ info.claimed_reward <= info.total_reward
      /\ info.last_paid <= now
  BY <1>1 DEF IInv, PaidWithinReward
<1>4. /\ Payable(info) \in Nat
      /\ info.claimed_reward + Payable(info) <= info.total_reward
  BY <1>1, <1>2, <1>3, PayableBound DEF IInv
<1>5. /\ Claimed(info) \in RewardInfo
      /\ Claimed(info).total_reward = info.total_reward
      /\ Claimed(info).last_paid = now
  BY <1>1, <1>2, <1>4, ClaimedFields
<1>6. /\ DOMAIN contributors' = DOMAIN contributors
      /\ contributors' = [x \in DOMAIN contributors |->
                            IF x = relay THEN Claimed(info) ELSE contributors[x]]
  BY <1>1 DEF GetMoney, MapInsert
<1>7. UNCHANGED <<now, currentRewardEndIn, rewardPeriod, enlisted>>
  BY DEF GetMoney
<1>8. \/ paid' = [paid EXCEPT ![relay] = @ + Payable(info)]
      \/ UNCHANGED paid
  BY DEF GetMoney
<1>9. IInv'
  BY GetMoneyIInv
<1> HIDE DEF relay, info
<1>10. Grants' = Grants
  <2>1. \A r \in DOMAIN contributors :
          contributors'[r].total_reward = contributors[r].total_reward
    BY <1>5, <1>6 DEF info
  <2> QED BY <1>6, <1>7, <2>1 DEF Grants, GrantOf
<1>11. paid \in [Relays -> Nat] /\ paid' \in [Relays -> Nat]
  BY <1>9 DEF IInv, TypeOK
<1>12. CASE paid' = paid
  BY <1>7, <1>10, <1>12 DEF Vesting!avars, Grants
<1>13. CASE paid' # paid
  <2>1. paid'[relay] > paid[relay] /\ paid' = [paid EXCEPT ![relay] = paid'[relay]]
    BY <1>1, <1>4, <1>8, <1>11, <1>13
  <2>2. /\ contributors'[relay] = Claimed(info)
        /\ paid'[relay] <= Claimed(info).claimed_reward
        /\ Claimed(info).claimed_reward <= info.total_reward
    BY <1>1, <1>5, <1>6, <1>9 DEF IInv, PaidWithinReward
  <2>3. /\ info.total_reward \in Nat /\ Claimed(info).claimed_reward \in Nat
        /\ paid'[relay] \in Nat
    BY <1>1, <1>5, <1>11 DEF RewardInfo
  <2>4. paid'[relay] <= info.total_reward
    BY <2>2, <2>3
  <2>5. CASE relay \notin enlisted
    <3>1. Grants[relay] = [amount |-> info.total_reward, from |-> 0, to |-> 0]
      BY <1>1, <2>5 DEF Grants, GrantOf, info
    <3>2. Vesting!OnSchedule(Grants[relay], paid'[relay])
      BY <1>2, <2>4, <3>1 DEF Vesting!OnSchedule
    <3> QED BY <1>1, <1>7, <1>10, <2>1, <3>2 DEF Vesting!Draw, Grants
  <2>6. CASE relay \in enlisted
    <3> DEFINE start == currentRewardEndIn - rewardPeriod
               line  == (info.total_reward \div rewardPeriod) * (now - start)
    <3>1. Grants[relay] = [amount |-> info.total_reward, from |-> start,
                           to |-> currentRewardEndIn]
      BY <1>1, <2>6 DEF Grants, GrantOf, info
    <3>2. /\ currentRewardEndIn \in Nat /\ start \in Nat /\ start <= now
          /\ now - start \in Nat
      BY <1>2 DEF IInv, TypeOK, CampaignOK
    <3>3. Claimed(info).claimed_reward =
            IF line > info.total_reward THEN info.total_reward ELSE line
      BY <1>5, <1>7, <1>9, <2>2, <2>6 DEF IInv, VestedOnSchedule
    <3>4. line \in Nat
      BY <1>2, <2>3, <3>2, RateNat, ProductNat
    <3>5. paid'[relay] <= line
      BY <2>2, <2>3, <3>3, <3>4
    <3>6. paid'[relay] * rewardPeriod <= info.total_reward * (now - start)
      BY <1>2, <2>3, <3>2, <3>5, BelowTheLine
    <3>7. currentRewardEndIn - start = rewardPeriod
      BY <1>2, <3>2
    <3>8. Vesting!OnSchedule(Grants[relay], paid'[relay])
      BY <2>4, <3>1, <3>6, <3>7 DEF Vesting!OnSchedule
    <3> QED BY <1>1, <1>7, <1>10, <2>1, <3>8 DEF Vesting!Draw, Grants
  <2> QED BY <2>5, <2>6
<1> QED BY <1>12, <1>13

\* Every step of the composed pallets is a step of the promise or leaves it
\* alone.
LEMMA NextVests == IInv /\ [Next]_vars => [Vesting!Next]_(Vesting!avars)
<1> SUFFICES ASSUME IInv, [Next]_vars
             PROVE  Vesting!Next \/ UNCHANGED Vesting!avars
  OBVIOUS
<1>1. ASSUME NEW list \in PartialMaps(Relays, Contributions), NEW rate \in Rates,
             NEW end_block \in 0 .. MaxBlock,
             InitializeReward(list, rate, end_block)
      PROVE  Vesting!Next
  <2>1. DOMAIN list \in SUBSET Relays
    BY DEF PartialMaps
  <2> QED BY <1>1, <2>1, InitializeVests DEF Vesting!Next
<1>2. CASE \E who \in Natives, relay \in Relays : AssociateAccount(who, relay)
  BY <1>2, StutterVests DEF AssociateAccount
<1>3. CASE \E who, old \in Natives, relay \in Relays :
             UpdateAssociateAccount(who, old, relay)
  BY <1>3, StutterVests DEF UpdateAssociateAccount
<1>4. CASE \E who \in Natives : GetMoney(who)
  BY <1>4, GetMoneyVests DEF Vesting!Next
<1>5. CASE TreasuryCall /\ UNCHANGED <<now, contributors, associatedAccount,
                                       currentRewardEndIn, rewardPeriod,
                                       enlisted, paid>>
  BY <1>5, StutterVests
<1>6. CASE NextBlock
  <2>1. Grants' = Grants
    BY <1>6 DEF NextBlock, Grants, GrantOf
  <2> QED BY <1>6, <2>1 DEF NextBlock, Vesting!Next, Vesting!Tick, Grants
<1>7. CASE UNCHANGED vars
  BY <1>7, StutterVests DEF vars
<1> QED BY <1>1, <1>2, <1>3, <1>4, <1>5, <1>6, <1>7 DEF Next

\* The crowdloan and treasury pallets together implement grants that vest
\* linearly, each over its own window, for any relays, amounts, campaigns,
\* associations and failed payments.
THEOREM VestsLinearly == Spec => ImplementsVesting
<1>1. Spec => Vesting!Init /\ [][Vesting!Next]_(Vesting!avars)
  BY InitVests, NextVests, Invariance, PTL DEF Spec
<1> QED BY <1>1 DEF ImplementsVesting, Vesting!Spec
=============================================================================
