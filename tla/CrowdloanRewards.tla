-------------------------- MODULE CrowdloanRewards --------------------------
(***************************************************************************)
(* pallets/crowdloan-rewards, composed with the treasury it pays from.     *)
(* Root starts a reward campaign over a list of relay-chain contributors;  *)
(* a native account that proves it belongs to a contributor draws the      *)
(* reward as it vests, block by block, from the treasury's account.        *)
(*                                                                         *)
(* Balances are naturals: a contribution and the rate are u32, so their    *)
(* product, and that product times a u32 number of blocks, stays below     *)
(* 2^96 and no saturating operation of the code on a u128 saturates.       *)
(* A dispatchable is not transactional: what it wrote before it returned   *)
(* an error stays written.                                                 *)
(***************************************************************************)
EXTENDS Treasury, StorageMap

CONSTANTS
  Relays,           \* relay-chain accounts
  Proofs,           \* <<relay, native>>: relay signed native's encoding
  Contributions,    \* the u32 amounts of a contribution list
  Rates,            \* the u32 rates root may choose
  Endowments,       \* initial free balances of an account
  MaxBlock          \* bound: the block numbers explored are 0..MaxBlock

ASSUME CrowdloanAssumption ==
  /\ Proofs \subseteq Relays \X Natives
  /\ Contributions \subseteq Nat
  /\ Rates \subseteq Nat
  /\ Endowments \subseteq Nat
  /\ MaxBlock \in Nat

VARIABLES
  now,                  \* frame_system::block_number()
  contributors,         \* Contributors: relay -> RewardInfo
  associatedAccount,    \* AssociatedAccount: native -> relay
  currentRewardEndIn,   \* CurrentRewardEndIn
  rewardPeriod,         \* RewardPeriod
  enlisted,             \* ghost: the relays of the latest contribution list
  paid                  \* ghost: what each relay's grant has really paid out

vars == <<accounts, now, contributors, associatedAccount, currentRewardEndIn,
          rewardPeriod, enlisted, paid>>

RewardInfo == [total_reward : Nat, claimed_reward : Nat, last_paid : Nat]

Init ==
  /\ accounts \in [Holders -> {[free |-> e, reserved |-> 0] : e \in Endowments}]
  /\ now = 0
  /\ contributors = EmptyMap
  /\ associatedAccount = EmptyMap
  /\ currentRewardEndIn = 0
  /\ rewardPeriod = 0
  /\ enlisted = {}
  /\ paid = [r \in Relays |-> 0]

-----------------------------------------------------------------------------
(* The extrinsics.                                                         *)

\* An end block equal to the current one accepted.
MutInitGuard(end_block) == now <= end_block /\ now >= currentRewardEndIn

\* The comparison turned round.
MutInitReversed(end_block) == now > end_block /\ now >= currentRewardEndIn

\* InvalidEndBlock, AlreadyInitReward
CanInitialize(end_block) == now < end_block /\ now >= currentRewardEndIn

\* The list as the storage keeps it: a relay listed twice keeps its last entry.
NewRewards(list, rate) ==
  [r \in DOMAIN list |-> [total_reward   |-> list[r] * rate,
                          claimed_reward |-> 0,
                          last_paid      |-> now]]

InitializeReward(list, rate, end_block) ==
  /\ CanInitialize(end_block)
  /\ contributors' = MapInsertAll(contributors, NewRewards(list, rate))
  /\ currentRewardEndIn' = end_block
  /\ rewardPeriod' = end_block - now
  /\ enlisted' = DOMAIN list
  /\ paid' = [r \in Relays |-> IF r \in DOMAIN list THEN 0 ELSE paid[r]]
  /\ UNCHANGED <<accounts, now, associatedAccount>>

\* proof.verify(who.encode(), relay_account)
Verify(relay, who) == <<relay, who>> \in Proofs

AssociateAccount(who, relay) ==
  /\ Verify(relay, who)
  /\ ~ Has(associatedAccount, who)
  /\ associatedAccount' = MapInsert(associatedAccount, who, relay)
  /\ UNCHANGED <<accounts, now, contributors, currentRewardEndIn,
                 rewardPeriod, enlisted, paid>>

\* The proof checked against the account that is replaced.
MutUpdateVerifiesOld(who, old, relay) ==
  /\ Verify(relay, old)
  /\ ~ Has(associatedAccount, who)
  /\ Has(associatedAccount, old) /\ associatedAccount[old] = relay

\* No check that the caller is free of an association.
MutUpdateOverwrites(who, old, relay) ==
  /\ Verify(relay, who)
  /\ Has(associatedAccount, old) /\ associatedAccount[old] = relay

\* InvalidSignature, AlreadyAssociated, NoAssociatedAccount, BadRelayAccount
CanUpdate(who, old, relay) ==
  /\ Verify(relay, who)
  /\ ~ Has(associatedAccount, who)
  /\ Has(associatedAccount, old) /\ associatedAccount[old] = relay

UpdateAssociateAccount(who, old, relay) ==
  /\ CanUpdate(who, old, relay)
  /\ associatedAccount' =
       MapInsert(MapRemove(associatedAccount, old), who, relay)
  /\ UNCHANGED <<accounts, now, contributors, currentRewardEndIn,
                 rewardPeriod, enlisted, paid>>

\* The rate per block rounded up.
MutRoundedUp(info) ==
  LET vested == ((info.total_reward + rewardPeriod - 1) \div rewardPeriod)
                  * SaturatingSub(now, info.last_paid)
      left   == info.total_reward - info.claimed_reward
  IN  IF vested > left THEN left ELSE vested

\* The cap at what is left of the reward forgotten.
MutUncapped(info) ==
  (info.total_reward \div rewardPeriod) * (now - info.last_paid)

\* What a claim of info is worth now: the blocks since the last claim at the
\* current campaign's rate per block, but no more than what is left.
Payable(info) ==
  LET vested == (info.total_reward \div rewardPeriod)
                  * SaturatingSub(now, info.last_paid)
      left   == info.total_reward - info.claimed_reward
  IN  IF vested > left THEN left ELSE vested

\* last_paid left as it was.
MutClaimed(info) ==
  [info EXCEPT !.claimed_reward = @ + Payable(info)]

Claimed(info) ==
  [total_reward   |-> info.total_reward,
   claimed_reward |-> info.claimed_reward + Payable(info),
   last_paid      |-> now]

\* What the claim needs after the record is already written: ScantyReward
\* and RewardFailed.
PayoutSucceeds(who, amount) ==
  /\ amount >= ExistentialDeposit
  /\ CanTransfer(accounts, TreasuryAccount, who, amount)

\* The claim is recorded before it is known to be payable: when the payment
\* fails the record keeps it.
GetMoney(who) ==
  /\ Has(associatedAccount, who)
  /\ Has(contributors, associatedAccount[who])
  /\ LET relay  == associatedAccount[who]
         info   == contributors[relay]
         amount == Payable(info)
     IN  /\ info.total_reward > info.claimed_reward
         /\ contributors' = MapInsert(contributors, relay, Claimed(info))
         /\ IF PayoutSucceeds(who, amount)
              THEN /\ accounts' =
                        Transfer(accounts, TreasuryAccount, who, amount)
                   /\ paid' = [paid EXCEPT ![relay] = @ + amount]
              ELSE UNCHANGED <<accounts, paid>>
  /\ UNCHANGED <<now, associatedAccount, currentRewardEndIn, rewardPeriod,
                 enlisted>>

-----------------------------------------------------------------------------
(* The chain.                                                              *)

NextBlock ==
  /\ now < MaxBlock
  /\ now' = now + 1
  /\ UNCHANGED <<accounts, contributors, associatedAccount,
                 currentRewardEndIn, rewardPeriod, enlisted, paid>>

Next ==
  \/ \E list \in PartialMaps(Relays, Contributions), rate \in Rates,
        end_block \in 0 .. MaxBlock : InitializeReward(list, rate, end_block)
  \/ \E who \in Natives, relay \in Relays : AssociateAccount(who, relay)
  \/ \E who, old \in Natives, relay \in Relays :
        UpdateAssociateAccount(who, old, relay)
  \/ \E who \in Natives : GetMoney(who)
  \/ TreasuryCall /\ UNCHANGED <<now, contributors, associatedAccount,
                                 currentRewardEndIn, rewardPeriod, enlisted,
                                 paid>>
  \/ NextBlock

Spec == Init /\ [][Next]_vars

-----------------------------------------------------------------------------
(* Properties.                                                             *)

\* Every storage item has the type the pallet declares; in particular no
\* balance and no block number goes below zero.
TypeOK ==
  /\ accounts \in [Holders -> AccountData]
  /\ now \in 0 .. MaxBlock
  /\ DOMAIN contributors \subseteq Relays
  /\ contributors \in [DOMAIN contributors -> RewardInfo]
  /\ DOMAIN associatedAccount \subseteq Natives
  /\ associatedAccount \in [DOMAIN associatedAccount -> Relays]
  /\ currentRewardEndIn \in Nat
  /\ rewardPeriod \in Nat
  /\ enlisted \subseteq Relays
  /\ paid \in [Relays -> Nat]

\* `info.total_reward / reward_period` in get_money never divides by zero: as
\* soon as there is a contributor there is a period of at least one block.
PeriodPositive == DOMAIN contributors # {} => rewardPeriod > 0

\* However claims of one relay interleave (several native accounts may be
\* associated with it), across failed payments and restarted campaigns, the
\* treasury pays no more than the record says was claimed, and that is never
\* more than the reward; no claim is dated in the future.
PaidWithinReward ==
  \A r \in DOMAIN contributors :
    /\ paid[r] <= contributors[r].claimed_reward
    /\ contributors[r].claimed_reward <= contributors[r].total_reward
    /\ contributors[r].last_paid <= now

\* For a contributor of the running campaign the claims add up to the linear
\* schedule: in however many instalments it was drawn, the claimed reward is
\* the rate per block times the blocks from the campaign's start to the last
\* claim, capped at the reward.
VestedOnSchedule ==
  \A r \in enlisted :
    LET info   == contributors[r]
        start  == currentRewardEndIn - rewardPeriod
        vested == (info.total_reward \div rewardPeriod)
                    * (info.last_paid - start)
    IN  info.claimed_reward =
          IF vested > info.total_reward THEN info.total_reward ELSE vested

\* A payment on behalf of a relay goes to a native account that relay signed
\* for, through whichever sequence of associate and update calls it became
\* associated.
PaidOnlyWithProof ==
  [][\A r \in Relays :
       paid'[r] > paid[r] =>
         \E n \in Natives : /\ <<r, n>> \in Proofs
                            /\ accounts'[n].free > accounts[n].free]_vars

\* A relay that some native account may draw for never loses that right: an
\* update hands it over, it does not drop it or overwrite another's.
RelayStaysAssociated ==
  [][{associatedAccount[n] : n \in DOMAIN associatedAccount} \subseteq
     {associatedAccount'[n] : n \in DOMAIN associatedAccount'}]_vars

\* What get_money_work asserts with assert_noop!(.., ScantyReward): a claim
\* that is refused leaves the contributor's record as it was, so what is
\* recorded as claimed has been paid.
ClaimedWasPaid ==
  \A r \in DOMAIN contributors : contributors[r].claimed_reward = paid[r]

-----------------------------------------------------------------------------
(* The promise the pallet implements: its one period and one end block,    *)
(* shared by all contributors and overwritten by each campaign, are a      *)
(* vesting window per grant.  A contributor that is not on the latest list *)
(* has seen its own campaign end.                                          *)

GrantOf(r) ==
  IF r \in enlisted
    THEN [amount |-> contributors[r].total_reward,
          from   |-> currentRewardEndIn - rewardPeriod,
          to     |-> currentRewardEndIn]
    ELSE [amount |-> contributors[r].total_reward, from |-> 0, to |-> 0]

Vesting == INSTANCE VestingGrants
             WITH Grantees <- Relays,
                  clock    <- now,
                  grants   <- [r \in DOMAIN contributors |-> GrantOf(r)],
                  drawn    <- paid

\* initialize_reward and get_money implement grants with windows of their
\* own: whatever mix of campaigns, handed-over associations, late claims and
\* failed payments, each step of the pallets is a step of the promise or
\* leaves it alone; above all no payment is ahead of its grant's line.
ImplementsVesting == Vesting!Spec
=============================================================================
