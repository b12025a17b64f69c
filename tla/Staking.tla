------------------------------- MODULE Staking ------------------------------
(***************************************************************************)
(* pallets/polkafoundry-staking: collators bond, nominators back them, and *)
(* at the end of a block that completes a round the pallet pays, matures   *)
(* bonds, releases what has served its unbonding delay, executes exits and *)
(* elects the collators of the new round.                                  *)
(*                                                                         *)
(* An extrinsic that returns an error before its first write is a          *)
(* stuttering step and has no action; dispatchables are not transactional, *)
(* so nominate, which can fail after a write, keeps that write.            *)
(***************************************************************************)
EXTENDS Balances, StakingLedger, StorageMap

CONSTANTS
  AccountIds,                  \* accounts, ordered as T::AccountId is
  Candidates, Backers,         \* accounts that bond / that nominate
  Endowment,                   \* free balance of each account at genesis
  GenesisStakers,              \* GenesisConfig.stakers: account -> amount
  GenesisSettings,             \* the pallet's constants, put into Settings
  SettingChoices,              \* what root may configure later
  MinCollatorStake, MinNominatorStake,
  MaxNominationsPerCollator,
  PayoutDuration,
  BondAmounts,                 \* amounts passed to bond
  ExtraAmounts, LessAmounts,   \* to bond_extra and bond_less
  NominateAmounts,             \* to nominate
  NominateExtras, NominateLesses,
  Rewards,                     \* what one payout may mint for one account
  MaxRound,                    \* bound: no round after this one starts
  MaxListed,                   \* bound: length of a ledger's lists
  MaxTotal,                    \* bound: total of one ledger
  MaxStaked                    \* bound: TotalStaked when stake is added

SettingStruct ==
  [bond_duration : Nat, blocks_per_round : Nat, desired_target : Nat]

ASSUME StakingAssumption ==
  /\ AccountIds \subseteq Nat /\ IsFiniteSet(AccountIds)
  /\ Candidates \subseteq AccountIds /\ Backers \subseteq AccountIds
  /\ DOMAIN GenesisStakers \subseteq AccountIds
  /\ \A a \in AccountIds : Endowment[a] \in Nat
  /\ \A a \in DOMAIN GenesisStakers :      \* the assert! in build
       /\ GenesisStakers[a] \in Nat
       /\ GenesisStakers[a] <= Endowment[a]
  /\ GenesisSettings \in SettingStruct
  /\ SettingChoices \subseteq SettingStruct
  /\ MinCollatorStake \in Nat /\ MinNominatorStake \in Nat
  /\ MaxNominationsPerCollator \in Nat
  /\ PayoutDuration \in Nat \ {0}
  /\ Rewards \subseteq Nat
  /\ MaxRound \in Nat \ {0}

\* The bounds keep sums below the modulus: what wraps in the release build is
\* outside the executions considered.
ASSUME BoundsAssumption ==
  /\ MaxTotal \in Nat /\ MaxStaked \in Nat /\ MaxListed \in Nat
  /\ MaxTotal <= MaxStaked /\ 2 * MaxStaked < BalanceModulus
  /\ SumFunction(GenesisStakers) <= MaxStaked
  /\ BondAmounts \cup ExtraAmounts \cup LessAmounts \cup NominateAmounts
       \cup NominateExtras \cup NominateLesses \subseteq 0 .. MaxStaked

VARIABLES
  accounts,        \* balances
  block,           \* number of the block being executed
  currentRound,    \* CurrentRound
  collators,       \* Collators
  nominators,      \* Nominators
  exitQueue,       \* ExitQueue
  totalStaked,     \* TotalStaked
  totalStakedAt,   \* TotalStakedAt
  exposures,       \* RoundStakerClipped: <<round, collator>> -> its backers
  settings,        \* Settings
  unfunded,        \* ghost: what nominate recorded for an account and refused
  overdrawn        \* ghost: the accounts for which a reserve has failed

vars == <<accounts, block, currentRound, collators, nominators, exitQueue,
          totalStaked, totalStakedAt, exposures, settings, unfunded,
          overdrawn>>

-----------------------------------------------------------------------------
(* Genesis.  bond runs while CurrentRound is still its default, so the     *)
(* first chunks mature in round 1; its result is ignored, and TotalStaked  *)
(* counts the stakers it rejected too.                                     *)

GenesisBonded == {a \in DOMAIN GenesisStakers :
                    GenesisStakers[a] >= MinCollatorStake}

Init ==
  /\ accounts = [a \in AccountIds |->
       LET fresh == [free |-> Endowment[a], reserved |-> 0]
       IN  IF a \in GenesisBonded
             THEN ReserveOrNothing(fresh, GenesisStakers[a])
             ELSE fresh]
  /\ block = 1
  /\ currentRound = [index |-> 1, start_in |-> 0,
                     length |-> GenesisSettings.blocks_per_round]
  /\ collators = [a \in GenesisBonded |-> NewCollator(GenesisStakers[a], 1)]
  /\ nominators = EmptyMap
  /\ exitQueue = EmptyMap
  /\ totalStaked = SumFunction(GenesisStakers)
  /\ totalStakedAt = [r \in {1} |-> SumFunction(GenesisStakers)]
  /\ exposures = EmptyMap
  /\ settings = GenesisSettings
  /\ unfunded = [a \in AccountIds |-> 0]
  /\ overdrawn = {}

-----------------------------------------------------------------------------
(* Calls.                                                                  *)

NextRoundIndex == currentRound.index + 1

\* The round in which what is taken out of stake now is released.
WithdrawRound == currentRound.index + settings.bond_duration

\* The exploration bounds on a ledger.
Bounded(l) == /\ l.total <= MaxTotal
              /\ Len(l.unbonding) <= MaxListed
              /\ Len(l.nominations) <= MaxListed

\* TotalStaked::put(TotalStaked::get() + amount), within the bound.
Stake(amount) == /\ totalStaked + amount <= MaxStaked
                 /\ totalStaked' = Plus(totalStaked, amount)

\* T::Currency::reserve(&who, amount); with its Result dropped.
Reserve(who, amount) ==
  /\ accounts' = [accounts EXCEPT ![who] = ReserveOrNothing(@, amount)]
  /\ overdrawn' = IF CanReserve(accounts[who], amount) THEN overdrawn
                                                       ELSE overdrawn \cup {who}

Config(s) ==
  /\ settings' = s
  /\ UNCHANGED <<accounts, block, currentRound, collators, nominators,
                 exitQueue, totalStaked, totalStakedAt, exposures, unfunded,
                 overdrawn>>

\* AlreadyBonded, BondBelowMin
CanBond(who, amount) == ~ Has(collators, who) /\ amount >= MinCollatorStake

Bond(who, amount) ==
  /\ CanBond(who, amount)
  /\ collators' = MapInsert(collators, who, NewCollator(amount, NextRoundIndex))
  /\ Stake(amount)
  /\ Reserve(who, amount)
  /\ UNCHANGED <<block, currentRound, nominators, exitQueue, totalStakedAt,
                 exposures, settings, unfunded>>

ForceOnboard(candidate) ==
  /\ Has(collators, candidate)
  /\ ~ IsActive(collators[candidate])
  /\ collators' = MapInsert(collators, candidate, ForceBond(collators[candidate]))
  /\ UNCHANGED <<accounts, block, currentRound, nominators, exitQueue,
                 totalStaked, totalStakedAt, exposures, settings, unfunded,
                 overdrawn>>

BondExtra(who, extra) ==
  /\ Has(collators, who) /\ IsActive(collators[who])
  /\ LET c == CollatorBondExtra(collators[who], extra, NextRoundIndex)
     IN  /\ Bounded(c) /\ Len(c.unlocking) <= MaxListed
         /\ collators' = MapInsert(collators, who, c)
  /\ Stake(extra)
  /\ Reserve(who, extra)
  /\ UNCHANGED <<block, currentRound, nominators, exitQueue, totalStakedAt,
                 exposures, settings, unfunded>>

\* The minimum not checked by bond_less.
MutCanBondLess(c, less) == CollatorCanBondLess(c, less)

\* Underflow, BondBelowMin
CanBondLess(c, less) ==
  CollatorCanBondLess(c, less) /\ c.active - less >= MinCollatorStake

BondLess(who, less) ==
  /\ Has(collators, who) /\ IsActive(collators[who])
  /\ CanBondLess(collators[who], less)
  /\ LET c == CollatorBondLess(collators[who], less, WithdrawRound)
     IN  Bounded(c) /\ collators' = MapInsert(collators, who, c)
  /\ UNCHANGED <<accounts, block, currentRound, nominators, exitQueue,
                 totalStaked, totalStakedAt, exposures, settings, unfunded,
                 overdrawn>>

\* What collator_unbond queues: the active bond and the unbonding chunks.
\* The unlocking chunks go with the collator's record.
LeavingOf(c) == [remaining |-> c.active, unbonding |-> c.unbonding,
                 when |-> WithdrawRound]

CollatorUnbond(who) ==
  /\ Has(collators, who)
  /\ LET c == collators[who]
     IN  /\ accounts' = [a \in AccountIds |->
                           Unreserve(accounts[a],
                                     Amounts(OfOwner(c.nominations, a)))]
         /\ exitQueue' = MapInsert(exitQueue, who, LeavingOf(c))
  /\ collators' = MapRemove(collators, who)
  /\ UNCHANGED <<block, currentRound, nominators, totalStaked, totalStakedAt,
                 exposures, settings, unfunded,
                 overdrawn>>

\* What nominate's caller becomes: a new nominator, or one bond more.
NominatorWith(who, bond) ==
  IF Has(nominators, who) THEN NominatorAdd(nominators[who], bond)
                          ELSE NewNominator(bond)

\* The nominator's record is written first; if the collator's list is then
\* found to have the caller already (NominationNotExist), that write stays
\* and nothing is reserved.
Nominate(who, candidate, amount) ==
  /\ amount >= MinNominatorStake
  /\ Has(collators, candidate) /\ IsActive(collators[candidate])
  /\ Len(collators[candidate].nominations) < MaxNominationsPerCollator
  /\ Has(nominators, who) =>
       ~ BinarySearchFinds(nominators[who].nominations, candidate)
  /\ LET n == NominatorWith(who, [owner |-> candidate, amount |-> amount])
     IN  Bounded(n) /\ nominators' = MapInsert(nominators, who, n)
  /\ \/ /\ BinarySearchFinds(collators[candidate].nominations, who)
        /\ unfunded' = [unfunded EXCEPT ![who] = @ + amount]
        /\ UNCHANGED <<accounts, collators, totalStaked, overdrawn>>
     \/ /\ ~ BinarySearchFinds(collators[candidate].nominations, who)
        /\ collators' = [collators EXCEPT ![candidate].nominations =
                           Append(@, [owner |-> who, amount |-> amount])]
        /\ Reserve(who, amount)
        /\ Stake(amount)
        /\ UNCHANGED unfunded
  /\ UNCHANGED <<block, currentRound, exitQueue, totalStakedAt, exposures,
                 settings>>

\* What nominate_extra and nominate_less ask of both ledgers.
BothListed(who, candidate) ==
  /\ Has(collators, candidate) /\ IsActive(collators[candidate])
  /\ Has(nominators, who)
  /\ candidate \in Owners(nominators[who].nominations)
  /\ who \in Owners(collators[candidate].nominations)

NominateExtra(who, candidate, extra) ==
  /\ BothListed(who, candidate)
  /\ LET n == NominatorExtra(nominators[who], candidate, extra)
     IN  Bounded(n) /\ nominators' = MapInsert(nominators, who, n)
  /\ collators' = [collators EXCEPT ![candidate].nominations =
                     RaiseFirst(@, who, extra)]
  /\ Reserve(who, extra)
  /\ Stake(extra)
  /\ UNCHANGED <<block, currentRound, exitQueue, totalStakedAt, exposures,
                 settings, unfunded>>

\* Only the existence of the bond checked.
MutCanLower(bonds, owner, less) == FirstBond(bonds, owner) # 0

\* Underflow and NominateBelowMin, for one of the two lists.
CanLower(bonds, owner, less) ==
  /\ CanLowerFirst(bonds, owner, less)
  /\ bonds[FirstBond(bonds, owner)].amount - less >= MinNominatorStake

NominateLess(who, candidate, less) ==
  /\ BothListed(who, candidate)
  /\ CanLower(nominators[who].nominations, candidate, less)
  /\ CanLower(collators[candidate].nominations, who, less)
  /\ LET n == NominatorLess(nominators[who], candidate, less, WithdrawRound)
     IN  Bounded(n) /\ nominators' = MapInsert(nominators, who, n)
  /\ collators' = [collators EXCEPT ![candidate].nominations =
                     LowerFirst(@, who, less)]
  /\ UNCHANGED <<accounts, block, currentRound, exitQueue, totalStaked,
                 totalStakedAt, exposures, settings, unfunded,
                 overdrawn>>

\* The collator's list left with the nominator that is gone.
MutNominatorLeaveCollator(who, candidate) ==
  /\ Has(nominators, who) /\ Has(collators, candidate)
  /\ candidate \in Owners(nominators[who].nominations)
  /\ who \in Owners(collators[candidate].nominations)
  /\ nominators' = MapInsert(nominators, who,
                     NominatorRemove(nominators[who], candidate, WithdrawRound))
  /\ UNCHANGED <<accounts, block, collators, currentRound, exitQueue,
                 totalStaked, totalStakedAt, exposures, settings, unfunded,
                 overdrawn>>

NominatorLeaveCollator(who, candidate) ==
  /\ Has(nominators, who) /\ Has(collators, candidate)
  /\ candidate \in Owners(nominators[who].nominations)
  /\ who \in Owners(collators[candidate].nominations)
  /\ LET n == NominatorRemove(nominators[who], candidate, WithdrawRound)
     IN  Bounded(n) /\ nominators' = MapInsert(nominators, who, n)
  /\ collators' = [collators EXCEPT ![candidate].nominations =
                     WithoutOwner(@, who)]
  /\ UNCHANGED <<accounts, block, currentRound, exitQueue, totalStaked,
                 totalStakedAt, exposures, settings, unfunded,
                 overdrawn>>

-----------------------------------------------------------------------------
(* The end of a block.                                                     *)

\* The comparison off by one.
MutShouldGotoNextRound == block - currentRound.start_in > currentRound.length

\* RoundInfo::should_goto_next_round
ShouldGotoNextRound == block - currentRound.start_in >= currentRound.length

\* RoundInfo::next_election_prediction
NextElectionPrediction == currentRound.start_in + currentRound.length

\* update_collators, for one collator.
UpdateCollator(c, round) ==
  ConsolidateUnbonded(ConsolidateActive(ActiveOnboard(c), round), round)

\* The released chunks kept in the nominator's list.
MutUpdateNominator(n, round) ==
  [n EXCEPT !.total = Minus(@, Values(Matured(n.unbonding, round)))]

\* update_nominators, for one nominator.
UpdateNominator(n, round) == ConsolidateUnbonded(n, round)

\* An exit executed one round late.
MutExitDue(exit, round) == exit.when < round

\* execute_exit_queue: an exit that is due is paid out whole; before that only
\* its matured chunks are.
ExitDue(exit, round) == exit.when <= round

ExitRelease(exit, round) ==
  IF ExitDue(exit, round)
    THEN exit.remaining + Values(exit.unbonding)
    ELSE Values(Matured(exit.unbonding, round))

\* What it takes off TotalStaked: every put subtracts from the value read
\* before the first one, so only the last put counts.
ExitUnstake(exit, round) ==
  LET written == IF ExitDue(exit, round) THEN exit.unbonding
                                         ELSE Matured(exit.unbonding, round)
  IN  IF written # <<>> THEN Last(written).value
      ELSE IF ExitDue(exit, round) THEN exit.remaining ELSE 0

\* An exit executed and left in the queue.
MutExitQueueAfter(round) ==
  [a \in DOMAIN exitQueue |->
     [exitQueue[a] EXCEPT !.unbonding = Pending(@, round)]]

ExitQueueAfter(round) ==
  [a \in {x \in DOMAIN exitQueue : ~ ExitDue(exitQueue[x], round)} |->
     [exitQueue[a] EXCEPT !.unbonding = Pending(@, round)]]

\* Everything unreserved for account a when the given round starts: it may be
\* a collator, a nominator and in the exit queue at once.
Released(a, round) ==
  (IF Has(collators, a)
     THEN Values(Matured(collators[a].unbonding, round)) ELSE 0)
  + (IF Has(nominators, a)
       THEN Values(Matured(nominators[a].unbonding, round)) ELSE 0)
  + (IF Has(exitQueue, a) THEN ExitRelease(exitQueue[a], round) ELSE 0)

\* Withdrawals and exits counted while they are still pending, and again when
\* they are released.
MutUnstakedAt(round) ==
  SumFunction([a \in DOMAIN nominators |-> Values(nominators[a].unbonding)])
  + SumFunction([a \in DOMAIN exitQueue |-> exitQueue[a].remaining])

\* update_nominators and execute_exit_queue lower TotalStaked;
\* update_collators does not.
UnstakedAt(round) ==
  SumFunction([a \in DOMAIN nominators |->
                 Values(Matured(nominators[a].unbonding, round))])
  + SumFunction([a \in DOMAIN exitQueue |-> ExitUnstake(exitQueue[a], round)])

\* payout_stakers drains the exposures of this round.
PayoutRound(round) == round - PayoutDuration

Payees(round) ==
  UNION {{k[2]} \cup exposures[k] :
           k \in {x \in DOMAIN exposures : x[1] = PayoutRound(round)}}

\* mint: nothing below the minimum balance, nothing for a dead account.
Mint(account, reward) ==
  IF reward > ExistentialDeposit THEN DepositIntoExisting(account, reward)
                                 ELSE account

\* The exposures of the payout round not drained.
MutExposuresAfterPayout(round) == exposures

ExposuresAfterPayout(round) ==
  [k \in {x \in DOMAIN exposures : x[1] # PayoutRound(round)} |-> exposures[k]]

\* collect_exposures: the nominators, other than the collator itself, that
\* name the winner.  The provider may give one of them no weight; such a
\* nominator is one whose reward is 0.
BackersOf(winner) ==
  {a \in DOMAIN nominators' \ {winner} :
     winner \in Owners(nominators'[a].nominations)}

\* get_npos_targets: every collator; targets only counts the active ones.
NposTargets == DOMAIN collators

\* slashable_balance_of: what a collator's, a nominator's vote weighs.
CollatorWeight(a) == IF IsActive(collators[a]) THEN collators[a].active ELSE 0
NominatorWeight(a) == nominators[a].total

\* get_npos_voters: every collator votes for itself, every nominator for the
\* collators on its list, those that have left included.
NposVoters ==
  {[who |-> a, role |-> "collator", weight |-> CollatorWeight(a),
    targets |-> {a}] : a \in DOMAIN collators}
  \cup
  {[who |-> a, role |-> "nominator", weight |-> NominatorWeight(a),
    targets |-> Owners(nominators[a].nominations)] : a \in DOMAIN nominators}

\* The election provider (external): at most desired_target of the targets,
\* none when the election fails.
CanElect(winners) ==
  /\ winners \subseteq NposTargets'
  /\ Cardinality(winners) <= settings.desired_target

StartRound(round, reward, winners) ==
  /\ currentRound' = [index |-> round, start_in |-> block,
                      length |-> settings.blocks_per_round]
  /\ accounts' = [a \in AccountIds |->
       Unreserve(IF a \in DOMAIN reward THEN Mint(accounts[a], reward[a])
                                        ELSE accounts[a],
                 Released(a, round))]
  /\ collators' = [a \in DOMAIN collators |-> UpdateCollator(collators[a], round)]
  /\ nominators' = [a \in DOMAIN nominators |->
                      UpdateNominator(nominators[a], round)]
  /\ exitQueue' = ExitQueueAfter(round)
  /\ CanElect(winners)
  /\ exposures' = MapInsertAll(ExposuresAfterPayout(round),
                               [k \in {round} \X winners |-> BackersOf(k[2])])
  /\ totalStaked' = Minus(totalStaked, UnstakedAt(round))
  /\ totalStakedAt' = MapInsert(totalStakedAt, round, totalStaked')
  /\ UNCHANGED <<settings, unfunded, overdrawn>>

\* on_finalize, and the next block begins.
FinalizeBlock ==
  /\ block' = block + 1
  /\ \/ /\ ShouldGotoNextRound
        /\ NextRoundIndex <= MaxRound
        /\ \E reward \in [Payees(NextRoundIndex) -> Rewards],
              winners \in SUBSET DOMAIN collators :
             StartRound(NextRoundIndex, reward, winners)
     \/ /\ ~ ShouldGotoNextRound
        /\ UNCHANGED <<accounts, currentRound, collators, nominators,
                       exitQueue, totalStaked, totalStakedAt, exposures,
                       settings, unfunded, overdrawn>>

CandidateCall ==
  \E who \in Candidates :
    \/ \E amount \in BondAmounts : Bond(who, amount)
    \/ \E extra \in ExtraAmounts : BondExtra(who, extra)
    \/ \E less \in LessAmounts : BondLess(who, less)
    \/ CollatorUnbond(who)

BackerCall ==
  \E who \in Backers, candidate \in Candidates :
    \/ \E amount \in NominateAmounts : Nominate(who, candidate, amount)
    \/ \E extra \in NominateExtras : NominateExtra(who, candidate, extra)
    \/ \E less \in NominateLesses : NominateLess(who, candidate, less)
    \/ NominatorLeaveCollator(who, candidate)

RootCall ==
  \/ \E s \in SettingChoices : Config(s)
  \/ \E candidate \in Candidates : ForceOnboard(candidate)

Next == CandidateCall \/ BackerCall \/ RootCall \/ FinalizeBlock

Spec == Init /\ [][Next]_vars

\* The chain keeps producing blocks, whatever users submit.
FairSpec == Spec /\ WF_vars(FinalizeBlock)

-----------------------------------------------------------------------------
(* Properties.                                                             *)

Balance == 0 .. BalanceModulus - 1
Chunks  == Seq([value : Balance, round : Nat])
Bonds   == Seq([owner : AccountIds, amount : Balance])

CollatorLedgers ==
  [total : Balance, active : Balance, nominations : Bonds, unlocking : Chunks,
   unbonding : Chunks, status : Status]
NominatorLedgers == [nominations : Bonds, total : Balance, unbonding : Chunks]
Leavings == [remaining : Balance, unbonding : Chunks, when : Nat]

\* Every storage item has the type the pallet declares.
TypeOK ==
  /\ accounts \in [AccountIds -> AccountData]
  /\ block \in Nat
  /\ currentRound \in [index : Nat, start_in : Nat, length : Nat]
  /\ DOMAIN collators \subseteq AccountIds
  /\ collators \in [DOMAIN collators -> CollatorLedgers]
  /\ DOMAIN nominators \subseteq AccountIds
  /\ nominators \in [DOMAIN nominators -> NominatorLedgers]
  /\ DOMAIN exitQueue \subseteq AccountIds
  /\ exitQueue \in [DOMAIN exitQueue -> Leavings]
  /\ totalStaked \in Balance
  /\ totalStakedAt \in [1 .. currentRound.index -> Balance]
  /\ DOMAIN exposures \subseteq Nat \X AccountIds
  /\ exposures \in [DOMAIN exposures -> SUBSET AccountIds]
  /\ settings \in SettingStruct
  /\ unfunded \in [AccountIds -> Nat]
  /\ overdrawn \subseteq AccountIds

\* A collator's ledger balances through every mix of calls and rounds: what
\* it accounts for is its active bond, the bond that is not active yet and
\* the bond that is being withdrawn.
CollatorLedger ==
  \A a \in DOMAIN collators :
    LET c == collators[a]
    IN  c.total = c.active + Values(c.unlocking) + Values(c.unbonding)

\* A nominator's total covers its nominations and what is unbonding, so the
\* subtraction in consolidate_unbonded never wraps, even for the duplicate
\* nominations that an unsorted list lets through.
NominatorLedger ==
  \A a \in DOMAIN nominators :
    LET n == nominators[a]
    IN  n.total >= Amounts(n.nominations) + Values(n.unbonding)

\* A nominator on a collator's list has that collator on its own list:
\* otherwise it could neither change nor withdraw that nomination.
NominationMirrored ==
  \A c \in DOMAIN collators : \A a \in Owners(collators[c].nominations) :
    a \in DOMAIN nominators /\ c \in Owners(nominators[a].nominations)

\* A collator that counts as active has at least the minimum at stake.
ActiveMeetsMinimum ==
  \A a \in DOMAIN collators :
    IsActive(collators[a]) => collators[a].active >= MinCollatorStake

\* The exposures kept are those of rounds not paid yet: payout_stakers, which
\* looks only PayoutDuration rounds back, misses no round and pays none twice.
ExposureWindow ==
  \A k \in DOMAIN exposures :
    k[1] \in currentRound.index - PayoutDuration + 1 .. currentRound.index

\* The round in progress has not outlived its length: it ends with the very
\* block next_election_prediction announces, or with its first block when
\* the configured length is zero.
RoundTiming ==
  /\ block > currentRound.start_in
  /\ \/ block <= NextElectionPrediction
     \/ block = currentRound.start_in + 1

\* No bond waits to become active, and no withdrawal and no exit to be
\* released, that was to by the round in progress.
NothingDue ==
  LET later(chunks) == \A i \in DOMAIN chunks :
                         chunks[i].round > currentRound.index
  IN  /\ \A a \in DOMAIN collators :
           /\ IsActive(collators[a])
           /\ later(collators[a].unlocking)
           /\ later(collators[a].unbonding)
      /\ \A a \in DOMAIN nominators : later(nominators[a].unbonding)
      /\ \A a \in DOMAIN exitQueue :
           /\ exitQueue[a].when > currentRound.index
           /\ later(exitQueue[a].unbonding)

\* When a round has started nothing that was due is left behind.
NothingLeftDue ==
  [][currentRound'.index # currentRound.index => NothingDue']_vars

\* Only a bonded collator that is active is elected, never one that has left
\* or is still onboarding.
ElectedAreActive ==
  [][\A k \in DOMAIN exposures' \ DOMAIN exposures :
       k[2] \in DOMAIN collators' /\ IsActive(collators'[k[2]])]_vars

\* What account a has in the pallet as a collator: its ledger and its exit.
OwedAsCollator(a) ==
  (IF Has(collators, a) THEN collators[a].total ELSE 0)
  + (IF Has(exitQueue, a)
       THEN exitQueue[a].remaining + Values(exitQueue[a].unbonding) ELSE 0)

\* The stake of every collator is backed by reserved balance, unless one of
\* its own reserves failed: no round, no exit and no call of somebody else
\* releases more of it than it is owed.
StakeBacked ==
  \A a \in AccountIds \ (DOMAIN nominators \cup overdrawn) :
    accounts[a].reserved >= OwedAsCollator(a)

\* No nomination of the nominator was recorded and then refused, none of its
\* reserves failed, and none of its nominations was dropped together with
\* another one for the same collator.
KeptWhole(a) ==
  /\ unfunded[a] = 0 /\ a \notin overdrawn
  /\ nominators[a].total =
       Amounts(nominators[a].nominations) + Values(nominators[a].unbonding)

\* The accounts that ever bond, at genesis or later.
Bonders == Candidates \cup DOMAIN GenesisStakers

\* What a nominator (that never bonds) has reserved is exactly what the
\* collators' lists hold of it and what it is withdrawing: through changes,
\* departures and the collator's own exit nothing is released twice or kept,
\* as long as duplicate nominations have not confused its ledger.
NominatorRefunds ==
  \A a \in DOMAIN nominators \ Bonders : KeptWhole(a) =>
    accounts[a].reserved =
      SumFunction([c \in DOMAIN collators |->
                     Amounts(OfOwner(collators[c].nominations, a))])
      + Values(nominators[a].unbonding)

\* TotalStaked covers the votes of an election, although every exit puts back
\* the value it read first and collators' withdrawals never lower it: only
\* refused nominations vote without it.  payout_stakers divides by the
\* snapshot of it: without those the fractions of one payout add up to at
\* most one.
StakeCovered ==
  totalStaked + SumFunction(unfunded)
    >= SumFunction([v \in NposVoters |-> v.weight])

\* A collator that has left is out of the exit queue once its round comes
\* (unless it bonded and left again meanwhile).
ExitCompletes ==
  \A a \in Candidates : \A r \in 1 .. MaxRound :
    (Has(exitQueue, a) /\ exitQueue[a].when = r)
      ~> (~ Has(exitQueue, a) \/ exitQueue[a].when # r)

-----------------------------------------------------------------------------
(* What docs, comments and tests of the pallet say, and the code does not  *)
(* keep to.                                                                *)

\* AlreadyNominatedCollator: a second nomination of the same collator is
\* refused, so a nominator lists a collator at most once.
OneNominationPerCollator ==
  \A a \in DOMAIN nominators :
    Cardinality(Owners(nominators[a].nominations))
      = Len(nominators[a].nominations)

\* collator_unbond_work: an account that has left the pallet altogether has
\* nothing reserved.
NothingLeftReserved ==
  \A a \in AccountIds :
    ~ Has(collators, a) /\ ~ Has(nominators, a) /\ ~ Has(exitQueue, a)
      => accounts[a].reserved = 0
=============================================================================
