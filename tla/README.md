# Verification of the PolkaFoundry pallets and node

TLA+ models of the state machines in this repository, the TLC runs that check
them on small instances, and TLAPS proofs of the properties that hold for every
instance. `PROJECT.json` maps every definition to the source lines it models.

## 1. The system

PolkaFoundry is a Substrate parachain. Its own logic is in four pallets; the
runtimes configure them together with library pallets, and the node wires
libraries into a collator and keeps two pools for the Ethereum RPC.

| Component | State | Operations | Interacts with |
|---|---|---|---|
| `pallets/treasury` | the pot's balance | `donate`, `allocate` (root) | balances |
| `pallets/crowdloan-rewards` | `Contributors`, `AssociatedAccount`, `CurrentRewardEndIn`, `RewardPeriod` | `initialize_reward` (root), `associate_account`, `update_associate_account`, `get_money` | pays from the treasury's account; reads the block number |
| `pallets/polkafoundry-staking` | `Collators`, `Nominators`, `ExitQueue`, `CurrentRound`, `TotalStaked(At)`, `TotalIssuanceAt`, `RoundStakerClipped`, points, `Settings` | `bond`, `bond_extra`, `bond_less`, `collator_unbond`, `nominate`, `nominate_extra`, `nominate_less`, `nominator_leave_collator`, `force_onboard` and `config` (root), genesis, `on_finalize` | reserves in balances; election provider calls back for targets and voters |
| `.../inflation.rs`, `taylor_series.rs` | none (the sum of a series, as magnitude and sign, while it runs) | the payout of a round | called from the payout |
| `pallets/author-inherent` | `Author` | `on_initialize`, `set_author`, `on_finalize`, `find_author` | the executive drops blocks it refuses; `set_author` does not call the `EventHandler`, so a runtime has to wire up the staking pallet's `note_author` itself; no runtime includes either pallet |
| `node/src/service.rs`, `rpc.rs` | Ethereum filter pool, pending transactions, tasks | start-up (`start_node`, `start_dev`), pruning on block import, `new_chain_ops` | pools shared with the RPC handlers under a mutex; import notifications of the client |
| `node/src/command.rs`, `cli.rs` | the command line | `run`, `load_spec`, subcommands | starts the service |
| `node` (rest), `runtime/*`, `primitives` | configuration | | |

Crowdloan rewards and the treasury are part of the Halong Bay runtime. The
staking pallet is written and tested, but commented out of the runtimes at this
commit; it is modelled as its own code has it.

What is hard about it:

- *Partial failure.* At the pinned Substrate revision a dispatchable is not
  transactional: what was written before an error stays. `get_money` and
  `nominate` write first and fail later, and the result of `reserve` is dropped
  everywhere.
- *Long sequences of legal calls.* A stake passes through `unlocking`, `active`,
  `unbonding` and the exit queue, moved by calls and by round changes, in
  records of two accounts at once. Collators leave and bond again while
  nominators still name them.
- *Ordering at the end of a round.* One block pays, matures, releases, executes
  exits and elects.
- *Stale state.* Campaign data of an earlier campaign, a value of `TotalStaked`
  read once and put back several times, an exit overwritten by a later one.
- *Boundaries.* Division by a period, comparison of block numbers, wrapping
  `u128` in release builds (`Cargo.toml` sets no `overflow-checks`).
- *Liveness.* Exits are executed only by `on_finalize`, in a later round; a block
  with one claim of authorship must be accepted whatever came before it.
- *Fixed-point arithmetic.* Payouts are fractions of fractions, rounded down or to
  the nearest, of an alternating series summed without signed integers.
- *Concurrency in the node.* RPC handlers run before the maintenance tasks
  subscribe; an insert awaits the transaction pool and may come after the block
  was handled; notifications are queued, missing during the initial sync, and
  out of order on forks; tasks end.

There is no concurrency inside a pallet: extrinsics of different accounts are
executed one at a time, in any order. The interleavings explored are those.

What makes each component correct: the treasury pays for a relay no more than
its reward, on the vesting schedule, to accounts with a proof; staking ledgers
add up, are covered by reserved balance, are refunded exactly once, and nothing
due is left behind; rounds end when predicted, are paid once, within what
inflation allows, by the points their own blocks earned, and elect only active
collators; exits complete; every accepted block has one author; what enters an
Ethereum pool leaves it, not early and not never; a node runs the runtime of its
chain unless another one is forced.

## 2. Modules

    StorageMap   Balances            external: FRAME storage, pallet_balances
        |        /      \
        |   Treasury   StakingLedger
        |      |          |
      CrowdloanRewards  Staking
        |      \          |     \
    MCCrowdloan CrowdloanProofs  MCStaking  StakingProofs

    SumProofs -- LedgerProofs -- StakingProofs    sums and lists in the proofs
        \
         InflationProofs -- TaylorProofs, RewardsProofs

    VestingGrants         promise that CrowdloanRewards implements

    PerThing -- Inflation -- TaylorSeries -- MCTaylor, TaylorProofs
                   |    AlternatingSum       promise that TaylorSeries implements
    AuthorInherent |
          \        |
          BlockRewards -- MCRewards, RewardsProofs

    NodeCommand -- Node -- MCNode, NodeProofs

**StorageMap, Balances** (external). A `StorageMap` is a function over the keys
present. `Balances` is the contract of `pallet_balances` on free and reserved
balance, existential deposit and reaping included, as far as the pallets use it.

**Treasury**. `Donate` and `Allocate` with their `ScantyAmount` check and the
conditions under which the transfer fails. It has no `Next` of its own: the
crowdloan module runs it together with the claims that draw on the same account.

**CrowdloanRewards**. One action per call. An error before the first write is a
stuttering step, so it has no action; the errors of `get_money` after the write
(`ScantyReward`, `RewardFailed`) are its second outcome, which keeps the record.
A contribution list is a partial function (a relay listed twice keeps its last
entry, as successive `insert`s do). Signatures are the constant relation
`Proofs`. The ghosts `enlisted` (the relays of the latest list) and `paid`
(what was really transferred for the relay's current grant) only serve the
properties. Contributions and rates are `u32`, so the products fit into `u128`
and naturals are exact.

**VestingGrants**. What the two pallets promise together, without associations,
signatures, rates or the treasury: a grant has an amount and a window, and what
was drawn of it is never ahead of the straight line over that window. New grants
start together, once none is still vesting; those that are not renewed count as
matured. `CrowdloanRewards` maps a contributor record to a grant (`GrantOf`) and
is shown to implement it (`ImplementsVesting`), although it pays a truncated rate
in instalments, to changing accounts.

**StakingLedger**. The `impl` blocks of `StakingCollators` and
`StakingNominators` as pure operators on records. `BinarySearchFinds` is the
search the code performs on a list that it never sorts; `Plus` and `Minus` wrap
at `BalanceModulus`. `claimed_rewards`, which is never used, is left out. The
filters of the code (`retain`, the chunks a consolidation keeps or takes) are
`Kept`, the elements at a set of positions, as a recursive function over the
prefixes of the list: the same list as `SelectSeq` gives, in a form that can be
proved about.

**Staking**. The storage items, genesis (`bond` with its result ignored;
rejected stakers still counted in `TotalStaked`), every call, and
`FinalizeBlock`, which is the whole of `on_finalize`: round update, payout,
`update_collators`, `update_nominators`, `execute_exit_queue`, election,
`TotalStakedAt`. The three releases of one account add up in `Released`,
because `unreserve` saturates. `NposVoters` and `NposTargets` are what the data
provider offers to an election. `ExitUnstake` is what the repeated puts of
`TotalStaked` amount to. The election provider is external: any set of at most
`desired_target` of the targets wins, or none. The amount paid to each account
is any value of `Rewards`; `mint`'s own conditions are kept. A failing call
without effect is a stuttering step. Two ghosts: `unfunded`, what `nominate`
recorded for an account before it refused the call, and `overdrawn`, the accounts
for which a `reserve` whose result is dropped has failed.

**NodeCommand**. The command line as a record and everything decided from it:
`Refused` collects the errors and panics that the line alone decides, `SpecRuntime`,
`Executor` and `Converter` the three choices of a runtime: by the id of the spec, by
`--force-chain` with its default, and by the `Option` that `RpcRuntime` says is given
to `create_full` (`None` in dev mode, which ends in the `_` arm). Then `StartNodeSteps`
and `StartDevSteps` the order in which the components come up, `Spawned` what
each step adds, `Essential` which tasks take the node down with them. A chain
spec is the prefix of its file name and the prefix of its id.

**Node**. `Launch` is `run()` without a subcommand; outside dev mode it may also fail
on the genesis block or the relay chain's arguments. One action per step of the start-up (`StartStep`, or `StepFailed` where
the code has `?`), per RPC method that touches a pool (`Submit` and `Record` are
the two halves of `eth_sendRawTransaction`, before and after its await), per
notification handled by a task, and for what libraries do: `Import`, on any fork
and with or without notification, `NewBest`, `TaskEnds`. Stopping drops what the
process kept in memory. Ghosts: `missed` (a task was not subscribed at some
import) and `orphans` (transactions that no notification will remove: recorded
too late, or in a block that was not notified). A block carries at most one
Frontier log, so the different directions in which the two copies of the task
scan the digest make no difference. The number that `Submit` stores is read with
the submission; the code may read it earlier, which only shortens the lifespan.

**PerThing** (external). Fractions as numbers of parts of an accuracy, with the
three roundings that are used.

**Inflation**. The pure functions of `inflation.rs` and `taylor_series.rs`.
`BigUint`s are naturals: stripping leading zeros and the cases of
`div_by_stripped` are how limbs divide as naturals do. `after` in
`TaylorSeriePart` is the `for` loop as a recursive function of the number of
iterations; a zero term, on which the code breaks, leaves the sums as they are.

**TaylorSeries**. The same computation as a state machine, one action per branch
of `compute_inflation` and one per iteration, so that what happens inside the
loop can be stated. **AlternatingSum** is the signed sum it stands for;
`ImplementsSum` maps magnitude and sign to a signed total.

**AuthorInherent**. The hooks and the call of the pallet. A block is the list of
the claims in it: what `create_inherent` makes, or anything another producer
writes, since `check_inherent` accepts all. `logs` are the digests of the header.

**BlockRewards**. Composes the author of each block with the points and the payout
of the staking pallet. `NoteAuthor` may be called anywhere in a block;
`FinalizeBlock` is `on_finalize` of both pallets; `DropBlock` restores what an
invalid block had written, as the executive does. Here the amounts are computed
and the bonds left open: an election is any member of `Elections`, exposures with a
`TotalStaked` beside them. By `StakeCovered` of `Staking` that covers the exposures
as long as no nomination was refused after it had been recorded; refused ones vote
without being in `TotalStaked`, so nothing is assumed of the two, and the budget is
stated by the stake rewarded (`weight`) and `TotalStaked` (`staked`). A record of
`minted` has these and what the payout minted by role, so an account that is collator and nominator counts in both. `Portion` is the round's part of the year and does not
follow `Settings`, as in the code. `credited` and `minted` are ghosts.

Not in the staking models: events and weights, transaction fees, the conversion
of balances to vote weights, a staker listed twice at genesis, the pruning of
points and snapshots (there is none in the code).

## 3. Runs

Passing:

| Run | Instance | Shows |
|---|---|---|
| `crowdloan` | 2 relays, 2 natives, treasury, blocks 0..3, contributions 2 and 5, existential deposit 2 | `TypeOK`, `PeriodPositive`, `PaidWithinReward`, `VestedOnSchedule`, `PaidOnlyWithProof`, `RelayStaysAssociated`, `ImplementsVesting` |
| `collators` | 1 candidate beside another collator, rounds 1..4, bond, extra, less, exit, re-bond, bond duration 1 and 2, weak fairness of `FinalizeBlock` | `CollatorLedger`, `ActiveMeetsMinimum`, `StakeBacked`, `StakeCovered`, `NothingLeftDue`, `ExitCompletes` |
| `nominations` | 2 candidates, 1 nominator, scant balances (so `reserve` may fail), rounds 1..3, lists up to 3 | `TypeOK`, `NominatorLedger`, `NominationMirrored`, `NominatorRefunds`, `StakeCovered` |
| `rounds` | a staker rejected at genesis, round lengths 0, 1 and 2, payout after 2 rounds, rewards on both sides of the minimum | `ExposureWindow`, `RoundTiming`, `ElectedAreActive` |
| `node` | 8 command lines (full node of the second runtime, collator, both dev modes, chain operations, refused ones), 1 transaction, 1 filter, 2 block numbers, 2 waiting notifications, retention of 1 and 2 blocks | `TypeOK`, `NothingMissed`, `IncludedForgotten`, `KeptForItsLifespan`, `NothingLeaks` |
| `taylor` | percents, 933 triples of stake, ideal stake and falloff, up to 300 terms | `TypeOK`, `SeriesConverges`, `CloseToCurve`, `InterestInRange`, `ImplementsSum` |
| `rewards` | percents, 2 collators, 2 nominators (one without an account), blocks with up to 2 claims, one note each, rounds of 2 blocks, 4 valid blocks and any number of invalid ones, 4 election results | `TypeOK`, `AuthorIsLogged`, `SealedWithAuthor`, `PointsMatchBlocks`, `MintWithinBudget`, `HonestBlockSealed` |

Three blocks are enough for a campaign to start, be drawn from in two
instalments, end and be restarted for some of the relays; two relays and two
natives for every hand-over, chain and clash of associations. A reward of 5
over 2 or 3 blocks does not divide evenly, and payments fall on both sides of
the existential deposit. In staking, a bond takes one round to become active
and one or two to be released: with the candidate bonded at genesis, four rounds
hold extra, less, exit, re-bond and second exit. `nominations` needs the second
candidate, because only with two a list can be out of order and a nomination be
dropped together with a duplicate; `KeptWhole` excludes exactly those, refused
nominations and failed reserves. With three tokens a nominator can list the same
collator twice on what it has, or ask for more than it has. Three accounts in order 1 < 2 < 3 and lists of three are the
least for which the binary search goes wrong. In the node the entries of a pool do not
influence each other, so one of each is enough; at the last block number forks
go on being imported, and two waiting notifications let a task lag behind. In `taylor` the excess stake is at most ten falloffs, where the largest product
still fits TLC's integers: terms rise to over a hundred times one and the sum
changes its sign many times before they vanish. `Tolerance` is 3 parts, where
the test of the code allows 8. In `rewards` four blocks are two rounds, the
second with an election that the last block pays; a round stands for a year, so
that rounding is small next to a payout and large next to the existential
deposit. The election results are one with ideal stake, one beyond it in which a
nominator outweighs its collator, one with a refused nomination, whose stake is not
covered by `TotalStaked` (it mints more than one and a half payouts), and a failed
one. With percents every series
has ended within 21 terms, so 30 stand for the 300 of the code there; `taylor`
has all 300. The bounds `MaxBlock`, `MaxRound`,
`MaxListed`, `MaxTotal`, `MaxStaked`, `MaxInbox`, `MaxClaims` and `MaxNotes` are guards of the actions, each named in
its module. Account names are numbers where the code compares them, so there is
no symmetry set.

*Fairness.* `FairSpec` of `Staking` assumes only that blocks keep being finalised
(`WF_vars(FinalizeBlock)`), which is what a running chain does; no user is
assumed to submit anything. That of `Node` assumes that the start-up proceeds,
that the executor polls tasks that have a notification and notices the end of an
essential one, and that the parachain grows; the last is strong fairness only
because `MaxInbox`, a bound of the model, disables imports for a while. `FairSpec` of
`BlockRewards` assumes that the executive, having begun a block, goes through its
calls and seals or drops it; producers are assumed to do nothing. RPC users
and the relay chain's choice of the best block are not assumed to do anything.

Runs that refute what a comment, a doc or a test says:

| Run | Shows |
|---|---|
| `crowdloan_claim` | a claim refused with `ScantyReward` stays recorded as claimed |
| `duplicate` | the same collator nominated twice by one nominator |
| `stuck` | leaving with an unlocking bond leaves that part reserved for good |
| `overpaid` | a round mints more than its payout, because nominators get the whole of what their stake makes |
| `spec_runtime` | a polkasmith spec without `--force-chain` is run with the executor, runtime API and transaction converter of halongbay, the default of the option |

Code and tests of the inflation curve disagree where the least interest is above the
peak (`i_ideal * x_ideal`): `compute_i_npos` saturates the difference and returns the
least interest for every stake, while the oracle `float_i_npos` of the tests
(`inflation.rs:85-87`) takes a tenth of the peak as the minimum there and never
exceeds the peak. `InterestInRange` is stated where the least interest is not above the peak, the case
in which code and oracle agree; with the settings of the pallet's tests (2.5 %, 20 %
at 50 %) that is so. The oracle itself is never executed: the body of the test
`compute_inflation_works` is a function that only calls itself, and the inputs it
lists (a least interest below one percent, a peak of at least one) never reach the
disputed case.

Divergences noticed and not given a run of their own: `bond` accepts a collator
that could not reserve anything, although `MinCollatorStake` is documented as
"Minimum stake required to be reserved"; an allocation or a claim can delete the
treasury's account, although `pot()` is documented to keep the existential
deposit; `--collator` starts a full node, although it is documented to be "the
same as running with `--validator`"; the payout is pro-rated by the constant
`BlocksPerRound` even after root has configured another length;
`execute_exit_queue` reads
`TotalStaked` once per exit and puts it several times, so it keeps counting stake
that was released; a spec whose id starts with `polkafoundry`, as in
`specs/halongbay-v1`, is taken for a Halong Bay one, because `is_polkafoundry`
compares with `"polkafoundry]"` (`service.rs:96`; `SpecRuntime` has it so); the README's command for a collator (`--collator --alice`
without an author id) is refused by `run()`; the feature `polkafoundry` does not
build (`chain_spec/polkafoundry.rs:52` names a type `PolkafoundryChainSpec` that does
not exist), so the runs have the other two; a node given the authority role by `--alice` or
`--dev` collates without the author id that run() demands of collators; a dev
node with instant sealing keeps a pending transaction that was recorded late
until the next transaction, since only blocks end its "finite lifespan";
`StakingCollators.total`
is not the sum its comment gives (it counts unbonding and no nominations);
`collator_unbond` says "leave all nominations" and leaves the nominators'
records as they are; `bond_extra` with an amount near 2^128 wraps `total` and
`active`, since the result of `reserve` is dropped; `MAX_COLLATORS_PER_NOMINATOR` is announced
to the election provider (`lib.rs:1247`) and not enforced by `nominate`;
`AlreadyInQueue` and `AlreadyLeaving` are never used; an exit overwrites an
earlier one of the same account; a nominator that removes a duplicate nomination
starts unbonding only one of the two amounts.

## 4. Proofs

*CrowdloanProofs*, for any sets of accounts, any amounts and any number of
blocks, from the assumptions named in `Balances`, `Treasury` and
`CrowdloanRewards`. The inductive invariant `IInv` is `TypeOK`,
`PeriodPositive`, `PaidWithinReward`, `VestedOnSchedule` and two facts none of
them implies: `CampaignOK` (the period ends where the end block says and does
not exceed it; a listed relay is a contributor whose last claim is not before the
campaign's start) and `AssociationProven` (each association has its proof).
`VestedOnSchedule` needs `CampaignOK` because the schedule is stated from the
campaign's start, which the code does not store. The step that carries the
weight is `GetMoney`: an instalment added to the schedule up to the last claim
is the schedule up to now, capped or not. Theorems: `TypeCorrect`,
`NoDivisionByZero`, `NeverOverpaid`, `ClaimsFollowSchedule`,
`PaymentsAreProven`, `RelaysStayDrawable`. The last is about every step by itself:
an update hands the relay over to an account that had none, so no association is
overwritten.

`VestsLinearly` is the refinement. With `IInv`, every step maps to a step of
`VestingGrants` or changes nothing of it: a campaign is `Grant`, a claim that
is paid is `Draw`, a block is `Tick`, all else stutters. The arithmetic is in
`BelowTheLine`: a rate that is truncated once, times the blocks since the last
claim, stays on or below the line of the reward, by `RateTruncates` and
`ProductMonotone`; the cap only lowers it.

*SumProofs*, *LedgerProofs*, *InflationProofs* have no specification; they say what
the operators compute. The library's induction theorems take an operator as a
parameter and are out of the provers' reach. What takes their place is induction
over a *set*: `LeastNat` gives every non-empty set of naturals a least element
(from `WFMin`), so a set of naturals that has 0 and is closed under successor has
every natural (`NatSetInduction`), and a set of subsets of a finite set that has
each subset whose smaller ones it has, has them all (`FiniteSetInduction`). With
these `SumProofs` shows that the recursion behind `SumFunctionOnSet` has a
solution, and that sums do not depend on the order in which elements are picked,
add up, split, scale, swap and compare as sums do; `LedgerProofs` the same of
`Kept` and of the sums over chunks and bonds: a consolidation splits the value of
a list into what it keeps and what it takes. `InflationProofs` has fixed-point
arithmetic (a fraction is at most one, a part of a number at most the number, a
product is rounded up by at most a half), one iteration of the series
(`AddTermSound`: each of the three ways of adding a term gives the signed sum), and
that the series as a function yields magnitudes and a sign after any number of
terms, so the curve is a fraction (`SeriesType`, `CurveType`, `InterestType`).

*TaylorProofs*, for any accuracy, arguments, number of terms and even any value of
`Ln2`. `IInv` is `TypeOK` and what a loop iteration relies on: the series runs
only with the stake beyond the ideal and a falloff of at least one percent, every
call starts from the same values, and up to the ideal stake the result is the
fraction of it. The last is what `InterestBounded` needs for the two ends: no stake
gives the least interest and the ideal stake the peak. Theorems: `TypeCorrect`,
`InterestBounded` and the refinement `SumsWithSign`.

`SeriesAlwaysConverges` is the one theorem that uses the numbers of the code, as
`PerbillAssumption`: at most 10^9 parts (the payouts use `Perbill`), ln 2 at most 0.7,
a percent not less than a hundredth, at least 300 terms. Since the falloff is at
least one percent, the `n`-th term is at most `70 / n` of the one before
(`RateBound`, `TermBound`, through the three truncations). `Bounded` says that after
`n` iterations a term is below two to the power `Height(n)`: from 30 bits it rises,
by 7 bits per term at first, to 179 bits, stays there from `n = 69` to 139, loses a
bit with each term from 140 on and two from 280 on, and has none left at `n = 299`,
the last iteration. The bound is reached with no iteration to spare and is coarse
by ten or so; for a `Perquintill`, which the tests of the code use too, it would not
do.

*RewardsProofs*, for any authors, blocks, elections, accuracy, length of rounds and
payout delay. `IInv` says that `Author` and the header agree, now and in the
storage of the parent, to which an invalid block returns, and that the two are the
same between blocks; from it `AuthorMatchesHeader` and `EveryBlockHasItsAuthor`.
`RInv` adds:

- `RoundOK`: round `i` started at block `(i - 1) * BlocksPerRound` and is not over.
  So the round whose points `note_author` raises is the one its block belongs to,
  also in the block whose `on_finalize` starts the next (`PointsForThisRound`).
- `PointsOK`, of the storage *and* of the parent's: points are 20 times the notes
  of the ghost. An invalid block puts the parent's back, which is why both are
  needed; `PointsAreEarned` is the first.
- `HeightOK`: a block executed at the bound has not exactly one claim, so it is not
  accepted. It only serves the bound.
- `StakeOK`: exposures are those of collators, in no later round than the current
  one, and `TotalStakedAt` counts tokens. A round change takes one round's exposures
  away and adds one round's (`StakeNext`). Nothing relates the two.

`MintIsBounded` rests on `PayoutBudget`. A fraction by stake is rounded down, so it is
at most the stake over `TotalStaked`, or over one if that is zero (`FractionUnder`,
`Divisor`), and the fractions of all add up to the weight of the election over it;
the fractions by points add up to at most one (`SharesBound`). A collator gets half
of its two, a nominator the whole of its one, each rounded up by at most a half.
Multiplied by the accuracy and by the divisor all of it is a comparison of sums
(`LinearSum`), from which the accuracy cancels. So the bound holds whether
`TotalStaked` covers the election or not: where it does, the weight is at most the
divisor and the bounds are one payout for the collators and one and a half for all. That the bound on all stakers is more than one payout is the code's doing
(`overpaid`), not the proof's. `TypeCorrect` needs that the payout is a
natural number, and with it the whole curve.

*StakingProofs*, rounds. `IInv` is the types of the round variables, `StatusOK` (every
collator's status is one of the two assigned), `RoundTiming` and
`ExposureWindow`. `RoundTiming` is inductive with the types alone: a block that
does not end the round is before the predicted one. `ExposureWindow` needs that
a round start moves the window by exactly one and drains the round that falls
out. `ElectedAreActive` follows from `StatusOK` and `active_onboard`, which runs
before the election. Theorems: `RoundsEndOnTime`, `ExposuresArePaidOnce`,
`ElectionsAreSound`.

*StakingProofs*, ledgers. `LedgerInv` is `StateTyped` (the types of all but the
ledgers), `CollatorsOK` and `NominatorsOK` (each record has its type and adds up; an
active collator has the minimum, one that is not yet active has it in chunks that
all unlock by the next round, which makes it the minimum once it is active), `ExitsOK`, `NominationMirrored`, `StakeHeld` and `StakeBacked`.
`StakeHeld` is the strengthening of `StakeCovered` that is inductive: `TotalStaked`
and what refused nominations added cover not only the votes but every ledger and
every exit. The exits need to be in it because their stake is taken off
`TotalStaked` only when they are executed, and then by the value of one chunk alone
(`ExitUnstake`), which is never more than what the exit releases. That the
subtractions do not wrap follows from the sums, not from the types. The proof goes
record by record (what an operation makes of one ledger), call by call (`SumPut`,
`SumDrop`: what one changed record makes of the sum over all), and over the round
change. `BoundsAssumption` says that the amounts in play stay below half of the
modulus; without it `Plus` wraps in the code too (see the divergences). Theorems:
`TypeCorrect`, `CollatorsBalance`, `ActiveAboveMinimum`, `NominatorsCovered`,
`NominationsMirrored`, `StakeIsBacked`, `VotesAreCovered` and
`RoundsLeaveNothingDue`, an action property: after the block that starts a round no
chunk and no exit that was due is left.

*StakingProofs*, refunds. `LedgerInv` bounds every ledger by itself; it does not say
what is reserved for a nominator, nor that the two lists which record a nomination
have the same amount in them. `RefundInv` adds that:

- `ReservedExactly`: what is reserved for an account that never bonds as a collator
  (`Bonders` are those that may) is what the collators' lists hold of it and what
  it has unbonding, as long as it is `Whole` (`KeptWhole`, and true of an account that
  never nominated): no nomination of it was refused, none of its reserves failed,
  and its record adds up.
- `ListsFit`: what a collator's list holds of an account is at most what the
  account's list has with that collator, and exactly that if the two list each other
  and the account's last nomination of the collator is all it has there (`PairOK`).
  More comes from nominating a collator again after it had left and bonded anew: the
  old nomination stays in the account's list and has no counterpart. The condition
  is read off the lists as they are, so no history of the pair is needed.
- `BondersOnly`: collators and exits are accounts that bond.

`NominatorRefunds` is `ReservedExactly` for the accounts that nominated. The work is in `nominator_leave_collator`:
it drops all of the account's nominations of the collator and starts to unbond the
last. If that was not all of them, the record no longer adds up and the account is
not whole; if it was, `PairOK` says that the collator's list loses the same amount.
A collator's exit unreserves what its list held, which is one term of the sum over
the collators (`HoldingsChange`). The lists are compared in `LedgerProofs` by
`Owned`, the total of one owner in a list: `RaiseExact` and `LowerExact` say that a
change touches the first bond of the owner and by that much (it does not wrap),
`OthersSame` that all other owners keep theirs. Theorem:
`RefundsAreExact`.

*NodeProofs*, for any command lines, transactions, block numbers and queue
lengths. `IInv` has the two conclusions `NothingMissed` and `IncludedForgotten`
and what they need: `SpawnOrder` (outside dev mode the tasks are up, or have
ended, by the step that starts the collator or the network) and the type of the
inboxes. `RuntimeCompiled` (a node that is up was asked for a runtime that is
compiled in) serves `TypeCorrect`. Two lemmas say what appending to
and taking from a queue of notifications does to the transactions in it. `PInv`
adds `TypeOK` and `Arrived`: a notification that waits is of an imported block.
Without it a task could prune by a block number ahead of the chain, and
`LifespansKept` would not follow. Theorems: `SubscribedInTime`,
`PendingForgotten`, `TypeCorrect`, `LifespansKept`.

Only model-checked: `ExitCompletes`, `NothingLeaks` and `HonestBlockSealed`, which
are liveness under fairness; and `CloseToCurve`, which compares the truncated sum
with a power of two of a fraction and would need the exponential function and its
series, neither of which the provers or their library have.

## 5. Plan

1. *Done*: crowdloan rewards with the treasury; staking ledgers, calls, rounds
   and election data; points, payouts and the inflation curve; author-inherent
   and its composition with the payouts; the node's start-up and Ethereum pools;
   two abstract specifications and their refinements.
2. Proved: every safety property of the passing runs except `CloseToCurve`.
3. An abstract bonded balance that `Staking` implements. It does not at present:
   `stuck` and the dropped result of `reserve` are behaviours such a
   specification would exclude.

## 6. Not modelled

The rest of the node (chain specs, the client wrapper, ports and output formats,
the relay chain's arguments) is constant tables and forwarding; the mock inherent
data of dev mode is constant too; the runtimes are configuration of
`construct_runtime!`; precompiles and primitives are lists of types. None of them
has a state machine of its own.

Inside the modelled parts: the cryptography behind `associate_account`, the
election algorithm, the executive, the transaction pool, the import queues and
the RPC libraries are external and appear as what the code in this repository
may observe of them.
