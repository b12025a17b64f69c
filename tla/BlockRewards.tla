---------------------------- MODULE BlockRewards ----------------------------
(***************************************************************************)
(* What collators and nominators of pallets/polkafoundry-staking earn,     *)
(* composed with author-inherent: blocks are executed one after the other, *)
(* their authors collect points, and the block that completes a round pays *)
(* the round that ended PayoutDuration rounds ago out of newly minted      *)
(* tokens.                                                                 *)
(*                                                                         *)
(* Module Staking has the bonds and the round change in full and leaves    *)
(* the amounts open; here the amounts are computed and the bonds are left  *)
(* open: an election gives some collators an exposure out of Elections.    *)
(***************************************************************************)
EXTENDS AuthorInherent, Inflation, StorageMap, FiniteSetsExt, Functions

CONSTANTS
  Collators, Nominators,     \* accounts that are elected / that back them
  Endowment,                 \* their balances at genesis; 0: no account
  Elsewhere,                 \* tokens of all other accounts
  ExistentialDeposit,        \* T::Currency::minimum_balance()
  BlocksPerRound, PayoutDuration,
  Portion,                   \* from_rational(round duration, year), in parts
  Elections,                 \* [exposed, staked]: results and TotalStaked,
                             \* which a refused nomination is not added to
  GenesisStaked,             \* TotalStaked at genesis
  MaxNotes,                  \* bound: calls of note_author in one block
  MaxBlock                   \* bound: no valid block after this one

Stakers == Collators \cup Nominators

Exposure == [own : Nat, others : [Nominators -> Nat]]

ASSUME RewardsAssumption ==
  /\ IsFiniteSet(Authors) /\ IsFiniteSet(Collators) /\ IsFiniteSet(Nominators)
  /\ MaxNotes \in Nat /\ MaxBlock \in Nat
  /\ Endowment \in [Stakers -> Nat]
  /\ Elsewhere \in Nat /\ ExistentialDeposit \in Nat /\ GenesisStaked \in Nat
  /\ BlocksPerRound \in Nat \ {0} /\ PayoutDuration \in Nat \ {0}
  /\ Portion \in Parts
  /\ \A e \in Elections :
       /\ DOMAIN e.exposed \subseteq Collators
       /\ e.exposed \in [DOMAIN e.exposed -> Exposure]
       /\ e.staked \in Nat

VARIABLES
  height,            \* number of blocks executed
  notes,             \* calls of note_author in the current block
  currentRound,      \* CurrentRound
  collatorPoints,    \* CollatorPoints: <<round, collator>> -> points
  totalPoints,       \* TotalPoints
  exposures,         \* RoundStakerClipped: <<round, collator>> -> exposure
  totalStakedAt,     \* TotalStakedAt
  totalIssuanceAt,   \* TotalIssuanceAt
  balance,           \* balances of the stakers
  credited,          \* ghost: <<block, collator>> -> times it was noted
  minted,            \* ghost: round -> what its payout minted
  parent             \* what an invalid block must leave as it was

staking == <<currentRound, collatorPoints, totalPoints, exposures,
             totalStakedAt, totalIssuanceAt, balance, credited, minted>>

vars == <<authorVars, height, notes, staking, parent>>

\* What calls write before a block can turn out invalid.
Storage == [author |-> author, logs |-> logs, collators |-> collatorPoints,
            total |-> totalPoints, credited |-> credited]

TotalIssuance(b) == Elsewhere + SumFunction(b)

\* The storage maps with ValueQuery: a missing entry is zero.
Get(m, key) == IF Has(m, key) THEN m[key] ELSE 0

Init ==
  /\ phase = "between" /\ claims = <<>> /\ author = NoAuthor /\ logs = <<>>
  /\ height = 0 /\ notes = 0
  /\ currentRound = [index |-> 1, start_in |-> 0, length |-> BlocksPerRound]
  /\ collatorPoints = EmptyMap /\ totalPoints = EmptyMap
  /\ exposures = EmptyMap
  /\ totalStakedAt = [r \in {1} |-> GenesisStaked]
  /\ totalIssuanceAt = [r \in {1} |-> TotalIssuance(Endowment)]
  /\ balance = Endowment
  /\ credited = EmptyMap /\ minted = EmptyMap
  /\ parent = Storage

-----------------------------------------------------------------------------
(* Reward points.                                                          *)

\* Points for the round that is to come.
MutPointsRound == currentRound.index + 1

PointsRound == currentRound.index

\* note_author, as a runtime's authorship hook calls it at any point of the
\* block.  set_author does not call it, and no runtime here does.
NoteAuthor(who) ==
  /\ phase = "executing" /\ notes < MaxNotes
  /\ notes' = notes + 1
  /\ LET key == <<PointsRound, who>>
         now == <<height + 1, who>>
     IN  /\ collatorPoints' =
              MapInsert(collatorPoints, key, Get(collatorPoints, key) + 20)
         /\ totalPoints' = MapInsert(totalPoints, PointsRound,
                                     Get(totalPoints, PointsRound) + 20)
         /\ credited' = MapInsert(credited, now, Get(credited, now) + 1)
  /\ UNCHANGED <<authorVars, height, currentRound, exposures, totalStakedAt,
                 totalIssuanceAt, balance, minted, parent>>

-----------------------------------------------------------------------------
(* Payouts.                                                                *)

Half == FromRational(50, 100)

\* compute_i_npos for the constants payout_stakers passes (2.5%, 20%, 50%,
\* 5%), by the fraction of all tokens that is staked.
Interest ==
  [x \in Parts |->
     InterestAt(FromRational(25, 1000), FromRational(20, 100), Half,
                ComputeInflation([x |-> x, x_ideal |-> Half,
                                  d |-> FromRational(5, 100)]))]

\* compute_total_payout for the figures of round r.
TotalPayout(r) ==
  LET issuance == Get(totalIssuanceAt, r)
      x        == FromRational(Get(totalStakedAt, r), issuance)
  IN  PartOf(Portion, PartOf(Interest[x], issuance))

\* The commission not halved.
MutCollatorReward(r, collator, payout) ==
  PartOf(PartOfPart(Half, FromRational(exposures[<<r, collator>>].own,
                                       Get(totalStakedAt, r))), payout)
  + PartOf(FromRational(Get(collatorPoints, <<r, collator>>),
                        Get(totalPoints, r)), payout)

\* Half by own stake, half by points.
CollatorReward(r, collator, payout) ==
  PartOf(PartOfPart(Half, FromRational(exposures[<<r, collator>>].own,
                                       Get(totalStakedAt, r))), payout)
  + PartOf(PartOfPart(Half, FromRational(Get(collatorPoints, <<r, collator>>),
                                         Get(totalPoints, r))), payout)

\* The whole of what its stake makes.
NominatorReward(r, collator, nominator, payout) ==
  PartOf(FromRational(exposures[<<r, collator>>].others[nominator],
                      Get(totalStakedAt, r)), payout)

\* The minimum balance held back, without comparing first.
MutMinted(who, amount) == amount - ExistentialDeposit

\* mint: nothing up to the minimum balance, nothing for a dead account.
Minted(who, amount) ==
  IF amount > ExistentialDeposit /\ balance[who] > 0 THEN amount ELSE 0

\* The collators of round r that are still to be paid, and what each staker
\* is paid for that round, for its own bond and for its nominations.
Elected(r) == {k[2] : k \in {x \in DOMAIN exposures : x[1] = r}}

AsCollator(r, who, payout) ==
  IF who \in Elected(r) THEN Minted(who, CollatorReward(r, who, payout)) ELSE 0

AsNominator(r, who, payout) ==
  IF who \in Nominators
    THEN SumFunction([c \in Elected(r) |->
                        Minted(who, NominatorReward(r, c, who, payout))])
    ELSE 0

RewardOf(r, who, payout) ==
  AsCollator(r, who, payout) + AsNominator(r, who, payout)

\* payout_stakers(round): the balances after it.
Paid(round) ==
  LET r == round - PayoutDuration
  IN  IF round > PayoutDuration
        THEN [a \in Stakers |-> balance[a] + RewardOf(r, a, TotalPayout(r))]
        ELSE balance

\* drain_prefix takes the exposures of the round that is paid.
ExposuresAfter(round, exposed) ==
  MapInsertAll([k \in {x \in DOMAIN exposures : x[1] # round - PayoutDuration}
                  |-> exposures[k]],
               [k \in {round} \X DOMAIN exposed |-> exposed[k[2]]])

\* T::Currency::total_issuance() once the payout has been minted.
IssuanceAfter(round) == TotalIssuance(Paid(round))

\* The stake behind a collator of round r.
Weight(exposure) == exposure.own + SumFunction(exposure.others)

\* What the payout of round r mints, and the figures it is shared by.
MintedFor(r) ==
  [payout     |-> TotalPayout(r),
   elected    |-> Cardinality(Elected(r)),
   staked     |-> Get(totalStakedAt, r),
   weight     |-> SumFunction([c \in Elected(r) |-> Weight(exposures[<<r, c>>])]),
   collators  |-> SumFunction([a \in Collators |->
                                 AsCollator(r, a, TotalPayout(r))]),
   nominators |-> SumFunction([a \in Nominators |->
                                 AsNominator(r, a, TotalPayout(r))])]

StartRound(round, e) ==
  /\ currentRound' = [index |-> round, start_in |-> height + 1,
                      length |-> BlocksPerRound]
  /\ balance' = Paid(round)
  /\ exposures' = ExposuresAfter(round, e.exposed)
  /\ totalStakedAt' = MapInsert(totalStakedAt, round, e.staked)
  /\ totalIssuanceAt' = MapInsert(totalIssuanceAt, round, IssuanceAfter(round))
  /\ minted' = IF round > PayoutDuration
                 THEN MapInsert(minted, round - PayoutDuration,
                                MintedFor(round - PayoutDuration))
                 ELSE minted
  /\ UNCHANGED <<collatorPoints, totalPoints, credited>>

ShouldGotoNextRound ==
  height + 1 - currentRound.start_in >= currentRound.length

-----------------------------------------------------------------------------
(* The chain.                                                              *)

InitializeBlock(body) ==
  /\ Len(body) = 1 => height < MaxBlock
  /\ AuthorInitialize(body)
  /\ notes' = 0
  /\ UNCHANGED <<height, staking, parent>>

Inherent == SetAuthor /\ UNCHANGED <<height, notes, staking, parent>>

\* on_finalize of both pallets.
FinalizeBlock ==
  /\ AuthorFinalize
  /\ height' = height + 1
  /\ \/ /\ ShouldGotoNextRound
        /\ \E e \in Elections : StartRound(currentRound.index + 1, e)
     \/ ~ ShouldGotoNextRound /\ UNCHANGED staking
  /\ parent' = Storage'
  /\ notes' = 0

\* An invalid block leaves the parent's storage.
DropBlock ==
  /\ Invalid
  /\ phase' = "between" /\ claims' = <<>> /\ notes' = 0
  /\ author' = parent.author /\ logs' = parent.logs
  /\ collatorPoints' = parent.collators /\ totalPoints' = parent.total
  /\ credited' = parent.credited
  /\ UNCHANGED <<height, parent, currentRound, exposures, totalStakedAt,
                 totalIssuanceAt, balance, minted>>

Next ==
  \/ \E body \in Bodies : InitializeBlock(body)
  \/ Inherent
  \/ \E a \in Authors : NoteAuthor(a)
  \/ FinalizeBlock
  \/ DropBlock

Spec == Init /\ [][Next]_vars

\* The executive runs a block it has started to its end.
FairSpec == /\ Spec
            /\ WF_vars(Inherent) /\ WF_vars(FinalizeBlock) /\ WF_vars(DropBlock)

-----------------------------------------------------------------------------
(* Properties.                                                             *)

TypeOK ==
  /\ phase \in {"between", "executing"}
  /\ claims \in Seq(Authors) /\ logs \in Seq(Authors)
  /\ author \in Authors \cup {NoAuthor}
  /\ height \in 0 .. MaxBlock /\ notes \in 0 .. MaxNotes
  /\ currentRound \in [index : Nat \ {0}, start_in : Nat, length : Nat]
  /\ \A k \in DOMAIN collatorPoints : collatorPoints[k] \in Nat
  /\ DOMAIN exposures \subseteq Nat \X Collators
  /\ \A k \in DOMAIN exposures : exposures[k] \in Exposure
  /\ balance \in [Stakers -> Nat]

\* find_author never names an author other than the one in the header of the
\* block in which it is asked, at no point of the block and also after an
\* invalid block: nothing is left over from the block before.
AuthorIsLogged == FindAuthor # NoAuthor => logs = <<FindAuthor>>

\* A block that was accepted has exactly one author.
SealedWithAuthor ==
  phase = "between" /\ height > 0 => \E a \in Authors : logs = <<a>> /\ author = a

\* A block whose producer followed create_inherent is accepted, whatever
\* blocks, valid or not, were executed before it.
HonestBlockSealed ==
  \A h \in 0 .. MaxBlock - 1 :
    phase = "executing" /\ height = h /\ logs = <<>> /\ Len(claims) = 1
      ~> height = h + 1

RoundOf(block) == ((block - 1) \div BlocksPerRound) + 1

\* How often author c was noted in the blocks of round r, by the ghost m.
Noted(m, r, c) ==
  SumFunction([b \in 1 .. MaxBlock + 1 |->
                 IF RoundOf(b) = r THEN Get(m, <<b, c>>) ELSE 0])

\* Every note_author of an accepted block counts 20 points in the round the
\* block belongs to, the block that starts a round in its on_finalize still
\* in the round it completes; a round's total is the sum over its collators.
PointsMatchBlocks ==
  \A r \in 1 .. RoundOf(MaxBlock + 1) + 1 :
    /\ \A c \in Authors :
         Get(collatorPoints, <<r, c>>) = 20 * Noted(credited, r, c)
    /\ Get(totalPoints, r) =
         20 * SumFunction([c \in Authors |-> Noted(credited, r, c)])

\* What one payout mints, for any election: half of it by points, half by the
\* collators' own stake and a whole one by the nominators' stake, in proportion
\* to TotalStaked, and at most a half for each part that is rounded.  Covered
\* by TotalStaked (weight <= staked) that is one payout for the collators and
\* one and a half for all; nominations that nominate stored and then refused
\* are not in TotalStaked and mint on top.
MintWithinBudget ==
  \A r \in DOMAIN minted :
    LET m   == minted[r]
        den == IF m.staked = 0 THEN 1 ELSE m.staked
    IN  /\ 2 * den * m.collators
             <= m.payout * (den + m.weight) + 2 * den * m.elected
        /\ 2 * den * (m.collators + m.nominators)
             <= m.payout * (den + 2 * m.weight)
                  + den * m.elected * (2 + Cardinality(Nominators))

\* "the rest for nominator" (tests.rs, payout_stakers_work): collators and
\* nominators share one payout, up to rounding, when TotalStaked covers them.
RestForNominators ==
  \A r \in DOMAIN minted :
    LET m == minted[r]
    IN  m.weight <= m.staked =>
          2 * (m.collators + m.nominators)
            <= 2 * m.payout + m.elected * (2 + Cardinality(Nominators))
=============================================================================
