---------------------------- MODULE StakingProofs ---------------------------
(***************************************************************************)
(* Proofs about Staking for every value of its constants: any accounts,    *)
(* amounts, settings, lists, payout delay and number of rounds.            *)
(*                                                                         *)
(* First the rounds, with IInv; then the ledgers: what each operation      *)
(* makes of one record, and what each call and each round makes of the     *)
(* sums over all records, with LedgerInv.                                  *)
(***************************************************************************)
EXTENDS Staking, LedgerProofs

-----------------------------------------------------------------------------
(* Rounds.                                                                 *)

\* The round counters are natural numbers.
RoundType ==
  /\ block \in Nat
  /\ currentRound \in [index : Nat, start_in : Nat, length : Nat]
  /\ settings \in SettingStruct

\* A collator has one of the two statuses the pallet assigns.
StatusOK ==
  \A a \in DOMAIN collators :
    "status" \in DOMAIN collators[a] /\ collators[a].status \in Status

\* The inductive invariant.
IInv == RoundType /\ StatusOK /\ RoundTiming /\ ExposureWindow

-----------------------------------------------------------------------------
\* What update_collators does to a collator leaves it active.
LEMMA UpdatedIsActive ==
  ASSUME NEW c, "status" \in DOMAIN c, c.status \in Status, NEW round
  PROVE  /\ "status" \in DOMAIN UpdateCollator(c, round)
         /\ UpdateCollator(c, round).status = "Active"
<1> DEFINE d == ActiveOnboard(c)
           e == ConsolidateActive(d, round)
<1>1. "status" \in DOMAIN d /\ d.status = "Active"
  BY DEF ActiveOnboard, Status
<1> HIDE DEF d
<1>2. "status" \in DOMAIN e /\ e.status = "Active"
  BY <1>1 DEF ConsolidateActive
<1> HIDE DEF e
<1>3. /\ "status" \in DOMAIN ConsolidateUnbonded(e, round)
      /\ ConsolidateUnbonded(e, round).status = "Active"
  BY <1>2 DEF ConsolidateUnbonded
<1> QED BY <1>3 DEF UpdateCollator, d, e

\* Writing a well-formed record into Collators keeps the statuses.
LEMMA InsertStatus ==
  ASSUME StatusOK, NEW a, NEW c, "status" \in DOMAIN c, c.status \in Status,
         collators' = MapInsert(collators, a, c)
  PROVE  StatusOK'
BY DEF StatusOK, MapInsert

\* Changing a collator's list of nominations keeps the statuses.
LEMMA NominationsStatus ==
  ASSUME StatusOK, NEW a, NEW bonds,
         collators' = [collators EXCEPT ![a].nominations = bonds]
  PROVE  StatusOK'
<1> SUFFICES ASSUME NEW x \in DOMAIN collators
             PROVE  /\ "status" \in DOMAIN collators'[x]
                    /\ collators'[x].status \in Status
  BY DEF StatusOK
<1>1. collators'[x] = IF x = a
                        THEN [collators[a] EXCEPT !.nominations = bonds]
                        ELSE collators[x]
  OBVIOUS
<1> QED BY <1>1 DEF StatusOK

\* Genesis: round 1 starts with block 0 and nothing is exposed.
LEMMA InitIInv == Init => IInv
<1> SUFFICES ASSUME Init PROVE IInv
  OBVIOUS
<1>1. RoundType
  BY StakingAssumption DEF Init, RoundType, SettingStruct
<1>2. StatusOK
  BY DEF Init, StatusOK, NewCollator, Status
<1>3. RoundTiming
  BY StakingAssumption DEF Init, RoundTiming, NextElectionPrediction,
                           SettingStruct
<1>4. ExposureWindow
  BY DEF Init, ExposureWindow, EmptyMap
<1> QED BY <1>1, <1>2, <1>3, <1>4 DEF IInv

\* A call that leaves the rounds, the exposures and the settings alone can
\* only disturb the statuses.
LEMMA CallIInv ==
  ASSUME IInv, StatusOK',
         UNCHANGED <<block, currentRound, exposures>>,
         settings' \in SettingStruct
  PROVE  IInv'
BY DEF IInv, RoundType, RoundTiming, NextElectionPrediction, ExposureWindow

\* The collators' own calls.
LEMMA CandidateIInv ==
  ASSUME IInv, CandidateCall
  PROVE  IInv'
<1> USE DEF IInv
<1>1. PICK who \in Candidates :
        \/ \E amount \in BondAmounts : Bond(who, amount)
        \/ \E extra \in ExtraAmounts : BondExtra(who, extra)
        \/ \E less \in LessAmounts : BondLess(who, less)
        \/ CollatorUnbond(who)
  BY DEF CandidateCall
<1>2. ASSUME NEW amount \in BondAmounts, Bond(who, amount)
      PROVE  IInv'
  <2>1. /\ "status" \in DOMAIN NewCollator(amount, NextRoundIndex)
        /\ NewCollator(amount, NextRoundIndex).status \in Status
    BY DEF NewCollator, Status
  <2>2. StatusOK'
    BY <1>2, <2>1, InsertStatus DEF Bond
  <2> QED BY <1>2, <2>2, CallIInv DEF Bond, RoundType
<1>3. ASSUME NEW extra \in ExtraAmounts, BondExtra(who, extra)
      PROVE  IInv'
  <2> DEFINE c == CollatorBondExtra(collators[who], extra, NextRoundIndex)
  <2>1. "status" \in DOMAIN c /\ c.status \in Status
    BY <1>3 DEF BondExtra, CollatorBondExtra, StatusOK, Has
  <2>2. collators' = MapInsert(collators, who, c)
    BY <1>3 DEF BondExtra
  <2> HIDE DEF c
  <2>3. StatusOK'
    BY <2>1, <2>2, InsertStatus
  <2> QED BY <1>3, <2>3, CallIInv DEF BondExtra, RoundType
<1>4. ASSUME NEW less \in LessAmounts, BondLess(who, less)
      PROVE  IInv'
  <2> DEFINE c == CollatorBondLess(collators[who], less, WithdrawRound)
  <2>1. "status" \in DOMAIN c /\ c.status \in Status
    BY <1>4 DEF BondLess, CollatorBondLess, StatusOK, Has
  <2>2. collators' = MapInsert(collators, who, c)
    BY <1>4 DEF BondLess
  <2> HIDE DEF c
  <2>3. StatusOK'
    BY <2>1, <2>2, InsertStatus
  <2> QED BY <1>4, <2>3, CallIInv DEF BondLess, RoundType
<1>5. ASSUME CollatorUnbond(who)
      PROVE  IInv'
  <2>1. StatusOK'
    BY <1>5 DEF CollatorUnbond, StatusOK, MapRemove
  <2> QED BY <1>5, <2>1, CallIInv DEF CollatorUnbond, RoundType
<1> QED BY <1>1, <1>2, <1>3, <1>4, <1>5

\* The nominators' calls.
LEMMA BackerIInv ==
  ASSUME IInv, BackerCall
  PROVE  IInv'
<1> USE DEF IInv
<1>1. PICK who \in Backers, candidate \in Candidates :
        \/ \E amount \in NominateAmounts : Nominate(who, candidate, amount)
        \/ \E extra \in NominateExtras : NominateExtra(who, candidate, extra)
        \/ \E less \in NominateLesses : NominateLess(who, candidate, less)
        \/ NominatorLeaveCollator(who, candidate)
  BY DEF BackerCall
<1>2. ASSUME NEW amount \in NominateAmounts, Nominate(who, candidate, amount)
      PROVE  IInv'
  <2>1. StatusOK'
    <3>1. CASE UNCHANGED collators
      BY <3>1 DEF StatusOK
    <3>2. CASE collators' = [collators EXCEPT ![candidate].nominations =
                               Append(@, [owner |-> who, amount |-> amount])]
      BY <3>2, NominationsStatus
    <3> QED BY <1>2, <3>1, <3>2 DEF Nominate
  <2> QED BY <1>2, <2>1, CallIInv DEF Nominate, RoundType
<1>3. ASSUME NEW extra \in NominateExtras, NominateExtra(who, candidate, extra)
      PROVE  IInv'
  <2>1. StatusOK'
    BY <1>3, NominationsStatus DEF NominateExtra
  <2> QED BY <1>3, <2>1, CallIInv DEF NominateExtra, RoundType
<1>4. ASSUME NEW less \in NominateLesses, NominateLess(who, candidate, less)
      PROVE  IInv'
  <2>1. StatusOK'
    BY <1>4, NominationsStatus DEF NominateLess
  <2> QED BY <1>4, <2>1, CallIInv DEF NominateLess, RoundType
<1>5. ASSUME NominatorLeaveCollator(who, candidate)
      PROVE  IInv'
  <2>1. StatusOK'
    BY <1>5, NominationsStatus DEF NominatorLeaveCollator
  <2> QED BY <1>5, <2>1, CallIInv DEF NominatorLeaveCollator, RoundType
<1> QED BY <1>1, <1>2, <1>3, <1>4, <1>5

\* Root's calls.
LEMMA RootIInv ==
  ASSUME IInv, RootCall
  PROVE  IInv'
<1> USE DEF IInv
<1>1. ASSUME NEW s \in SettingChoices, Config(s)
      PROVE  IInv'
  <2>1. settings' \in SettingStruct /\ StatusOK'
    BY <1>1, StakingAssumption DEF Config, StatusOK
  <2> QED BY <1>1, <2>1, CallIInv DEF Config
<1>2. ASSUME NEW candidate \in Candidates, ForceOnboard(candidate)
      PROVE  IInv'
  <2> DEFINE c == ForceBond(collators[candidate])
  <2>1. "status" \in DOMAIN c /\ c.status \in Status
    BY <1>2 DEF ForceOnboard, ForceBond, StatusOK, Has, Status
  <2>2. collators' = MapInsert(collators, candidate, c)
    BY <1>2 DEF ForceOnboard
  <2> HIDE DEF c
  <2>3. StatusOK'
    BY <2>1, <2>2, InsertStatus
  <2> QED BY <1>2, <2>3, CallIInv DEF ForceOnboard, RoundType
<1> QED BY <1>1, <1>2 DEF RootCall

-----------------------------------------------------------------------------
\* on_finalize, new round: the statuses all become active.
LEMMA StartRoundStatus ==
  ASSUME StatusOK, NEW round, NEW reward, NEW winners,
         StartRound(round, reward, winners)
  PROVE  \A a \in DOMAIN collators' :
           "status" \in DOMAIN collators'[a] /\ collators'[a].status = "Active"
<1> SUFFICES ASSUME NEW a \in DOMAIN collators
             PROVE  /\ "status" \in DOMAIN collators'[a]
                    /\ collators'[a].status = "Active"
  BY DEF StartRound
<1>1. collators'[a] = UpdateCollator(collators[a], round)
  BY DEF StartRound
<1>2. "status" \in DOMAIN collators[a] /\ collators[a].status \in Status
  BY DEF StatusOK
<1> QED BY <1>1, <1>2, UpdatedIsActive

\* on_finalize, new round: the exposures are the undrained ones and those of
\* the winners, which are collators.
LEMMA StartRoundExposures ==
  ASSUME NEW round, NEW reward, NEW winners,
         StartRound(round, reward, winners)
  PROVE  /\ winners \subseteq DOMAIN collators'
         /\ \A k \in DOMAIN exposures' :
              \/ k \in DOMAIN exposures /\ k[1] # PayoutRound(round)
              \/ k \in {round} \X winners
BY DEF StartRound, CanElect, NposTargets, MapInsertAll, ExposuresAfterPayout

\* on_finalize, new round: the round's clock restarts at this block, and the
\* window of unpaid rounds moves by one.
LEMMA StartRoundIInv ==
  ASSUME IInv, block' = block + 1, NEW reward, NEW winners,
         StartRound(NextRoundIndex, reward, winners)
  PROVE  IInv'
<1> USE DEF IInv
<1> DEFINE round == NextRoundIndex
<1>1. /\ currentRound' = [index |-> round, start_in |-> block,
                          length |-> settings.blocks_per_round]
      /\ settings' = settings
  BY DEF StartRound
<1>2. currentRound.index \in Nat /\ round = currentRound.index + 1
      /\ block \in Nat /\ settings.blocks_per_round \in Nat
  BY DEF RoundType, NextRoundIndex, SettingStruct
<1>3. RoundType'
  BY <1>1, <1>2 DEF RoundType
<1>4. StatusOK'
  BY StartRoundStatus DEF StatusOK, Status
<1>5. RoundTiming'
  BY <1>1, <1>2 DEF RoundTiming
<1>6. ExposureWindow'
  <2> SUFFICES ASSUME NEW k \in DOMAIN exposures'
               PROVE  k[1] \in round - PayoutDuration + 1 .. round
    BY <1>1 DEF ExposureWindow
  <2>1. PayoutDuration \in Nat /\ PayoutDuration >= 1
    BY StakingAssumption
  <2>2. CASE k \in {round} \X winners
    BY <1>2, <2>1, <2>2
  <2>3. CASE k \in DOMAIN exposures /\ k[1] # PayoutRound(round)
    <3>1. k[1] \in currentRound.index - PayoutDuration + 1
                     .. currentRound.index
      BY <2>3 DEF ExposureWindow
    <3>2. k[1] # round - PayoutDuration
      BY <2>3 DEF PayoutRound
    <3> QED BY <1>2, <2>1, <3>1, <3>2
  <2> QED BY <2>2, <2>3, StartRoundExposures
<1> QED BY <1>3, <1>4, <1>5, <1>6

\* on_finalize, whether or not the block completes the round.
LEMMA FinalizeIInv ==
  ASSUME IInv, FinalizeBlock
  PROVE  IInv'
<1>1. ASSUME NEW reward, NEW winners,
             StartRound(NextRoundIndex, reward, winners)
      PROVE  IInv'
  BY <1>1, StartRoundIInv DEF FinalizeBlock
<1>2. CASE /\ ~ ShouldGotoNextRound
           /\ UNCHANGED <<accounts, currentRound, collators, nominators,
                          exitQueue, totalStaked, totalStakedAt, exposures,
                          settings, unfunded, overdrawn>>
  <2>1. block' = block + 1
    BY DEF FinalizeBlock
  <2>2. RoundType' /\ StatusOK' /\ ExposureWindow'
    BY <1>2, <2>1 DEF IInv, RoundType, StatusOK, ExposureWindow
  <2>3. RoundTiming'
    BY <1>2, <2>1 DEF IInv, RoundType, RoundTiming, ShouldGotoNextRound,
                      NextElectionPrediction
  <2> QED BY <2>2, <2>3 DEF IInv
<1> QED BY <1>1, <1>2 DEF FinalizeBlock

\* Every step of the pallet preserves the inductive invariant.
LEMMA NextIInv == IInv /\ [Next]_vars => IInv'
<1> SUFFICES ASSUME IInv, [Next]_vars PROVE IInv'
  OBVIOUS
<1>1. CASE UNCHANGED vars
  BY <1>1 DEF IInv, RoundType, StatusOK, RoundTiming, NextElectionPrediction,
              ExposureWindow, vars
<1> QED BY <1>1, CandidateIInv, BackerIInv, RootIInv, FinalizeIInv DEF Next

\* The inductive invariant holds in every reachable state.
THEOREM Invariance == Spec => []IInv
BY InitIInv, NextIInv, PTL DEF Spec

\* For any configured lengths, changed at any time, a round ends with the
\* block next_election_prediction announces.
THEOREM RoundsEndOnTime == Spec => []RoundTiming
<1>1. IInv => RoundTiming
  BY DEF IInv
<1> QED BY <1>1, Invariance, PTL

\* The exposures kept are those of the last PayoutDuration rounds: none
\* outlives the payout of its round, so none can be paid again.
THEOREM ExposuresArePaidOnce == Spec => []ExposureWindow
<1>1. IInv => ExposureWindow
  BY DEF IInv
<1> QED BY <1>1, Invariance, PTL

\* A step that elects a collator elects a bonded and active one.
LEMMA ElectionStep ==
  ASSUME IInv, [Next]_vars,
         NEW k \in DOMAIN exposures' \ DOMAIN exposures
  PROVE  k[2] \in DOMAIN collators' /\ IsActive(collators'[k[2]])
<1>1. ~ UNCHANGED exposures
  OBVIOUS
<1>2. FinalizeBlock
  <2>1. CandidateCall => UNCHANGED exposures
    BY DEF CandidateCall, Bond, BondExtra, BondLess, CollatorUnbond
  <2>2. BackerCall => UNCHANGED exposures
    <3> SUFFICES ASSUME NEW who, NEW candidate, NEW x
                 PROVE  /\ Nominate(who, candidate, x) => UNCHANGED exposures
                        /\ NominateExtra(who, candidate, x) =>
                             UNCHANGED exposures
                        /\ NominateLess(who, candidate, x) =>
                             UNCHANGED exposures
                        /\ NominatorLeaveCollator(who, candidate) =>
                             UNCHANGED exposures
      BY DEF BackerCall
    <3>1. Nominate(who, candidate, x) => UNCHANGED exposures
      BY DEF Nominate
    <3>2. NominateExtra(who, candidate, x) => UNCHANGED exposures
      BY DEF NominateExtra
    <3>3. NominateLess(who, candidate, x) => UNCHANGED exposures
      BY DEF NominateLess
    <3>4. NominatorLeaveCollator(who, candidate) => UNCHANGED exposures
      BY DEF NominatorLeaveCollator
    <3> QED BY <3>1, <3>2, <3>3, <3>4
  <2>3. RootCall => UNCHANGED exposures
    BY DEF RootCall, Config, ForceOnboard
  <2> QED BY <1>1, <2>1, <2>2, <2>3 DEF Next, vars
<1>3. PICK reward \in [Payees(NextRoundIndex) -> Rewards],
           winners \in SUBSET DOMAIN collators :
             StartRound(NextRoundIndex, reward, winners)
  BY <1>1, <1>2 DEF FinalizeBlock
<1>4. k \in {NextRoundIndex} \X winners /\ winners \subseteq DOMAIN collators'
  BY <1>3, StartRoundExposures
<1>5. k[2] \in DOMAIN collators'
  BY <1>4
<1> QED BY <1>3, <1>5, StartRoundStatus DEF IInv, IsActive

\* Whatever the election provider returns, and however users bond and leave,
\* only active collators are elected.
THEOREM ElectionsAreSound == Spec => ElectedAreActive
<1>1. IInv /\ [Next]_vars =>
        [\A k \in DOMAIN exposures' \ DOMAIN exposures :
           k[2] \in DOMAIN collators' /\ IsActive(collators'[k[2]])]_vars
  BY ElectionStep
<1> QED BY <1>1, Invariance, PTL DEF Spec, ElectedAreActive

-----------------------------------------------------------------------------
(* Ledgers.                                                                *)

\* The bounds as numbers.
LEMMA Bounds ==
  /\ MaxTotal \in Nat /\ MaxStaked \in Nat /\ BalanceModulus \in Nat
  /\ BalanceModulus > 0
  /\ MaxTotal <= MaxStaked /\ 2 * MaxStaked < BalanceModulus
  /\ Balance \in SUBSET Nat /\ MinCollatorStake \in Nat
BY BoundsAssumption, ModulusAssumption, StakingAssumption DEF Balance

\* Wrapping arithmetic stays in range; below the modulus it is exact.
LEMMA Arithmetic ==
  /\ \A a, b \in Nat : Plus(a, b) \in Balance /\ Minus(a, b) \in Balance
  /\ \A a, b \in Nat : a + b < BalanceModulus => Plus(a, b) = a + b
  /\ \A a \in Balance : \A b \in Nat : b <= a => Minus(a, b) = a - b
  /\ \A a \in Balance : \A b \in Nat : Minus(a, b) >= a - b
<1>1. BalanceModulus \in Nat /\ BalanceModulus > 0
  BY Bounds
<1> DEFINE M == BalanceModulus
<1>2. \A x \in Int : x % M \in 0 .. M - 1
  BY <1>1
<1>3. \A x \in 0 .. M - 1 : x % M = x
  BY <1>1
<1>4. ASSUME NEW x \in Int, x < M PROVE x % M >= x
  <2>1. CASE x >= 0
    <3>1. x \in 0 .. M - 1
      BY <1>1, <1>4, <2>1
    <3> QED BY <1>3, <3>1
  <2>2. CASE x < 0
    BY <1>2, <2>2, <1>1
  <2> QED BY <2>1, <2>2
<1> QED BY <1>1, <1>2, <1>3, <1>4 DEF Plus, Minus, Balance

-----------------------------------------------------------------------------
(* One ledger.                                                             *)

\* What holds of every collator's record; rounds up to next have begun or
\* begin next.
CollatorOK(c, next) ==
  /\ c \in CollatorLedgers
  /\ c.total = c.active + Values(c.unlocking) + Values(c.unbonding)
  /\ c.total <= MaxStaked
  /\ IsActive(c) => c.active >= MinCollatorStake
  /\ ~ IsActive(c) =>
       /\ c.total >= MinCollatorStake /\ c.active = 0 /\ c.unbonding = <<>>
       /\ \A i \in DOMAIN c.unlocking : c.unlocking[i].round <= next

\* What holds of every nominator's record.
NominatorOK(n) ==
  /\ n \in NominatorLedgers
  /\ n.total >= Amounts(n.nominations) + Values(n.unbonding)
  /\ n.total <= MaxTotal

\* The pallet's lists of chunks are lists of chunks in the sense of
\* LedgerProofs, and so is a chunk they take up.
LEMMA ChunksAre ==
  /\ Chunks = Seq(ChunkOf(Balance))
  /\ \A s \in Chunks : s \in Seq(NatChunk) /\ Values(s) \in Nat
  /\ \A v \in Balance, r \in Nat : Chunk(v, r) \in ChunkOf(Balance) /\ Chunk(v, r) \in NatChunk
<1>1. Chunks = Seq(ChunkOf(Balance))
  BY DEF Chunks, ChunkOf
<1>2. ChunkOf(Balance) \subseteq NatChunk
  BY Bounds DEF ChunkOf, NatChunk
<1>3. \A s \in Chunks : s \in Seq(NatChunk)
  BY <1>1, <1>2
<1>4. \A v \in Balance, r \in Nat : Chunk(v, r) \in ChunkOf(Balance)
  BY DEF Chunk, ChunkOf
<1> QED BY <1>1, <1>2, <1>3, <1>4, ValuesFacts

\* Appending a chunk to a list.
LEMMA ChunkAppend ==
  ASSUME NEW s \in Chunks, NEW v \in Balance, NEW r \in Nat
  PROVE  /\ Append(s, Chunk(v, r)) \in Chunks
         /\ Values(Append(s, Chunk(v, r))) = Values(s) + v
         /\ Values(s) \in Nat
<1>1. s \in Seq(NatChunk) /\ Chunk(v, r) \in NatChunk /\ Values(s) \in Nat
  BY ChunksAre
<1>2. Values(Append(s, Chunk(v, r))) = Values(s) + Chunk(v, r).value
  BY <1>1, ValuesAppend
<1>3. Append(s, Chunk(v, r)) \in Chunks
  BY ChunksAre
<1> QED BY <1>1, <1>2, <1>3 DEF Chunk

\* The pallet's lists of bonds are lists of bonds in the sense of
\* LedgerProofs, and so is a bond they take up.
LEMMA BondsAre ==
  /\ Bonds = Seq(BondOf(AccountIds, Balance))
  /\ \A s \in Bonds : s \in Seq(NatBond) /\ Amounts(s) \in Nat
  /\ \A a \in AccountIds, v \in Balance :
       /\ [owner |-> a, amount |-> v] \in BondOf(AccountIds, Balance)
       /\ [owner |-> a, amount |-> v] \in NatBond
<1>1. Bonds = Seq(BondOf(AccountIds, Balance))
  BY DEF Bonds, BondOf
<1>2. BondOf(AccountIds, Balance) \subseteq NatBond
  BY Bounds, StakingAssumption DEF BondOf, NatBond
<1>3. \A s \in Bonds : s \in Seq(NatBond)
  BY <1>1, <1>2
<1>4. \A a \in AccountIds, v \in Balance :
        [owner |-> a, amount |-> v] \in BondOf(AccountIds, Balance)
  BY DEF BondOf
<1> QED BY <1>1, <1>2, <1>3, <1>4, AmountsFacts

\* A one-element list.
LEMMA SingleChunk ==
  ASSUME NEW v \in Balance, NEW r \in Nat
  PROVE  <<Chunk(v, r)>> \in Chunks /\ Values(<<Chunk(v, r)>>) = v
<1>1. <<>> \in Chunks
  BY DEF Chunks
<1>2. Append(<<>>, Chunk(v, r)) = <<Chunk(v, r)>>
  OBVIOUS
<1>3. /\ Append(<<>>, Chunk(v, r)) \in Chunks
      /\ Values(Append(<<>>, Chunk(v, r))) = Values(<<>>) + v
  BY <1>1, ChunkAppend
<1> QED BY <1>2, <1>3, ValuesEmpty, Bounds

\* bond, and the bonds at genesis.
LEMMA NewCollatorOK ==
  ASSUME NEW amount \in 0 .. MaxStaked, amount >= MinCollatorStake,
         NEW next \in Nat, NEW round \in Nat, round <= next
  PROVE  /\ CollatorOK(NewCollator(amount, round), next)
         /\ NewCollator(amount, round).total = amount
         /\ NewCollator(amount, round).nominations = <<>>
<1> DEFINE c == NewCollator(amount, round)
<1>1. amount \in Balance /\ 0 \in Balance
  BY Bounds DEF Balance
<1>2. <<Chunk(amount, round)>> \in Chunks /\ Values(<<Chunk(amount, round)>>) = amount
  BY <1>1, SingleChunk
<1>3. <<>> \in Bonds /\ <<>> \in Chunks
  BY DEF Bonds, Chunks
<1>4. c \in CollatorLedgers /\ ~ IsActive(c)
  BY <1>1, <1>2, <1>3 DEF NewCollator, CollatorLedgers, Status, IsActive
<1>5. /\ c.total = amount /\ c.active = 0 /\ c.unbonding = <<>>
      /\ c.unlocking = <<Chunk(amount, round)>> /\ c.nominations = <<>>
  BY DEF NewCollator
<1>6. \A i \in DOMAIN c.unlocking : c.unlocking[i].round <= next
  BY <1>5 DEF Chunk
<1> HIDE DEF c
<1>7. CollatorOK(c, next)
  BY <1>2, <1>4, <1>5, <1>6, ValuesEmpty DEF CollatorOK
<1> QED BY <1>5, <1>7 DEF c

\* bond_extra
LEMMA BondExtraOK ==
  ASSUME NEW next \in Nat, NEW c, CollatorOK(c, next), IsActive(c),
         NEW extra \in 0 .. MaxStaked,
         CollatorBondExtra(c, extra, next).total <= MaxTotal
  PROVE  /\ CollatorOK(CollatorBondExtra(c, extra, next), next)
         /\ CollatorBondExtra(c, extra, next).total = c.total + extra
         /\ CollatorBondExtra(c, extra, next).nominations = c.nominations
<1> DEFINE d == CollatorBondExtra(c, extra, next)
           u == Append(c.unlocking, Chunk(extra, next))
<1>1. c \in CollatorLedgers
  BY DEF CollatorOK
<1>2. /\ c.total \in Balance /\ c.active \in Balance /\ c.unlocking \in Chunks
      /\ c.unbonding \in Chunks
  BY <1>1 DEF CollatorLedgers
<1>3. extra \in Balance /\ extra \in Nat /\ c.total \in Nat /\ c.active \in Nat
  BY <1>2, Bounds DEF Balance
<1>4. u \in Chunks /\ Values(u) = Values(c.unlocking) + extra
      /\ Values(c.unlocking) \in Nat /\ Values(c.unbonding) \in Nat
  BY <1>2, <1>3, ChunkAppend, ChunksAre
<1>5. Plus(c.total, extra) = c.total + extra
  BY <1>3, Arithmetic, Bounds DEF CollatorOK
<1>6. Plus(c.total, extra) \in Balance
  BY <1>3, Arithmetic
<1>7. /\ d.total = c.total + extra /\ d.active = c.active /\ d.unlocking = u
      /\ d.unbonding = c.unbonding /\ d.status = c.status
      /\ d.nominations = c.nominations
  BY <1>1, <1>5 DEF CollatorBondExtra, CollatorLedgers
<1>8. d \in CollatorLedgers
  BY <1>1, <1>4, <1>6 DEF CollatorBondExtra, CollatorLedgers
<1> HIDE DEF d, u
<1>9. d.total <= MaxTotal
  BY DEF d
<1>10. CollatorOK(d, next)
  BY <1>3, <1>4, <1>7, <1>8, <1>9, Bounds DEF CollatorOK, IsActive
<1> QED BY <1>7, <1>10 DEF d

\* The fields of a collator's record.
CollatorTyped(c) ==
  /\ c.total \in Balance /\ c.active \in Balance
  /\ c.unlocking \in Chunks /\ c.unbonding \in Chunks
  /\ c.nominations \in Bonds /\ c.status \in Status
  /\ c.total \in Nat /\ c.active \in Nat
  /\ Values(c.unlocking) \in Nat /\ Values(c.unbonding) \in Nat

\* A record in order has fields of the right types.
LEMMA CollatorFields ==
  ASSUME NEW next, NEW c, CollatorOK(c, next)
  PROVE  CollatorTyped(c)
<1>1. /\ c.total \in Balance /\ c.active \in Balance
      /\ c.unlocking \in Chunks /\ c.unbonding \in Chunks
      /\ c.nominations \in Bonds /\ c.status \in Status
  BY DEF CollatorOK, CollatorLedgers
<1> QED BY <1>1, Bounds, ChunksAre DEF CollatorTyped

\* bond_less
LEMMA BondLessOK ==
  ASSUME NEW next \in Nat, NEW c, CollatorOK(c, next), IsActive(c),
         NEW less \in 0 .. MaxStaked, NEW round \in Nat, CanBondLess(c, less)
  PROVE  /\ CollatorOK(CollatorBondLess(c, less, round), next)
         /\ CollatorBondLess(c, less, round).total = c.total
         /\ CollatorBondLess(c, less, round).nominations = c.nominations
<1> DEFINE d == CollatorBondLess(c, less, round)
           u == Append(c.unbonding, Chunk(less, round))
<1>0. CollatorTyped(c)
  BY CollatorFields
<1>1. c \in CollatorLedgers
  BY DEF CollatorOK
<1>2. less \in Balance /\ less \in Nat
  BY Bounds DEF Balance
<1>3. u \in Chunks /\ Values(u) = Values(c.unbonding) + less
  BY <1>2, <1>0, ChunkAppend DEF CollatorTyped
<1>4. c.active - less \in Balance /\ c.active - less >= MinCollatorStake
  BY <1>2, Bounds, <1>0 DEF CollatorTyped, CanBondLess, CollatorCanBondLess, Balance
<1>5. /\ d.total = c.total /\ d.active = c.active - less /\ d.unbonding = u
      /\ d.unlocking = c.unlocking /\ d.status = c.status
      /\ d.nominations = c.nominations
  BY <1>1 DEF CollatorBondLess, CollatorLedgers
<1>6. d \in CollatorLedgers
  BY <1>1, <1>3, <1>4 DEF CollatorBondLess, CollatorLedgers
<1> HIDE DEF d, u
<1>7. CollatorOK(d, next)
  BY <1>2, <1>3, <1>4, <1>5, <1>6, <1>0 DEF CollatorTyped, CollatorOK, IsActive
<1> QED BY <1>5, <1>7 DEF d

\* force_onboard: the bond that is not active yet is the whole bond.
LEMMA ForceBondOK ==
  ASSUME NEW next \in Nat, NEW c, CollatorOK(c, next), ~ IsActive(c)
  PROVE  /\ CollatorOK(ForceBond(c), next)
         /\ ForceBond(c).total = c.total
         /\ ForceBond(c).nominations = c.nominations
<1> DEFINE d == ForceBond(c)
<1>0. CollatorTyped(c)
  BY CollatorFields
<1>1. c \in CollatorLedgers
  BY DEF CollatorOK
<1>2. <<>> \in Chunks
  BY DEF Chunks
<1>3. /\ d.total = c.total /\ d.active = c.total /\ d.unbonding = c.unbonding
      /\ d.unlocking = <<>> /\ d.status = "Active"
      /\ d.nominations = c.nominations
  BY <1>1 DEF ForceBond, CollatorLedgers
<1>4. d \in CollatorLedgers
  BY <1>1, <1>2, <1>0 DEF CollatorTyped, ForceBond, CollatorLedgers, Status
<1> HIDE DEF d
<1>5. CollatorOK(d, next)
  BY <1>3, <1>4, ValuesEmpty, <1>0 DEF CollatorTyped, CollatorOK, IsActive
<1> QED BY <1>3, <1>5 DEF d

\* A change of a collator's list of nominators leaves its own bond alone.
LEMMA NominationsOK ==
  ASSUME NEW next, NEW c, CollatorOK(c, next), NEW bonds \in Bonds
  PROVE  /\ CollatorOK([c EXCEPT !.nominations = bonds], next)
         /\ [c EXCEPT !.nominations = bonds].total = c.total
         /\ [c EXCEPT !.nominations = bonds].nominations = bonds
<1> DEFINE d == [c EXCEPT !.nominations = bonds]
<1>1. c \in CollatorLedgers
  BY DEF CollatorOK
<1>2. /\ d.total = c.total /\ d.active = c.active /\ d.unbonding = c.unbonding
      /\ d.unlocking = c.unlocking /\ d.status = c.status
      /\ d.nominations = bonds
  BY <1>1 DEF CollatorLedgers
<1>3. d \in CollatorLedgers
  BY <1>1 DEF CollatorLedgers
<1> HIDE DEF d
<1>4. CollatorOK(d, next)
  BY <1>2, <1>3 DEF CollatorOK, IsActive
<1> QED BY <1>2, <1>4 DEF d

\* What a consolidation does to a list of chunks.
LEMMA Consolidated ==
  ASSUME NEW s \in Chunks, NEW round \in Nat
  PROVE  /\ Pending(s, round) \in Chunks /\ Matured(s, round) \in Chunks
         /\ Values(s) = Values(Pending(s, round)) + Values(Matured(s, round))
         /\ Values(Pending(s, round)) \in Nat
         /\ Values(Matured(s, round)) \in Nat
         /\ \A i \in DOMAIN Pending(s, round) :
              Pending(s, round)[i].round > round
         /\ (\A i \in DOMAIN s : s[i].round <= round) =>
              Pending(s, round) = <<>>
<1>1. s \in Seq(ChunkOf(Balance)) /\ Balance \in SUBSET Nat
  BY ChunksAre, Bounds
<1>2. /\ Pending(s, round) \in Seq(ChunkOf(Balance))
      /\ Matured(s, round) \in Seq(ChunkOf(Balance))
      /\ Values(s) = Values(Pending(s, round)) + Values(Matured(s, round))
      /\ \A i \in DOMAIN Pending(s, round) :
           Pending(s, round)[i].round > round
  BY <1>1, ConsolidationSplit
<1>3. /\ Pending(s, round) \in Chunks /\ Matured(s, round) \in Chunks
      /\ Values(Pending(s, round)) \in Nat
      /\ Values(Matured(s, round)) \in Nat
  BY <1>2, ChunksAre
<1>4. ASSUME \A i \in DOMAIN s : s[i].round <= round
      PROVE  Pending(s, round) = <<>>
  <2> DEFINE I == {i \in DOMAIN s : s[i].round > round}
             p == Pending(s, round)
  <2>1. I = {}
    <3>1. \A i \in DOMAIN s : s[i].round \in Nat
      <4>1. \A i \in DOMAIN s : s[i] \in ChunkOf(Balance)
        BY <1>1
      <4> QED BY <4>1 DEF ChunkOf
    <3> QED BY <1>4, <3>1
  <2>2. p = Kept(s, I)
    BY DEF Pending
  <2> HIDE DEF I, p
  <2>3. \A j \in DOMAIN p : \E i \in DOMAIN s : i \in I /\ p[j] = s[i]
    BY <1>1, <2>2, KeptElements
  <2>4. p \in Seq(ChunkOf(Balance))
    BY <1>2 DEF p
  <2>5. DOMAIN p = {}
    BY <2>1, <2>3
  <2>6. p = <<>>
    BY <2>4, <2>5
  <2> QED BY <2>6 DEF p
<1> QED BY <1>2, <1>3, <1>4

\* update_collators: the round that starts is the one the onboarding bonds
\* wait for, nothing wraps, and only released bond leaves the total.
LEMMA UpdateCollatorOK ==
  ASSUME NEW round \in Nat, NEW c, CollatorOK(c, round)
  PROVE  /\ CollatorOK(UpdateCollator(c, round), round + 1)
         /\ IsActive(UpdateCollator(c, round))
         /\ UpdateCollator(c, round).total
              + Values(Matured(c.unbonding, round)) = c.total
         /\ UpdateCollator(c, round).nominations = c.nominations
         /\ UpdateCollator(c, round).unlocking = Pending(c.unlocking, round)
         /\ UpdateCollator(c, round).unbonding = Pending(c.unbonding, round)
         /\ Values(Matured(c.unbonding, round)) \in Nat
<1> DEFINE u == Matured(c.unlocking, round)
           w == Matured(c.unbonding, round)
           b == ActiveOnboard(c)
           d == ConsolidateActive(b, round)
           e == ConsolidateUnbonded(d, round)
<1>0. CollatorTyped(c)
  BY CollatorFields
<1>1. c \in CollatorLedgers
  BY DEF CollatorOK
<1>2. /\ Pending(c.unlocking, round) \in Chunks
      /\ Values(c.unlocking) = Values(Pending(c.unlocking, round)) + Values(u)
      /\ Values(Pending(c.unlocking, round)) \in Nat /\ Values(u) \in Nat
  BY <1>0, Consolidated DEF CollatorTyped
<1>3. /\ Pending(c.unbonding, round) \in Chunks
      /\ Values(c.unbonding) = Values(Pending(c.unbonding, round)) + Values(w)
      /\ Values(Pending(c.unbonding, round)) \in Nat /\ Values(w) \in Nat
  BY <1>0, Consolidated DEF CollatorTyped
<1>4. Plus(c.active, Values(u)) = c.active + Values(u)
  <2>1. c.active + Values(u) <= c.total
    BY <1>2, <1>0 DEF CollatorTyped, CollatorOK
  <2>2. c.active + Values(u) < BalanceModulus
    BY <1>2, <2>1, <1>0, Bounds DEF CollatorTyped, CollatorOK
  <2> QED BY <1>2, <2>2, <1>0, Arithmetic DEF CollatorTyped
<1>5. Minus(c.total, Values(w)) = c.total - Values(w)
  <2>1. Values(w) <= c.total
    BY <1>3, <1>0 DEF CollatorTyped, CollatorOK
  <2> QED BY <1>3, <2>1, <1>0, Arithmetic DEF CollatorTyped
<1>6. Plus(c.active, Values(u)) \in Balance /\ Minus(c.total, Values(w)) \in Balance
  BY <1>2, <1>3, <1>0, Arithmetic DEF CollatorTyped
<1>7. b = [c EXCEPT !.status = "Active"]
  BY <1>1 DEF ActiveOnboard, CollatorLedgers, Status
<1>8. b \in CollatorLedgers /\ b.status = "Active" /\ b.total = c.total
      /\ b.active = c.active /\ b.unlocking = c.unlocking
      /\ b.unbonding = c.unbonding /\ b.nominations = c.nominations
  BY <1>1, <1>7 DEF CollatorLedgers, Status
<1> HIDE DEF b, u, w
<1>9. d = [b EXCEPT !.active = Plus(c.active, Values(u)),
                    !.unlocking = Pending(c.unlocking, round)]
  BY <1>8 DEF ConsolidateActive, u
<1>10. d \in CollatorLedgers /\ d.status = "Active" /\ d.total = c.total
       /\ d.active = c.active + Values(u)
       /\ d.unlocking = Pending(c.unlocking, round)
       /\ d.unbonding = c.unbonding /\ d.nominations = c.nominations
  BY <1>2, <1>4, <1>6, <1>8, <1>9 DEF CollatorLedgers
<1> HIDE DEF d
<1>11. e = [d EXCEPT !.total = Minus(c.total, Values(w)),
                     !.unbonding = Pending(c.unbonding, round)]
  BY <1>10 DEF ConsolidateUnbonded, w
<1>12. e \in CollatorLedgers /\ e.status = "Active"
       /\ e.total = c.total - Values(w)
       /\ e.active = c.active + Values(u)
       /\ e.unlocking = Pending(c.unlocking, round)
       /\ e.unbonding = Pending(c.unbonding, round)
       /\ e.nominations = c.nominations
  BY <1>3, <1>5, <1>6, <1>10, <1>11 DEF CollatorLedgers
<1> HIDE DEF e
<1>13. c.active + Values(u) >= MinCollatorStake
  <2>1. CASE IsActive(c)
    BY <1>2, <2>1, <1>0, Bounds DEF CollatorTyped, CollatorOK
  <2>2. CASE ~ IsActive(c)
    <3>1. Pending(c.unlocking, round) = <<>>
      BY <2>2, <1>0, Consolidated DEF CollatorTyped, CollatorOK
    <3>2. c.active = 0 /\ Values(c.unbonding) = 0
          /\ c.total = Values(c.unlocking) /\ c.total >= MinCollatorStake
      BY <2>2, ValuesEmpty, <1>0 DEF CollatorTyped, CollatorOK
    <3> QED BY <1>2, <3>1, <3>2, ValuesEmpty
  <2> QED BY <2>1, <2>2
<1>14. CollatorOK(e, round + 1)
  <2>1. /\ c.total = c.active + Values(c.unlocking) + Values(c.unbonding)
        /\ c.total <= MaxStaked
    BY DEF CollatorOK
  <2>2. /\ e.total = e.active + Values(e.unlocking) + Values(e.unbonding)
        /\ e.total <= MaxStaked
    BY <1>0, <1>2, <1>3, <1>12, <2>1, Bounds DEF CollatorTyped
  <2>3. IsActive(e) /\ e.active >= MinCollatorStake
    BY <1>12, <1>13 DEF IsActive
  <2> QED BY <1>12, <2>2, <2>3 DEF CollatorOK
<1>15. UpdateCollator(c, round) = e
  BY DEF UpdateCollator, b, d, e
<1> QED BY <1>3, <1>12, <1>14, <1>15, <1>0 DEF CollatorTyped, IsActive, w

-----------------------------------------------------------------------------
\* The fields of a nominator's record.
NominatorTyped(n) ==
  /\ n.total \in Balance /\ n.unbonding \in Chunks /\ n.nominations \in Bonds
  /\ n.total \in Nat /\ Values(n.unbonding) \in Nat
  /\ Amounts(n.nominations) \in Nat

\* A record in order has fields of the right types.
LEMMA NominatorFields ==
  ASSUME NEW n, NominatorOK(n)
  PROVE  NominatorTyped(n)
<1>1. n.total \in Balance /\ n.unbonding \in Chunks /\ n.nominations \in Bonds
  BY DEF NominatorOK, NominatorLedgers
<1> QED BY <1>1, Bounds, ChunksAre, BondsAre DEF NominatorTyped

\* Appending a bond to a list.
LEMMA BondAppend ==
  ASSUME NEW s \in Bonds, NEW a \in AccountIds, NEW v \in Balance
  PROVE  /\ Append(s, [owner |-> a, amount |-> v]) \in Bonds
         /\ Amounts(Append(s, [owner |-> a, amount |-> v])) = Amounts(s) + v
         /\ Owners(Append(s, [owner |-> a, amount |-> v])) = Owners(s) \cup {a}
<1> DEFINE b == [owner |-> a, amount |-> v]
<1>1. /\ s \in Seq(NatBond) /\ s \in Seq(BondOf(AccountIds, Balance))
      /\ b \in NatBond /\ b \in BondOf(AccountIds, Balance)
  BY BondsAre
<1>2. b.owner = a /\ b.amount = v
  OBVIOUS
<1> HIDE DEF b
<1>3. Append(s, b) \in Bonds
  BY <1>1, BondsAre
<1>4. /\ Amounts(Append(s, b)) = Amounts(s) + b.amount
      /\ Owners(Append(s, b)) = Owners(s) \cup {b.owner}
  BY <1>1, AmountsAppend
<1> QED BY <1>2, <1>3, <1>4 DEF b

\* A nominator's first nomination.
LEMMA NewNominatorOK ==
  ASSUME NEW a \in AccountIds, NEW v \in Balance,
         NewNominator([owner |-> a, amount |-> v]).total <= MaxTotal
  PROVE  /\ NominatorOK(NewNominator([owner |-> a, amount |-> v]))
         /\ NewNominator([owner |-> a, amount |-> v]).total = v
         /\ Owners(NewNominator([owner |-> a, amount |-> v]).nominations) = {a}
<1> DEFINE b == [owner |-> a, amount |-> v]
           n == NewNominator(b)
<1>1. <<>> \in Bonds /\ <<>> \in Chunks
  BY DEF Bonds, Chunks
<1>2. Append(<<>>, b) = <<b>> /\ Owners(<<>>) = {}
  BY DEF Owners
<1>3. /\ Append(<<>>, b) \in Bonds
      /\ Amounts(Append(<<>>, b)) = Amounts(<<>>) + v
      /\ Owners(Append(<<>>, b)) = Owners(<<>>) \cup {a}
  BY <1>1, BondAppend
<1>4. <<b>> \in Bonds /\ Amounts(<<b>>) = v /\ Owners(<<b>>) = {a}
  BY <1>2, <1>3, AmountsEmpty, Bounds
<1>5. n.total = v /\ n.nominations = <<b>> /\ n.unbonding = <<>>
  BY DEF NewNominator
<1>6. n \in NominatorLedgers
  BY <1>1, <1>4 DEF NewNominator, NominatorLedgers
<1> HIDE DEF n
<1>7. n.total <= MaxTotal
  BY DEF n
<1>8. v \in Nat
  BY Bounds
<1>9. NominatorOK(n)
  BY <1>4, <1>5, <1>6, <1>7, <1>8, ValuesEmpty DEF NominatorOK
<1> QED BY <1>4, <1>5, <1>9 DEF n

\* add_nomination
LEMMA NominatorAddOK ==
  ASSUME NEW n, NominatorOK(n), NEW a \in AccountIds, NEW v \in 0 .. MaxStaked,
         NominatorAdd(n, [owner |-> a, amount |-> v]).total <= MaxTotal
  PROVE  /\ NominatorOK(NominatorAdd(n, [owner |-> a, amount |-> v]))
         /\ NominatorAdd(n, [owner |-> a, amount |-> v]).total = n.total + v
         /\ Owners(NominatorAdd(n, [owner |-> a, amount |-> v]).nominations)
              = Owners(n.nominations) \cup {a}
<1> DEFINE b == [owner |-> a, amount |-> v]
           m == NominatorAdd(n, b)
           s == Append(n.nominations, b)
<1>1. n \in NominatorLedgers
  BY DEF NominatorOK
<1>2. NominatorTyped(n)
  BY NominatorFields
<1>3. v \in Balance /\ v \in Nat
  BY Bounds DEF Balance
<1>4. /\ s \in Bonds /\ Amounts(s) = Amounts(n.nominations) + v
      /\ Owners(s) = Owners(n.nominations) \cup {a}
  BY <1>2, <1>3, BondAppend DEF NominatorTyped
<1>5. Plus(n.total, v) = n.total + v /\ Plus(n.total, v) \in Balance
  BY <1>2, <1>3, Arithmetic, Bounds DEF NominatorOK, NominatorTyped
<1>6. m.total = n.total + v /\ m.nominations = s /\ m.unbonding = n.unbonding
  BY <1>1, <1>5 DEF NominatorAdd, NominatorLedgers
<1>7. m \in NominatorLedgers
  BY <1>1, <1>4, <1>5 DEF NominatorAdd, NominatorLedgers
<1> HIDE DEF m, s, b
<1>8. m.total <= MaxTotal
  BY DEF m, b
<1>9. m.total >= Amounts(m.nominations) + Values(m.unbonding)
  BY <1>2, <1>3, <1>4, <1>6 DEF NominatorOK, NominatorTyped
<1>10. NominatorOK(m)
  BY <1>7, <1>8, <1>9 DEF NominatorOK
<1> QED BY <1>4, <1>6, <1>10 DEF m, b

\* What the lists' operations do to a list of the pallet's bonds.
LEMMA BondsRaised ==
  ASSUME NEW s \in Bonds, NEW a \in Owners(s), NEW v \in Nat
  PROVE  /\ RaiseFirst(s, a, v) \in Bonds
         /\ Owners(RaiseFirst(s, a, v)) = Owners(s)
         /\ Amounts(RaiseFirst(s, a, v)) <= Amounts(s) + v
<1>1. s \in Seq(BondOf(AccountIds, 0 .. BalanceModulus - 1))
      /\ AccountIds \in SUBSET Nat
  BY BondsAre, StakingAssumption DEF Balance
<1>2. /\ RaiseFirst(s, a, v) \in Seq(BondOf(AccountIds, 0 .. BalanceModulus - 1))
      /\ Owners(RaiseFirst(s, a, v)) = Owners(s)
      /\ Amounts(RaiseFirst(s, a, v)) <= Amounts(s) + v
  BY <1>1, Raised
<1> QED BY <1>2, BondsAre DEF Balance

\* nominate_less takes the amount off the list.
LEMMA BondsLowered ==
  ASSUME NEW s \in Bonds, NEW a, NEW v \in Nat, CanLowerFirst(s, a, v)
  PROVE  /\ LowerFirst(s, a, v) \in Bonds
         /\ Owners(LowerFirst(s, a, v)) = Owners(s)
         /\ Amounts(LowerFirst(s, a, v)) + v = Amounts(s)
         /\ v \in Balance
<1>1. s \in Seq(BondOf(AccountIds, 0 .. BalanceModulus - 1))
      /\ AccountIds \in SUBSET Nat
  BY BondsAre, StakingAssumption DEF Balance
<1>2. /\ LowerFirst(s, a, v) \in Seq(BondOf(AccountIds, 0 .. BalanceModulus - 1))
      /\ Owners(LowerFirst(s, a, v)) = Owners(s)
      /\ Amounts(LowerFirst(s, a, v)) + v = Amounts(s)
      /\ v \in 0 .. BalanceModulus - 1
  BY <1>1, Lowered
<1> QED BY <1>2, BondsAre DEF Balance

\* What rm_nomination drops, and what collator_unbond pays back.
LEMMA BondsDropped ==
  ASSUME NEW s \in Bonds, NEW a
  PROVE  /\ WithoutOwner(s, a) \in Bonds /\ OfOwner(s, a) \in Bonds
         /\ Amounts(s) = Amounts(WithoutOwner(s, a)) + Amounts(OfOwner(s, a))
         /\ Owners(WithoutOwner(s, a)) = Owners(s) \ {a}
         /\ a \in Owners(s) =>
              /\ Last(OfOwner(s, a)).amount \in Balance
              /\ Last(OfOwner(s, a)).amount <= Amounts(OfOwner(s, a))
         /\ a \notin Owners(s) => Amounts(OfOwner(s, a)) = 0
<1>1. s \in Seq(BondOf(AccountIds, Balance)) /\ AccountIds \in SUBSET Nat
      /\ Balance \in SUBSET Nat
  BY BondsAre, StakingAssumption, Bounds
<1>2. WithoutOwner(s, a) \in Bonds /\ OfOwner(s, a) \in Bonds
  BY <1>1, OwnerSplit, BondsAre
<1>3. /\ Amounts(s) = Amounts(WithoutOwner(s, a)) + Amounts(OfOwner(s, a))
      /\ Owners(WithoutOwner(s, a)) = Owners(s) \ {a}
  <2>1. SplitsOff(s, a)
    BY <1>1, OwnerSplit
  <2> QED BY <2>1 DEF SplitsOff
<1>4. a \in Owners(s) =>
        /\ Last(OfOwner(s, a)).amount \in Balance
        /\ Last(OfOwner(s, a)).amount <= Amounts(OfOwner(s, a))
  BY <1>1, LastOfOwner
<1>5. ASSUME a \notin Owners(s) PROVE Amounts(OfOwner(s, a)) = 0
  <2> DEFINE J == {i \in DOMAIN s : s[i].owner = a}
             p == OfOwner(s, a)
  <2>1. J = {}
    BY <1>5 DEF Owners
  <2>2. p = Kept(s, J)
    BY DEF OfOwner
  <2>3. p \in Seq(BondOf(AccountIds, Balance))
    BY <1>2, BondsAre
  <2> HIDE DEF J, p
  <2>4. \A j \in DOMAIN p : \E i \in DOMAIN s : i \in J /\ p[j] = s[i]
    BY <1>1, <2>2, KeptElements
  <2>5. DOMAIN p = {}
    BY <2>1, <2>4
  <2>6. p = <<>>
    BY <2>3, <2>5
  <2> QED BY <2>6, AmountsEmpty DEF p
<1> QED BY <1>2, <1>3, <1>4, <1>5

\* nominate_extra
LEMMA NominatorExtraOK ==
  ASSUME NEW n, NominatorOK(n), NEW a \in Owners(n.nominations),
         NEW v \in 0 .. MaxStaked, NominatorExtra(n, a, v).total <= MaxTotal
  PROVE  /\ NominatorOK(NominatorExtra(n, a, v))
         /\ NominatorExtra(n, a, v).total = n.total + v
         /\ Owners(NominatorExtra(n, a, v).nominations) = Owners(n.nominations)
<1> DEFINE m == NominatorExtra(n, a, v)
           s == RaiseFirst(n.nominations, a, v)
<1>1. n \in NominatorLedgers
  BY DEF NominatorOK
<1>2. NominatorTyped(n)
  BY NominatorFields
<1>3. v \in Balance /\ v \in Nat
  BY Bounds DEF Balance
<1>4. /\ s \in Bonds /\ Amounts(s) <= Amounts(n.nominations) + v
      /\ Owners(s) = Owners(n.nominations) /\ Amounts(s) \in Nat
  BY <1>2, <1>3, BondsRaised, BondsAre DEF NominatorTyped
<1>5. Plus(n.total, v) = n.total + v /\ Plus(n.total, v) \in Balance
  BY <1>2, <1>3, Arithmetic, Bounds DEF NominatorOK, NominatorTyped
<1>6. m.total = n.total + v /\ m.nominations = s /\ m.unbonding = n.unbonding
  BY <1>1, <1>5 DEF NominatorExtra, NominatorLedgers
<1>7. m \in NominatorLedgers
  BY <1>1, <1>4, <1>5 DEF NominatorExtra, NominatorLedgers
<1> HIDE DEF m, s
<1>8. m.total <= MaxTotal
  BY DEF m
<1>9. m.total >= Amounts(m.nominations) + Values(m.unbonding)
  BY <1>2, <1>3, <1>4, <1>6 DEF NominatorOK, NominatorTyped
<1>10. NominatorOK(m)
  BY <1>7, <1>8, <1>9 DEF NominatorOK
<1> QED BY <1>4, <1>6, <1>10 DEF m

\* nominate_less
LEMMA NominatorLessOK ==
  ASSUME NEW n, NominatorOK(n), NEW a, NEW v \in Nat, NEW round \in Nat,
         CanLowerFirst(n.nominations, a, v)
  PROVE  /\ NominatorOK(NominatorLess(n, a, v, round))
         /\ NominatorLess(n, a, v, round).total = n.total
         /\ Owners(NominatorLess(n, a, v, round).nominations)
              = Owners(n.nominations)
<1> DEFINE m == NominatorLess(n, a, v, round)
           s == LowerFirst(n.nominations, a, v)
           u == Append(n.unbonding, Chunk(v, round))
<1>1. n \in NominatorLedgers
  BY DEF NominatorOK
<1>2. NominatorTyped(n)
  BY NominatorFields
<1>3. /\ s \in Bonds /\ Amounts(s) + v = Amounts(n.nominations)
      /\ Owners(s) = Owners(n.nominations) /\ v \in Balance /\ Amounts(s) \in Nat
  BY <1>2, BondsLowered, BondsAre DEF NominatorTyped
<1>4. u \in Chunks /\ Values(u) = Values(n.unbonding) + v
  BY <1>2, <1>3, ChunkAppend DEF NominatorTyped
<1>5. m.total = n.total /\ m.nominations = s /\ m.unbonding = u
  BY <1>1 DEF NominatorLess, NominatorLedgers
<1>6. m \in NominatorLedgers
  BY <1>1, <1>3, <1>4 DEF NominatorLess, NominatorLedgers
<1> HIDE DEF m, s, u
<1>7. m.total >= Amounts(m.nominations) + Values(m.unbonding)
  BY <1>2, <1>3, <1>4, <1>5 DEF NominatorOK, NominatorTyped
<1>8. NominatorOK(m)
  BY <1>5, <1>6, <1>7 DEF NominatorOK
<1> QED BY <1>3, <1>5, <1>8 DEF m

\* rm_nomination: at most what is dropped starts unbonding.
LEMMA NominatorRemoveOK ==
  ASSUME NEW n, NominatorOK(n), NEW a \in Owners(n.nominations),
         NEW round \in Nat
  PROVE  /\ NominatorOK(NominatorRemove(n, a, round))
         /\ NominatorRemove(n, a, round).total = n.total
         /\ Owners(NominatorRemove(n, a, round).nominations)
              = Owners(n.nominations) \ {a}
<1> DEFINE m == NominatorRemove(n, a, round)
           s == WithoutOwner(n.nominations, a)
           o == OfOwner(n.nominations, a)
           v == Last(o).amount
           u == Append(n.unbonding, Chunk(v, round))
<1>1. n \in NominatorLedgers
  BY DEF NominatorOK
<1>2. NominatorTyped(n)
  BY NominatorFields
<1>3. n.nominations \in Bonds
  BY <1>2 DEF NominatorTyped
<1>4. /\ s \in Bonds /\ o \in Bonds
      /\ Amounts(n.nominations) = Amounts(s) + Amounts(o)
      /\ Owners(s) = Owners(n.nominations) \ {a}
      /\ Amounts(s) \in Nat /\ Amounts(o) \in Nat
  BY <1>3, BondsDropped, BondsAre
<1>5. v \in Balance /\ v \in Nat /\ v <= Amounts(o)
  BY <1>3, BondsDropped, Bounds
<1>6. u \in Chunks /\ Values(u) = Values(n.unbonding) + v
  BY <1>2, <1>5, ChunkAppend DEF NominatorTyped
<1>7. m.total = n.total /\ m.nominations = s /\ m.unbonding = u
  BY <1>1 DEF NominatorRemove, NominatorLedgers
<1>8. m \in NominatorLedgers
  BY <1>1, <1>4, <1>6 DEF NominatorRemove, NominatorLedgers
<1> HIDE DEF m, s, o, v, u
<1>9. m.total >= Amounts(m.nominations) + Values(m.unbonding)
  BY <1>2, <1>4, <1>5, <1>6, <1>7 DEF NominatorOK, NominatorTyped
<1>10. NominatorOK(m)
  BY <1>7, <1>8, <1>9 DEF NominatorOK
<1> QED BY <1>4, <1>7, <1>10 DEF m

\* update_nominators: the total falls by what is released, and nothing wraps.
LEMMA UpdateNominatorOK ==
  ASSUME NEW n, NominatorOK(n), NEW round \in Nat
  PROVE  /\ NominatorOK(UpdateNominator(n, round))
         /\ UpdateNominator(n, round).total
              + Values(Matured(n.unbonding, round)) = n.total
         /\ UpdateNominator(n, round).nominations = n.nominations
         /\ UpdateNominator(n, round).unbonding = Pending(n.unbonding, round)
         /\ Values(Matured(n.unbonding, round)) \in Nat
<1> DEFINE m == UpdateNominator(n, round)
           u == Pending(n.unbonding, round)
           w == Matured(n.unbonding, round)
<1>1. n \in NominatorLedgers
  BY DEF NominatorOK
<1>2. NominatorTyped(n)
  BY NominatorFields
<1>3. /\ u \in Chunks /\ Values(n.unbonding) = Values(u) + Values(w)
      /\ Values(u) \in Nat /\ Values(w) \in Nat
  BY <1>2, Consolidated DEF NominatorTyped
<1>4. Values(w) <= n.total
  BY <1>2, <1>3 DEF NominatorOK, NominatorTyped
<1>5. Minus(n.total, Values(w)) = n.total - Values(w)
      /\ Minus(n.total, Values(w)) \in Balance
  BY <1>2, <1>3, <1>4, Arithmetic DEF NominatorTyped
<1>6. m.total = n.total - Values(w) /\ m.nominations = n.nominations
      /\ m.unbonding = u
  BY <1>1, <1>5 DEF UpdateNominator, ConsolidateUnbonded, NominatorLedgers
<1>7. m \in NominatorLedgers
  BY <1>1, <1>3, <1>5 DEF UpdateNominator, ConsolidateUnbonded, NominatorLedgers
<1> HIDE DEF m, u, w
<1>8. m.total >= Amounts(m.nominations) + Values(m.unbonding)
      /\ m.total <= MaxTotal
  BY <1>2, <1>3, <1>6, Bounds DEF NominatorOK, NominatorTyped
<1>9. NominatorOK(m)
  BY <1>7, <1>8 DEF NominatorOK
<1> QED BY <1>2, <1>3, <1>6, <1>9 DEF m, u, w, NominatorTyped

-----------------------------------------------------------------------------
(* One exit.                                                               *)

\* What an entry of the exit queue is still owed.
Leaving(e) == e.remaining + Values(e.unbonding)

\* The fields of an entry of the exit queue.
LEMMA LeavingFields ==
  ASSUME NEW e \in Leavings
  PROVE  /\ e.remaining \in Nat /\ e.unbonding \in Chunks /\ e.when \in Nat
         /\ Values(e.unbonding) \in Nat /\ Leaving(e) \in Nat
<1>1. e.remaining \in Nat /\ e.unbonding \in Chunks /\ e.when \in Nat
  BY Bounds DEF Leavings
<1> QED BY <1>1, ChunksAre DEF Leaving

\* execute_exit_queue releases what the entry loses, and takes no more than
\* that off TotalStaked.
LEMMA ExitFacts ==
  ASSUME NEW e \in Leavings, NEW round \in Nat
  PROVE  /\ ExitRelease(e, round) \in Nat /\ ExitUnstake(e, round) \in Nat
         /\ ExitUnstake(e, round) <= ExitRelease(e, round)
         /\ ExitDue(e, round) => ExitRelease(e, round) = Leaving(e)
<1> DEFINE w == Matured(e.unbonding, round)
<1>1. /\ w \in Chunks /\ Values(w) \in Nat /\ e.unbonding \in Chunks
      /\ Values(e.unbonding) \in Nat /\ e.remaining \in Nat
  BY LeavingFields, Consolidated
<1>2. /\ w # <<>> => Last(w).value <= Values(w) /\ Last(w).value \in Nat
      /\ e.unbonding # <<>> => /\ Last(e.unbonding).value <= Values(e.unbonding)
                               /\ Last(e.unbonding).value \in Nat
  BY <1>1, ChunksAre, ValuesFacts
<1> HIDE DEF w
<1>3. CASE ExitDue(e, round)
  <2>1. ExitRelease(e, round) = Leaving(e)
    BY <1>3 DEF ExitRelease, Leaving
  <2>2. ExitUnstake(e, round) = IF e.unbonding # <<>> THEN Last(e.unbonding).value
                                                      ELSE e.remaining
    BY <1>3 DEF ExitUnstake
  <2> QED BY <1>1, <1>2, <2>1, <2>2 DEF Leaving
<1>4. CASE ~ ExitDue(e, round)
  <2>1. ExitRelease(e, round) = Values(w)
    BY <1>4 DEF ExitRelease, w
  <2>2. ExitUnstake(e, round) = IF w # <<>> THEN Last(w).value ELSE 0
    BY <1>4 DEF ExitUnstake, w
  <2> QED BY <1>1, <1>2, <1>4, <2>1, <2>2
<1> QED BY <1>3, <1>4

\* An entry that stays in the queue.
LEMMA ExitStays ==
  ASSUME NEW e \in Leavings, NEW round \in Nat, ~ ExitDue(e, round)
  PROVE  LET f == [e EXCEPT !.unbonding = Pending(e.unbonding, round)]
         IN  /\ f \in Leavings
             /\ Leaving(f) + ExitRelease(e, round) = Leaving(e)
             /\ f.when = e.when /\ f.unbonding = Pending(e.unbonding, round)
<1> DEFINE w == Matured(e.unbonding, round)
           p == Pending(e.unbonding, round)
           f == [e EXCEPT !.unbonding = p]
<1>1. e.unbonding \in Chunks /\ e.remaining \in Nat
  BY LeavingFields
<1>2. /\ p \in Chunks /\ Values(e.unbonding) = Values(p) + Values(w)
      /\ Values(p) \in Nat /\ Values(w) \in Nat
  BY <1>1, Consolidated
<1>3. ExitRelease(e, round) = Values(w)
  BY DEF ExitRelease
<1> HIDE DEF p, w
<1>4. f.when = e.when /\ f.unbonding = p /\ f.remaining = e.remaining
  BY DEF Leavings
<1>5. f \in Leavings
  BY <1>2 DEF Leavings
<1> HIDE DEF f
<1>6. Leaving(f) + ExitRelease(e, round) = Leaving(e)
  BY <1>1, <1>2, <1>3, <1>4 DEF Leaving
<1> QED BY <1>4, <1>5, <1>6 DEF f, p

-----------------------------------------------------------------------------
(* The inductive invariant.                                                *)

\* Everything but the ledgers has its type.
StateTyped ==
  /\ accounts \in [AccountIds -> AccountData]
  /\ block \in Nat
  /\ currentRound \in [index : Nat, start_in : Nat, length : Nat]
  /\ totalStaked \in Balance
  /\ totalStakedAt \in [1 .. currentRound.index -> Balance]
  /\ DOMAIN exposures \subseteq Nat \X AccountIds
  /\ exposures \in [DOMAIN exposures -> SUBSET AccountIds]
  /\ settings \in SettingStruct
  /\ unfunded \in [AccountIds -> Nat]
  /\ overdrawn \subseteq AccountIds

\* Every collator's record is in order, for the round in progress.
CollatorsOK ==
  /\ DOMAIN collators \subseteq AccountIds
  /\ collators = [a \in DOMAIN collators |-> collators[a]]
  /\ \A a \in DOMAIN collators : CollatorOK(collators[a], NextRoundIndex)

\* Every nominator's record is in order.
NominatorsOK ==
  /\ DOMAIN nominators \subseteq AccountIds
  /\ nominators = [a \in DOMAIN nominators |-> nominators[a]]
  /\ \A a \in DOMAIN nominators : NominatorOK(nominators[a])

\* Every entry of the exit queue has its type.
ExitsOK ==
  /\ DOMAIN exitQueue \subseteq AccountIds
  /\ exitQueue = [a \in DOMAIN exitQueue |-> exitQueue[a]]
  /\ \A a \in DOMAIN exitQueue : exitQueue[a] \in Leavings

\* What each collator, each nominator and each exit holds of the stake.
CollatorStake  == [a \in DOMAIN collators |-> collators[a].total]
NominatorStake == [a \in DOMAIN nominators |-> nominators[a].total]
LeavingStake   == [a \in DOMAIN exitQueue |-> Leaving(exitQueue[a])]

\* TotalStaked, and what nominate refused, cover every ledger and every exit.
StakeHeld ==
  totalStaked + SumFunction(unfunded) >=
    SumFunction(CollatorStake) + SumFunction(NominatorStake)
      + SumFunction(LeavingStake)

\* The inductive invariant of the ledgers.
LedgerInv ==
  /\ StateTyped /\ CollatorsOK /\ NominatorsOK /\ ExitsOK
  /\ NominationMirrored /\ StakeHeld /\ StakeBacked

\* The parts of it give the types of the storage.
LEMMA LedgerTypes == LedgerInv => TypeOK
<1> SUFFICES ASSUME LedgerInv PROVE TypeOK
  OBVIOUS
<1>1. collators \in [DOMAIN collators -> CollatorLedgers]
  BY DEF LedgerInv, CollatorsOK, CollatorOK
<1>2. nominators \in [DOMAIN nominators -> NominatorLedgers]
  BY DEF LedgerInv, NominatorsOK, NominatorOK
<1>3. exitQueue \in [DOMAIN exitQueue -> Leavings]
  BY DEF LedgerInv, ExitsOK
<1> QED BY <1>1, <1>2, <1>3 DEF TypeOK, LedgerInv, StateTyped, CollatorsOK,
                                NominatorsOK, ExitsOK

\* The round in progress, and what a call reads of it.
LEMMA RoundFacts ==
  ASSUME StateTyped
  PROVE  /\ currentRound.index \in Nat /\ NextRoundIndex \in Nat
         /\ WithdrawRound \in Nat /\ NextRoundIndex = currentRound.index + 1
BY DEF StateTyped, NextRoundIndex, WithdrawRound, SettingStruct

\* The numbers among the rest of the state.
LEMMA StateNumbers ==
  ASSUME StateTyped
  PROVE  /\ totalStaked \in Balance /\ totalStaked \in Nat
         /\ unfunded \in [AccountIds -> Nat]
BY Bounds DEF StateTyped

\* The sums range over finitely many accounts.
LEMMA StakeSums ==
  ASSUME StateTyped, CollatorsOK, NominatorsOK, ExitsOK
  PROVE  /\ SumFunction(CollatorStake) \in Nat
         /\ SumFunction(NominatorStake) \in Nat
         /\ SumFunction(LeavingStake) \in Nat
         /\ SumFunction(unfunded) \in Nat
         /\ totalStaked \in Nat
<1>1. /\ IsFiniteSet(DOMAIN collators) /\ IsFiniteSet(DOMAIN nominators)
      /\ IsFiniteSet(DOMAIN exitQueue) /\ IsFiniteSet(AccountIds)
  BY StakingAssumption, FS_Subset DEF CollatorsOK, NominatorsOK, ExitsOK
<1>2. /\ \A a \in DOMAIN collators : collators[a].total \in Nat
      /\ \A a \in DOMAIN nominators : nominators[a].total \in Nat
      /\ \A a \in DOMAIN exitQueue : Leaving(exitQueue[a]) \in Nat
  BY CollatorFields, NominatorFields, LeavingFields
     DEF CollatorsOK, NominatorsOK, ExitsOK, CollatorTyped, NominatorTyped
<1>3. SumFunction(CollatorStake) \in Nat
  BY <1>1, <1>2, SumOfNats DEF CollatorStake
<1>4. SumFunction(NominatorStake) \in Nat
  BY <1>1, <1>2, SumOfNats DEF NominatorStake
<1>5. SumFunction(LeavingStake) \in Nat
  BY <1>1, <1>2, SumOfNats DEF LeavingStake
<1>6. SumFunction(unfunded) \in Nat
  BY <1>1, SumOfNats DEF StateTyped
<1> QED BY <1>3, <1>4, <1>5, <1>6, Bounds DEF StateTyped

-----------------------------------------------------------------------------
(* Writing one record.                                                     *)

\* The total the map holds for a key, zero for an absent one.
HeldBy(m, a) == IF Has(m, a) THEN m[a].total ELSE 0

\* Writing a collator's record.
LEMMA InsertCollator ==
  ASSUME StateTyped, CollatorsOK, NEW a \in AccountIds, NEW c,
         CollatorOK(c, NextRoundIndex), UNCHANGED currentRound,
         collators' = MapInsert(collators, a, c)
  PROVE  /\ CollatorsOK'
         /\ SumFunction(CollatorStake') + HeldBy(collators, a)
              = SumFunction(CollatorStake) + c.total
         /\ SumFunction(CollatorStake') \in Nat
         /\ SumFunction(CollatorStake) \in Nat
         /\ HeldBy(collators, a) \in Nat /\ c.total \in Nat
<1> DEFINE f == CollatorStake
           g == CollatorStake'
<1>1. NextRoundIndex' = NextRoundIndex
  BY DEF NextRoundIndex
<1>2. /\ DOMAIN collators' = DOMAIN collators \cup {a} /\ collators'[a] = c
      /\ \A x \in DOMAIN collators : x # a => collators'[x] = collators[x]
      /\ collators' = [x \in DOMAIN collators' |-> collators'[x]]
  BY DEF MapInsert
<1>3. CollatorsOK'
  BY <1>1, <1>2 DEF CollatorsOK
<1>4. /\ \A x \in DOMAIN collators : collators[x].total \in Nat
      /\ c.total \in Nat
  BY CollatorFields DEF CollatorsOK, CollatorTyped
<1>5. IsFiniteSet(DOMAIN collators)
  BY StakingAssumption, FS_Subset DEF CollatorsOK
<1>6. /\ DOMAIN f = DOMAIN collators /\ DOMAIN g = DOMAIN f \cup {a}
      /\ g[a] = c.total /\ \A x \in DOMAIN f : f[x] \in Nat
      /\ \A x \in DOMAIN f : x # a => g[x] = f[x]
      /\ \A x \in DOMAIN f : f[x] = collators[x].total
  BY <1>2, <1>4 DEF CollatorStake
<1> HIDE DEF f, g
<1>7. /\ SumFunction(g) + (IF a \in DOMAIN f THEN f[a] ELSE 0)
           = SumFunction(f) + g[a]
      /\ SumFunction(g) \in Nat /\ SumFunction(f) \in Nat
  <2>1. IsFiniteSet(DOMAIN f) /\ g[a] \in Nat
    BY <1>4, <1>5, <1>6
  <2> QED BY ONLY <1>6, <2>1, SumPut
<1>8. HeldBy(collators, a) = (IF a \in DOMAIN f THEN f[a] ELSE 0)
      /\ HeldBy(collators, a) \in Nat
  BY <1>4, <1>6 DEF HeldBy, Has
<1> QED BY <1>3, <1>4, <1>6, <1>7, <1>8 DEF f, g

\* Writing a nominator's record.
LEMMA InsertNominator ==
  ASSUME NominatorsOK, NEW a \in AccountIds, NEW n, NominatorOK(n),
         nominators' = MapInsert(nominators, a, n)
  PROVE  /\ NominatorsOK'
         /\ SumFunction(NominatorStake') + HeldBy(nominators, a)
              = SumFunction(NominatorStake) + n.total
         /\ SumFunction(NominatorStake') \in Nat
         /\ SumFunction(NominatorStake) \in Nat
         /\ HeldBy(nominators, a) \in Nat /\ n.total \in Nat
<1> DEFINE f == NominatorStake
           g == NominatorStake'
<1>1. /\ DOMAIN nominators' = DOMAIN nominators \cup {a} /\ nominators'[a] = n
      /\ \A x \in DOMAIN nominators : x # a => nominators'[x] = nominators[x]
      /\ nominators' = [x \in DOMAIN nominators' |-> nominators'[x]]
  BY DEF MapInsert
<1>2. NominatorsOK'
  BY <1>1 DEF NominatorsOK
<1>3. /\ \A x \in DOMAIN nominators : nominators[x].total \in Nat
      /\ n.total \in Nat
  BY NominatorFields DEF NominatorsOK, NominatorTyped
<1>4. IsFiniteSet(DOMAIN nominators)
  BY StakingAssumption, FS_Subset DEF NominatorsOK
<1>5. /\ DOMAIN f = DOMAIN nominators /\ DOMAIN g = DOMAIN f \cup {a}
      /\ g[a] = n.total /\ \A x \in DOMAIN f : f[x] \in Nat
      /\ \A x \in DOMAIN f : x # a => g[x] = f[x]
      /\ \A x \in DOMAIN f : f[x] = nominators[x].total
  BY <1>1, <1>3 DEF NominatorStake
<1> HIDE DEF f, g
<1>6. /\ SumFunction(g) + (IF a \in DOMAIN f THEN f[a] ELSE 0)
           = SumFunction(f) + g[a]
      /\ SumFunction(g) \in Nat /\ SumFunction(f) \in Nat
  <2>1. IsFiniteSet(DOMAIN f) /\ g[a] \in Nat
    BY <1>3, <1>4, <1>5
  <2> QED BY ONLY <1>5, <2>1, SumPut
<1>7. HeldBy(nominators, a) = (IF a \in DOMAIN f THEN f[a] ELSE 0)
      /\ HeldBy(nominators, a) \in Nat
  BY <1>3, <1>5 DEF HeldBy, Has
<1> QED BY <1>2, <1>3, <1>5, <1>6, <1>7 DEF f, g

\* A change inside a record writes the changed record back.
LEMMA NominationsInsert ==
  ASSUME CollatorsOK, NEW a \in DOMAIN collators, NEW bonds
  PROVE  [collators EXCEPT ![a].nominations = bonds]
           = MapInsert(collators, a, [collators[a] EXCEPT !.nominations = bonds])
<1> DEFINE c == [collators[a] EXCEPT !.nominations = bonds]
<1>1. [collators EXCEPT ![a].nominations = bonds] = [collators EXCEPT ![a] = c]
  OBVIOUS
<1> HIDE DEF c
<1>2. DOMAIN collators \cup {a} = DOMAIN collators
  OBVIOUS
<1>3. [collators EXCEPT ![a] = c] = MapInsert(collators, a, c)
  BY <1>2 DEF MapInsert, CollatorsOK
<1> QED BY <1>1, <1>3 DEF c

\* A collator keeps its bond when its nominators change.
LEMMA ChangeNominations ==
  ASSUME StateTyped, CollatorsOK, NEW a \in DOMAIN collators, NEW bonds \in Bonds,
         UNCHANGED currentRound,
         collators' = [collators EXCEPT ![a].nominations = bonds]
  PROVE  /\ CollatorsOK'
         /\ SumFunction(CollatorStake') = SumFunction(CollatorStake)
         /\ DOMAIN collators' = DOMAIN collators
         /\ collators'[a].nominations = bonds
         /\ \A x \in DOMAIN collators : /\ collators'[x].total = collators[x].total
                                        /\ x # a => collators'[x] = collators[x]
<1> DEFINE c == [collators[a] EXCEPT !.nominations = bonds]
<1>1. CollatorOK(collators[a], NextRoundIndex) /\ a \in AccountIds
  BY DEF CollatorsOK
<1>2. /\ CollatorOK(c, NextRoundIndex) /\ c.total = collators[a].total
      /\ c.nominations = bonds
  BY <1>1, NominationsOK
<1> HIDE DEF c
<1>3. collators' = MapInsert(collators, a, c)
  BY NominationsInsert DEF c
<1>4. /\ CollatorsOK'
      /\ SumFunction(CollatorStake') + HeldBy(collators, a)
           = SumFunction(CollatorStake) + c.total
      /\ SumFunction(CollatorStake') \in Nat
      /\ SumFunction(CollatorStake) \in Nat
      /\ HeldBy(collators, a) \in Nat /\ c.total \in Nat
  BY <1>1, <1>2, <1>3, InsertCollator
<1>5. HeldBy(collators, a) = c.total
  BY <1>2 DEF HeldBy, Has
<1>6. SumFunction(CollatorStake') = SumFunction(CollatorStake)
  BY <1>4, <1>5
<1> QED BY <1>2, <1>3, <1>4, <1>6 DEF MapInsert

\* reserve, with its Result dropped.
LEMMA ReserveFacts ==
  ASSUME StateTyped, NEW who \in AccountIds, NEW amount \in Nat,
         Reserve(who, amount)
  PROVE  /\ accounts' \in [AccountIds -> AccountData]
         /\ overdrawn' \subseteq AccountIds /\ overdrawn \subseteq overdrawn'
         /\ \A a \in AccountIds : a # who => accounts'[a] = accounts[a]
         /\ who \notin overdrawn' =>
              accounts'[who].reserved = accounts[who].reserved + amount
         /\ \A a \in AccountIds : accounts[a].reserved \in Nat
<1>1. \A a \in AccountIds : accounts[a] \in AccountData
  BY DEF StateTyped
<1>2. ReserveOrNothing(accounts[who], amount) \in AccountData
  BY <1>1 DEF ReserveOrNothing, AccountData, CanReserve
<1>3. /\ accounts' \in [AccountIds -> AccountData]
      /\ accounts'[who] = ReserveOrNothing(accounts[who], amount)
      /\ \A a \in AccountIds : a # who => accounts'[a] = accounts[a]
  BY <1>2 DEF Reserve, StateTyped
<1>4. who \notin overdrawn' => CanReserve(accounts[who], amount)
  BY DEF Reserve
<1> QED BY <1>1, <1>3, <1>4 DEF Reserve, StateTyped, ReserveOrNothing, AccountData

\* TotalStaked grows by the amount, without wrapping.
LEMMA StakeFacts ==
  ASSUME StateTyped, NEW amount \in 0 .. MaxStaked, Stake(amount)
  PROVE  totalStaked' = totalStaked + amount /\ totalStaked' \in Balance
<1>1. totalStaked \in Nat /\ amount \in Nat
  BY Bounds DEF StateTyped
<1>2. totalStaked + amount < BalanceModulus
  BY <1>1, Bounds DEF Stake
<1> QED BY <1>1, <1>2, Arithmetic DEF Stake

-----------------------------------------------------------------------------
(* The calls.                                                              *)

\* The amounts users pass are within the bounds.
LEMMA AmountsBounded ==
  /\ BondAmounts \subseteq 0 .. MaxStaked /\ ExtraAmounts \subseteq 0 .. MaxStaked
  /\ LessAmounts \subseteq 0 .. MaxStaked
  /\ NominateAmounts \subseteq 0 .. MaxStaked
  /\ NominateExtras \subseteq 0 .. MaxStaked
  /\ NominateLesses \subseteq 0 .. MaxStaked
  /\ \A x \in 0 .. MaxStaked : x \in Nat
  /\ Candidates \subseteq AccountIds /\ Backers \subseteq AccountIds
BY BoundsAssumption, StakingAssumption

\* What an account is owed as a collator is a number.
LEMMA OwedNat ==
  ASSUME CollatorsOK, ExitsOK, NEW a
  PROVE  OwedAsCollator(a) \in Nat /\ HeldBy(collators, a) \in Nat
<1>1. Has(collators, a) => collators[a].total \in Nat
  BY CollatorFields DEF CollatorsOK, CollatorTyped, Has
<1>2. Has(exitQueue, a) => Leaving(exitQueue[a]) \in Nat
  BY LeavingFields DEF ExitsOK, Has
<1> QED BY <1>1, <1>2 DEF OwedAsCollator, Leaving, HeldBy

\* The rest of the state is left alone by every call.
LEMMA CallTyped ==
  ASSUME StateTyped, UNCHANGED <<block, currentRound, totalStakedAt, exposures>>,
         accounts' \in [AccountIds -> AccountData], totalStaked' \in Balance,
         settings' \in SettingStruct, unfunded' \in [AccountIds -> Nat],
         overdrawn' \subseteq AccountIds
  PROVE  StateTyped'
BY DEF StateTyped

\* bond
LEMMA BondStep ==
  ASSUME LedgerInv, NEW who \in AccountIds, NEW amount \in 0 .. MaxStaked,
         Bond(who, amount)
  PROVE  LedgerInv'
<1> USE DEF LedgerInv
<1> DEFINE c == NewCollator(amount, NextRoundIndex)
<1>1. amount \in Nat /\ NextRoundIndex \in Nat /\ amount >= MinCollatorStake
  BY RoundFacts, AmountsBounded DEF Bond, CanBond
<1>2. CollatorOK(c, NextRoundIndex) /\ c.total = amount /\ c.nominations = <<>>
  BY <1>1, NewCollatorOK
<1> HIDE DEF c
<1>3. /\ collators' = MapInsert(collators, who, c) /\ ~ Has(collators, who)
      /\ UNCHANGED <<block, currentRound, nominators, exitQueue, totalStakedAt,
                     exposures, settings, unfunded>>
      /\ Stake(amount) /\ Reserve(who, amount)
  BY DEF Bond, CanBond, c
<1>4. /\ CollatorsOK'
      /\ SumFunction(CollatorStake') + HeldBy(collators, who)
           = SumFunction(CollatorStake) + c.total
      /\ SumFunction(CollatorStake') \in Nat
  BY <1>2, <1>3, InsertCollator
<1>5. HeldBy(collators, who) = 0
  BY <1>3 DEF HeldBy
<1>6. totalStaked' = totalStaked + amount /\ totalStaked' \in Balance
  BY <1>3, StakeFacts
<1>7. /\ accounts' \in [AccountIds -> AccountData]
      /\ overdrawn' \subseteq AccountIds /\ overdrawn \subseteq overdrawn'
      /\ \A a \in AccountIds : a # who => accounts'[a] = accounts[a]
      /\ who \notin overdrawn' =>
           accounts'[who].reserved = accounts[who].reserved + amount
      /\ \A a \in AccountIds : accounts[a].reserved \in Nat
  BY <1>1, <1>3, ReserveFacts
<1>8. StateTyped'
  BY <1>3, <1>6, <1>7, CallTyped DEF StateTyped
<1>9. NominatorsOK' /\ ExitsOK'
  BY <1>3 DEF NominatorsOK, ExitsOK
<1>10. NominationMirrored'
  <2>1. \A x \in DOMAIN collators' : \/ collators'[x].nominations = <<>>
                                     \/ /\ x \in DOMAIN collators
                                        /\ collators'[x] = collators[x]
    BY <1>2, <1>3 DEF MapInsert
  <2>2. Owners(<<>>) = {}
    BY DEF Owners
  <2> QED BY <1>3, <2>1, <2>2 DEF NominationMirrored
<1>11. StakeHeld'
  <2>1. NominatorStake' = NominatorStake /\ LeavingStake' = LeavingStake
    BY <1>3 DEF NominatorStake, LeavingStake
  <2>2. /\ SumFunction(CollatorStake) \in Nat /\ SumFunction(NominatorStake) \in Nat
        /\ SumFunction(LeavingStake) \in Nat /\ SumFunction(unfunded) \in Nat
        /\ totalStaked \in Nat
    BY StakeSums
  <2>3. SumFunction(CollatorStake') = SumFunction(CollatorStake) + amount
    BY <1>1, <1>2, <1>4, <1>5, <2>2
  <2> QED BY <1>1, <1>3, <1>6, <2>1, <2>2, <2>3 DEF StakeHeld
<1>12. StakeBacked'
  <2> SUFFICES ASSUME NEW a \in AccountIds, a \notin DOMAIN nominators,
                      a \notin overdrawn'
               PROVE  accounts'[a].reserved >= OwedAsCollator(a)'
    BY <1>3 DEF StakeBacked
  <2>1. accounts[a].reserved >= OwedAsCollator(a)
    BY <1>7 DEF StakeBacked
  <2>2. CASE a = who
    <3>1. OwedAsCollator(a)' = OwedAsCollator(a) + amount
      BY <1>2, <1>3, <2>2, LeavingFields, <1>1 DEF OwedAsCollator, Has, MapInsert, ExitsOK
    <3> QED BY <1>1, <1>7, <2>1, <2>2, <3>1, OwedNat
  <2>3. CASE a # who
    <3>1. OwedAsCollator(a)' = OwedAsCollator(a)
      BY <1>3, <2>3 DEF OwedAsCollator, Has, MapInsert
    <3> QED BY <1>7, <2>1, <2>3, <3>1
  <2> QED BY <2>2, <2>3
<1> QED BY <1>4, <1>8, <1>9, <1>10, <1>11, <1>12

\* A call that rewrites one collator's own bond.
LEMMA RewriteCollator ==
  ASSUME LedgerInv, NEW who \in DOMAIN collators, NEW c,
         CollatorOK(c, NextRoundIndex),
         c.nominations = collators[who].nominations,
         collators' = MapInsert(collators, who, c),
         UNCHANGED <<currentRound, nominators, exitQueue>>
  PROVE  /\ CollatorsOK' /\ NominatorsOK' /\ ExitsOK' /\ NominationMirrored'
         /\ SumFunction(CollatorStake') + collators[who].total
              = SumFunction(CollatorStake) + c.total
         /\ SumFunction(CollatorStake') \in Nat
         /\ NominatorStake' = NominatorStake /\ LeavingStake' = LeavingStake
         /\ \A a : a # who => OwedAsCollator(a)' = OwedAsCollator(a)
         /\ OwedAsCollator(who)' + collators[who].total
              = OwedAsCollator(who) + c.total
         /\ collators[who].total \in Nat /\ c.total \in Nat
         /\ OwedAsCollator(who)' \in Nat
<1> USE DEF LedgerInv
<1>1. who \in AccountIds
  BY DEF CollatorsOK
<1>2. HeldBy(collators, who) = collators[who].total
  BY DEF HeldBy, Has
<1>3. /\ CollatorsOK'
      /\ SumFunction(CollatorStake') + collators[who].total
           = SumFunction(CollatorStake) + c.total
      /\ SumFunction(CollatorStake') \in Nat
      /\ collators[who].total \in Nat /\ c.total \in Nat
  BY <1>1, <1>2, InsertCollator
<1>4. NominatorsOK' /\ ExitsOK'
  BY DEF NominatorsOK, ExitsOK
<1>5. NominatorStake' = NominatorStake /\ LeavingStake' = LeavingStake
  BY DEF NominatorStake, LeavingStake
<1>6. /\ DOMAIN collators' = DOMAIN collators /\ collators'[who] = c
      /\ \A x \in DOMAIN collators : x # who => collators'[x] = collators[x]
  BY DEF MapInsert
<1>7. NominationMirrored'
  BY <1>6 DEF NominationMirrored
<1>8. \A a : a # who => OwedAsCollator(a)' = OwedAsCollator(a)
  BY <1>6 DEF OwedAsCollator, Has
<1>9. /\ OwedAsCollator(who)' + collators[who].total
           = OwedAsCollator(who) + c.total
      /\ OwedAsCollator(who)' \in Nat
  <2> DEFINE o == IF Has(exitQueue, who) THEN Leaving(exitQueue[who]) ELSE 0
  <2>1. o \in Nat
    BY LeavingFields DEF ExitsOK, Has
  <2>2. /\ OwedAsCollator(who)' = c.total + o
        /\ OwedAsCollator(who) = collators[who].total + o
    BY <1>6 DEF OwedAsCollator, Has, Leaving
  <2> HIDE DEF o
  <2> QED BY <1>3, <2>1, <2>2
<1> QED BY <1>3, <1>4, <1>5, <1>7, <1>8, <1>9

\* bond_extra
LEMMA BondExtraStep ==
  ASSUME LedgerInv, NEW who \in AccountIds, NEW extra \in 0 .. MaxStaked,
         BondExtra(who, extra)
  PROVE  LedgerInv'
<1> DEFINE c == CollatorBondExtra(collators[who], extra, NextRoundIndex)
<1>1. extra \in Nat /\ NextRoundIndex \in Nat
  BY RoundFacts, AmountsBounded DEF LedgerInv
<1>2. /\ who \in DOMAIN collators /\ IsActive(collators[who])
      /\ CollatorOK(collators[who], NextRoundIndex) /\ c.total <= MaxTotal
  BY DEF BondExtra, Has, LedgerInv, CollatorsOK, Bounded
<1>3. /\ CollatorOK(c, NextRoundIndex) /\ c.total = collators[who].total + extra
      /\ c.nominations = collators[who].nominations
  BY <1>1, <1>2, BondExtraOK
<1>4. /\ collators' = MapInsert(collators, who, c)
      /\ UNCHANGED <<block, currentRound, nominators, exitQueue, totalStakedAt,
                     exposures, settings, unfunded>>
      /\ Stake(extra) /\ Reserve(who, extra)
  BY DEF BondExtra
<1> HIDE DEF c
<1>5. /\ CollatorsOK' /\ NominatorsOK' /\ ExitsOK' /\ NominationMirrored'
      /\ SumFunction(CollatorStake') + collators[who].total
           = SumFunction(CollatorStake) + c.total
      /\ SumFunction(CollatorStake') \in Nat
      /\ NominatorStake' = NominatorStake /\ LeavingStake' = LeavingStake
      /\ \A a : a # who => OwedAsCollator(a)' = OwedAsCollator(a)
      /\ OwedAsCollator(who)' + collators[who].total
           = OwedAsCollator(who) + c.total
      /\ collators[who].total \in Nat /\ c.total \in Nat
      /\ OwedAsCollator(who)' \in Nat
  BY <1>2, <1>3, <1>4, RewriteCollator
<1> USE DEF LedgerInv
<1>6. totalStaked' = totalStaked + extra /\ totalStaked' \in Balance
  BY <1>4, StakeFacts
<1>7. /\ accounts' \in [AccountIds -> AccountData]
      /\ overdrawn' \subseteq AccountIds /\ overdrawn \subseteq overdrawn'
      /\ \A a \in AccountIds : a # who => accounts'[a] = accounts[a]
      /\ who \notin overdrawn' =>
           accounts'[who].reserved = accounts[who].reserved + extra
      /\ \A a \in AccountIds : accounts[a].reserved \in Nat
  BY <1>1, <1>4, ReserveFacts
<1>8. StateTyped'
  BY <1>4, <1>6, <1>7, CallTyped DEF StateTyped
<1>9. StakeHeld'
  BY <1>1, <1>3, <1>4, <1>5, <1>6, StakeSums DEF StakeHeld
<1>10. StakeBacked'
  <2> SUFFICES ASSUME NEW a \in AccountIds, a \notin DOMAIN nominators,
                      a \notin overdrawn'
               PROVE  accounts'[a].reserved >= OwedAsCollator(a)'
    BY <1>4 DEF StakeBacked
  <2>1. accounts[a].reserved >= OwedAsCollator(a)
    BY <1>7 DEF StakeBacked
  <2>2. CASE a = who
    BY <1>1, <1>3, <1>5, <1>7, <2>1, <2>2, OwedNat
  <2>3. CASE a # who
    BY <1>5, <1>7, <2>1, <2>3
  <2> QED BY <2>2, <2>3
<1> QED BY <1>5, <1>8, <1>9, <1>10

\* A call that rewrites a collator's bond and leaves its total alone.
LEMMA SameTotalStep ==
  ASSUME LedgerInv, NEW who \in DOMAIN collators, NEW c,
         CollatorOK(c, NextRoundIndex), c.total = collators[who].total,
         c.nominations = collators[who].nominations,
         collators' = MapInsert(collators, who, c),
         UNCHANGED <<accounts, block, currentRound, nominators, exitQueue,
                     totalStaked, totalStakedAt, exposures, settings, unfunded,
                     overdrawn>>
  PROVE  LedgerInv'
<1>1. /\ CollatorsOK' /\ NominatorsOK' /\ ExitsOK' /\ NominationMirrored'
      /\ SumFunction(CollatorStake') + collators[who].total
           = SumFunction(CollatorStake) + c.total
      /\ SumFunction(CollatorStake') \in Nat
      /\ NominatorStake' = NominatorStake /\ LeavingStake' = LeavingStake
      /\ \A a : a # who => OwedAsCollator(a)' = OwedAsCollator(a)
      /\ OwedAsCollator(who)' + collators[who].total
           = OwedAsCollator(who) + c.total
      /\ collators[who].total \in Nat /\ c.total \in Nat
      /\ OwedAsCollator(who)' \in Nat
  BY RewriteCollator
<1> USE DEF LedgerInv
<1>2. StateTyped'
  BY CallTyped DEF StateTyped
<1>3. SumFunction(CollatorStake') = SumFunction(CollatorStake)
  BY <1>1, StakeSums
<1>4. StakeHeld'
  BY <1>1, <1>3 DEF StakeHeld
<1>5. OwedAsCollator(who)' = OwedAsCollator(who)
  BY <1>1, OwedNat
<1>6. StakeBacked'
  BY <1>1, <1>5 DEF StakeBacked
<1> QED BY <1>1, <1>2, <1>4, <1>6

\* bond_less
LEMMA BondLessStep ==
  ASSUME LedgerInv, NEW who \in AccountIds, NEW less \in 0 .. MaxStaked,
         BondLess(who, less)
  PROVE  LedgerInv'
<1> DEFINE c == CollatorBondLess(collators[who], less, WithdrawRound)
<1>1. NextRoundIndex \in Nat /\ WithdrawRound \in Nat
  BY RoundFacts DEF LedgerInv
<1>2. /\ who \in DOMAIN collators /\ IsActive(collators[who])
      /\ CollatorOK(collators[who], NextRoundIndex)
      /\ CanBondLess(collators[who], less)
  BY DEF BondLess, Has, LedgerInv, CollatorsOK
<1>3. /\ CollatorOK(c, NextRoundIndex) /\ c.total = collators[who].total
      /\ c.nominations = collators[who].nominations
  BY <1>1, <1>2, BondLessOK
<1>4. /\ collators' = MapInsert(collators, who, c)
      /\ UNCHANGED <<accounts, block, currentRound, nominators, exitQueue,
                     totalStaked, totalStakedAt, exposures, settings, unfunded,
                     overdrawn>>
  BY DEF BondLess
<1> HIDE DEF c
<1> QED BY <1>2, <1>3, <1>4, SameTotalStep

\* force_onboard
LEMMA ForceOnboardStep ==
  ASSUME LedgerInv, NEW who, ForceOnboard(who)
  PROVE  LedgerInv'
<1> DEFINE c == ForceBond(collators[who])
<1>1. NextRoundIndex \in Nat
  BY RoundFacts DEF LedgerInv
<1>2. /\ who \in DOMAIN collators /\ ~ IsActive(collators[who])
      /\ CollatorOK(collators[who], NextRoundIndex)
  BY DEF ForceOnboard, Has, LedgerInv, CollatorsOK
<1>3. /\ CollatorOK(c, NextRoundIndex) /\ c.total = collators[who].total
      /\ c.nominations = collators[who].nominations
  BY <1>1, <1>2, ForceBondOK
<1>4. /\ collators' = MapInsert(collators, who, c)
      /\ UNCHANGED <<accounts, block, currentRound, nominators, exitQueue,
                     totalStaked, totalStakedAt, exposures, settings, unfunded,
                     overdrawn>>
  BY DEF ForceOnboard
<1> HIDE DEF c
<1> QED BY <1>2, <1>3, <1>4, SameTotalStep

\* config
LEMMA ConfigStep ==
  ASSUME LedgerInv, NEW s \in SettingChoices, Config(s)
  PROVE  LedgerInv'
<1> USE DEF LedgerInv
<1>1. StateTyped'
  BY StakingAssumption DEF Config, StateTyped
<1>2. CollatorsOK' /\ NominatorsOK' /\ ExitsOK' /\ NominationMirrored'
  BY DEF Config, CollatorsOK, NominatorsOK, ExitsOK, NominationMirrored,
         NextRoundIndex
<1>3. StakeHeld'
  BY DEF Config, StakeHeld, CollatorStake, NominatorStake, LeavingStake
<1>4. StakeBacked'
  BY DEF Config, StakeBacked, OwedAsCollator, Has
<1> QED BY <1>1, <1>2, <1>3, <1>4

\* unreserve moves what it is asked for if that much is reserved.
LEMMA UnreserveFacts ==
  ASSUME NEW d \in AccountData, NEW v \in Nat
  PROVE  /\ Unreserve(d, v) \in AccountData
         /\ v <= d.reserved => Unreserve(d, v).reserved = d.reserved - v
BY DEF Unreserve, AccountData

\* What collator_unbond queues is part of the collator's total.
LEMMA LeavingOfOK ==
  ASSUME StateTyped, NEW next, NEW c, CollatorOK(c, next)
  PROVE  /\ LeavingOf(c) \in Leavings /\ Leaving(LeavingOf(c)) \in Nat
         /\ Leaving(LeavingOf(c)) <= c.total /\ c.total \in Nat
<1>1. CollatorTyped(c)
  BY CollatorFields
<1>2. LeavingOf(c) \in Leavings
  BY <1>1, RoundFacts DEF LeavingOf, Leavings, CollatorTyped
<1>3. Leaving(LeavingOf(c)) = c.active + Values(c.unbonding)
  BY DEF Leaving, LeavingOf
<1> QED BY <1>1, <1>2, <1>3 DEF CollatorOK, CollatorTyped

\* collator_unbond gives back what nominators have with the collator, and
\* nothing to an account that is none.
LEMMA UnbondRefunds ==
  ASSUME LedgerInv, NEW who \in DOMAIN collators, NEW a \in AccountIds
  PROVE  LET v == Amounts(OfOwner(collators[who].nominations, a))
         IN  /\ Unreserve(accounts[a], v) \in AccountData
             /\ a \notin DOMAIN nominators =>
                  Unreserve(accounts[a], v).reserved = accounts[a].reserved
<1> DEFINE bonds == collators[who].nominations
           v == Amounts(OfOwner(bonds, a))
<1>1. bonds \in Bonds
  BY CollatorFields DEF LedgerInv, CollatorsOK, CollatorTyped
<1>2. v \in Nat /\ (a \notin Owners(bonds) => v = 0)
  BY <1>1, BondsDropped, BondsAre
<1>3. accounts[a] \in AccountData
  BY DEF LedgerInv, StateTyped
<1>4. a \notin DOMAIN nominators => a \notin Owners(bonds)
  BY DEF LedgerInv, NominationMirrored
<1> HIDE DEF v
<1>5. 0 <= accounts[a].reserved /\ accounts[a].reserved \in Nat
  BY <1>3 DEF AccountData
<1>6. /\ Unreserve(accounts[a], v) \in AccountData
      /\ v <= accounts[a].reserved =>
           Unreserve(accounts[a], v).reserved = accounts[a].reserved - v
  BY <1>2, <1>3, UnreserveFacts
<1> QED BY <1>2, <1>4, <1>5, <1>6 DEF v

\* collator_unbond
LEMMA CollatorUnbondStep ==
  ASSUME LedgerInv, NEW who, CollatorUnbond(who)
  PROVE  LedgerInv'
<1> DEFINE c == collators[who]
           e == LeavingOf(c)
<1> USE DEF LedgerInv
<1>1. /\ who \in DOMAIN collators /\ who \in AccountIds
      /\ CollatorOK(c, NextRoundIndex)
  BY DEF CollatorUnbond, Has, CollatorsOK
<1>2. e \in Leavings /\ Leaving(e) \in Nat /\ Leaving(e) <= c.total /\ c.total \in Nat
  BY <1>1, LeavingOfOK
<1>3. /\ collators' = MapRemove(collators, who)
      /\ exitQueue' = MapInsert(exitQueue, who, e)
      /\ UNCHANGED <<block, currentRound, nominators, totalStaked,
                     totalStakedAt, exposures, settings, unfunded, overdrawn>>
  BY DEF CollatorUnbond
<1>4. /\ accounts' \in [AccountIds -> AccountData]
      /\ \A a \in AccountIds : a \notin DOMAIN nominators =>
           accounts'[a].reserved = accounts[a].reserved
  <2>1. accounts' = [a \in AccountIds |->
                       Unreserve(accounts[a], Amounts(OfOwner(c.nominations, a)))]
    BY DEF CollatorUnbond
  <2> QED BY <1>1, <2>1, UnbondRefunds
<1> HIDE DEF e
<1>5. StateTyped'
  BY <1>3, <1>4, CallTyped DEF StateTyped
<1>6. /\ DOMAIN collators' = DOMAIN collators \ {who}
      /\ \A x \in DOMAIN collators' : collators'[x] = collators[x]
      /\ collators' = [x \in DOMAIN collators' |-> collators'[x]]
  BY <1>3 DEF MapRemove
<1>7. /\ DOMAIN exitQueue' = DOMAIN exitQueue \cup {who} /\ exitQueue'[who] = e
      /\ \A x \in DOMAIN exitQueue : x # who => exitQueue'[x] = exitQueue[x]
      /\ exitQueue' = [x \in DOMAIN exitQueue' |-> exitQueue'[x]]
  BY <1>3 DEF MapInsert
<1>8. CollatorsOK'
  BY <1>3, <1>6 DEF CollatorsOK, NextRoundIndex
<1>9. NominatorsOK'
  BY <1>3 DEF NominatorsOK
<1>10. ExitsOK'
  BY <1>1, <1>2, <1>7 DEF ExitsOK
<1>11. NominationMirrored'
  BY <1>3, <1>6 DEF NominationMirrored
<1>12. /\ SumFunction(CollatorStake') + c.total = SumFunction(CollatorStake)
       /\ SumFunction(CollatorStake') \in Nat
  <2> DEFINE f == CollatorStake
             g == CollatorStake'
  <2>1. IsFiniteSet(DOMAIN collators)
    BY StakingAssumption, FS_Subset DEF CollatorsOK
  <2>2. \A x \in DOMAIN collators : collators[x].total \in Nat
    BY CollatorFields DEF CollatorsOK, CollatorTyped
  <2>3. /\ DOMAIN f = DOMAIN collators /\ DOMAIN g = DOMAIN f \ {who}
        /\ \A x \in DOMAIN f : f[x] \in Nat
        /\ \A x \in DOMAIN g : g[x] = f[x]
        /\ f[who] = c.total
    BY <1>1, <1>6, <2>2 DEF CollatorStake
  <2> HIDE DEF f, g
  <2>4. SumFunction(g) + f[who] = SumFunction(f) /\ SumFunction(g) \in Nat
    BY <1>1, <2>1, <2>3, SumDrop
  <2> QED BY <2>3, <2>4 DEF f, g
<1>13. /\ SumFunction(LeavingStake') <= SumFunction(LeavingStake) + Leaving(e)
       /\ SumFunction(LeavingStake') \in Nat
  <2> DEFINE f == LeavingStake
             g == LeavingStake'
  <2>1. IsFiniteSet(DOMAIN exitQueue)
    BY StakingAssumption, FS_Subset DEF ExitsOK
  <2>2. \A x \in DOMAIN exitQueue : Leaving(exitQueue[x]) \in Nat
    BY LeavingFields DEF ExitsOK
  <2>3. /\ DOMAIN f = DOMAIN exitQueue /\ DOMAIN g = DOMAIN f \cup {who}
        /\ \A x \in DOMAIN f : f[x] \in Nat
        /\ \A x \in DOMAIN f : x # who => g[x] = f[x]
        /\ g[who] = Leaving(e)
    BY <1>7, <2>2 DEF LeavingStake
  <2> HIDE DEF f, g
  <2>4. /\ SumFunction(g) + (IF who \in DOMAIN f THEN f[who] ELSE 0)
             = SumFunction(f) + g[who]
        /\ SumFunction(g) \in Nat /\ SumFunction(f) \in Nat
    <3>1. IsFiniteSet(DOMAIN f) /\ g[who] \in Nat
      BY <1>2, <2>1, <2>3
    <3> QED BY <2>3, <3>1, SumPut
  <2> QED BY <1>2, <2>3, <2>4 DEF f, g
<1>14. StakeHeld'
  <2>1. NominatorStake' = NominatorStake
    BY <1>3 DEF NominatorStake
  <2> QED BY <1>2, <1>3, <1>12, <1>13, <2>1, StakeSums DEF StakeHeld
<1>15. StakeBacked'
  <2> SUFFICES ASSUME NEW a \in AccountIds, a \notin DOMAIN nominators,
                      a \notin overdrawn
               PROVE  accounts'[a].reserved >= OwedAsCollator(a)'
    BY <1>3 DEF StakeBacked
  <2>1. accounts[a].reserved >= OwedAsCollator(a)
    BY DEF StakeBacked
  <2>2. accounts[a].reserved \in Nat
    BY DEF StateTyped, AccountData
  <2>3. OwedAsCollator(a)' <= OwedAsCollator(a) /\ OwedAsCollator(a)' \in Nat
    <3>1. CASE a = who
      <4> DEFINE o == IF Has(exitQueue, who) THEN Leaving(exitQueue[who]) ELSE 0
      <4>1. o \in Nat
        BY LeavingFields DEF ExitsOK, Has
      <4>2. OwedAsCollator(a) = c.total + o /\ OwedAsCollator(a)' = Leaving(e)
        <5>1. OwedAsCollator(a) = c.total + o
          BY <1>1, <3>1 DEF OwedAsCollator, Has, Leaving
        <5>2. OwedAsCollator(a)' = 0 + Leaving(e)
          BY <1>6, <1>7, <3>1 DEF OwedAsCollator, Has, Leaving
        <5> QED BY <1>2, <5>1, <5>2
      <4> HIDE DEF o
      <4> QED BY <1>2, <4>1, <4>2
    <3>2. CASE a # who
      <4>1. OwedAsCollator(a)' = OwedAsCollator(a)
        BY <1>6, <1>7, <3>2 DEF OwedAsCollator, Has
      <4> QED BY <4>1, OwedNat
    <3> QED BY <3>1, <3>2
  <2>4. OwedAsCollator(a) \in Nat
    BY OwedNat
  <2> QED BY <1>4, <2>1, <2>2, <2>3, <2>4
<1> QED BY <1>5, <1>8, <1>9, <1>10, <1>11, <1>14, <1>15

\* A nominator's call keeps the two sides' lists in step.
LEMMA MirrorKept ==
  ASSUME NominationMirrored, NEW candidate \in DOMAIN collators, NEW who, NEW n,
         nominators' = MapInsert(nominators, who, n),
         DOMAIN collators' = DOMAIN collators,
         \A x \in DOMAIN collators : x # candidate => collators'[x] = collators[x],
         Owners(collators'[candidate].nominations)
           \subseteq Owners(collators[candidate].nominations) \cup {who},
         Has(nominators, who) => Owners(nominators[who].nominations) \ {candidate}
                                   \subseteq Owners(n.nominations),
         who \in Owners(collators'[candidate].nominations) =>
           candidate \in Owners(n.nominations)
  PROVE  NominationMirrored'
<1> SUFFICES ASSUME NEW c \in DOMAIN collators,
                    NEW a \in Owners(collators'[c].nominations)
             PROVE  /\ a \in DOMAIN nominators'
                    /\ c \in Owners(nominators'[a].nominations)
  BY DEF NominationMirrored
<1>1. /\ DOMAIN nominators' = DOMAIN nominators \cup {who} /\ nominators'[who] = n
      /\ \A x \in DOMAIN nominators : x # who => nominators'[x] = nominators[x]
  BY DEF MapInsert
<1>2. a # who => a \in Owners(collators[c].nominations)
  OBVIOUS
<1>3. CASE a # who
  BY <1>1, <1>2, <1>3 DEF NominationMirrored
<1>4. CASE a = who /\ c = candidate
  BY <1>1, <1>4
<1>5. CASE a = who /\ c # candidate
  <2>1. who \in DOMAIN nominators /\ c \in Owners(nominators[who].nominations)
    BY <1>5 DEF NominationMirrored
  <2> QED BY <1>1, <1>5, <2>1 DEF Has
<1> QED BY <1>3, <1>4, <1>5

\* A nominator's call touches only the balance of the nominator, and no bond
\* of a collator.
LEMMA BackedKept ==
  ASSUME LedgerInv, NEW who, NEW n, nominators' = MapInsert(nominators, who, n),
         overdrawn \subseteq overdrawn', exitQueue' = exitQueue,
         \A a \in AccountIds : a # who => accounts'[a] = accounts[a],
         DOMAIN collators' = DOMAIN collators,
         \A x \in DOMAIN collators : collators'[x].total = collators[x].total
  PROVE  StakeBacked'
<1> SUFFICES ASSUME NEW a \in AccountIds, a \notin DOMAIN nominators',
                    a \notin overdrawn'
             PROVE  accounts'[a].reserved >= OwedAsCollator(a)'
  BY DEF StakeBacked
<1>1. a # who /\ a \notin DOMAIN nominators /\ a \notin overdrawn
  BY DEF MapInsert
<1>2. OwedAsCollator(a)' = OwedAsCollator(a)
  BY DEF OwedAsCollator, Has
<1> QED BY <1>1, <1>2 DEF LedgerInv, StakeBacked

\* What nominate makes of its caller's record.
LEMMA NominatorWithOK ==
  ASSUME NominatorsOK, NEW who \in AccountIds, NEW candidate \in AccountIds,
         NEW v \in 0 .. MaxStaked,
         NominatorWith(who, [owner |-> candidate, amount |-> v]).total <= MaxTotal
  PROVE  LET n == NominatorWith(who, [owner |-> candidate, amount |-> v])
         IN  /\ NominatorOK(n) /\ n.total = HeldBy(nominators, who) + v
             /\ candidate \in Owners(n.nominations)
             /\ Has(nominators, who) =>
                  Owners(nominators[who].nominations) \ {candidate}
                    \subseteq Owners(n.nominations)
<1> DEFINE b == [owner |-> candidate, amount |-> v]
           n == NominatorWith(who, b)
<1>1. v \in Balance /\ v \in Nat
  BY Bounds DEF Balance
<1>2. CASE Has(nominators, who)
  <2>1. n = NominatorAdd(nominators[who], b) /\ HeldBy(nominators, who) = nominators[who].total
    BY <1>2 DEF NominatorWith, HeldBy
  <2>2. NominatorOK(nominators[who])
    BY <1>2 DEF NominatorsOK, Has
  <2>3. NominatorAdd(nominators[who], b).total <= MaxTotal
    BY <2>1
  <2>4. /\ NominatorOK(NominatorAdd(nominators[who], b))
        /\ NominatorAdd(nominators[who], b).total = nominators[who].total + v
        /\ Owners(NominatorAdd(nominators[who], b).nominations)
             = Owners(nominators[who].nominations) \cup {candidate}
    BY <2>2, <2>3, NominatorAddOK
  <2> QED BY <2>1, <2>4
<1>3. CASE ~ Has(nominators, who)
  <2>1. n = NewNominator(b) /\ HeldBy(nominators, who) = 0
    BY <1>3 DEF NominatorWith, HeldBy
  <2>2. NewNominator(b).total <= MaxTotal
    BY <2>1
  <2>3. /\ NominatorOK(NewNominator(b)) /\ NewNominator(b).total = v
        /\ Owners(NewNominator(b).nominations) = {candidate}
    BY <1>1, <2>2, NewNominatorOK
  <2> QED BY <1>1, <1>3, <2>1, <2>3
<1> QED BY <1>2, <1>3

\* A nominator's call whose amount is staked, recorded as refused, or zero:
\* the sums keep up with each other.
LEMMA NominatorCall ==
  ASSUME LedgerInv, NEW who \in AccountIds, NEW candidate \in DOMAIN collators,
         NEW n, NominatorOK(n), nominators' = MapInsert(nominators, who, n),
         NEW bonds \in Bonds,
         \/ collators' = collators /\ bonds = collators[candidate].nominations
         \/ collators' = [collators EXCEPT ![candidate].nominations = bonds],
         Owners(bonds) \subseteq Owners(collators[candidate].nominations) \cup {who},
         Has(nominators, who) => Owners(nominators[who].nominations) \ {candidate}
                                   \subseteq Owners(n.nominations),
         who \in Owners(bonds) => candidate \in Owners(n.nominations),
         UNCHANGED <<block, currentRound, exitQueue, totalStakedAt, exposures,
                     settings>>,
         accounts' \in [AccountIds -> AccountData],
         \A a \in AccountIds : a # who => accounts'[a] = accounts[a],
         overdrawn' \subseteq AccountIds, overdrawn \subseteq overdrawn',
         totalStaked' \in Balance, unfunded' \in [AccountIds -> Nat],
         NEW v \in Nat, n.total = HeldBy(nominators, who) + v,
         totalStaked' + SumFunction(unfunded')
           = totalStaked + SumFunction(unfunded) + v
  PROVE  LedgerInv'
<1> USE DEF LedgerInv
<1>1. StateTyped'
  BY CallTyped DEF StateTyped
<1>2. /\ NominatorsOK'
      /\ SumFunction(NominatorStake') + HeldBy(nominators, who)
           = SumFunction(NominatorStake) + n.total
      /\ SumFunction(NominatorStake') \in Nat
      /\ SumFunction(NominatorStake) \in Nat
      /\ HeldBy(nominators, who) \in Nat /\ n.total \in Nat
  BY InsertNominator
<1>3. /\ CollatorsOK'
      /\ SumFunction(CollatorStake') = SumFunction(CollatorStake)
      /\ DOMAIN collators' = DOMAIN collators
      /\ collators'[candidate].nominations = bonds
      /\ \A x \in DOMAIN collators : /\ collators'[x].total = collators[x].total
                                     /\ x # candidate => collators'[x] = collators[x]
  <2>1. CASE collators' = collators /\ bonds = collators[candidate].nominations
    BY <2>1 DEF CollatorsOK, CollatorStake, NextRoundIndex
  <2>2. CASE collators' = [collators EXCEPT ![candidate].nominations = bonds]
    BY <2>2, ChangeNominations
  <2> QED BY <2>1, <2>2
<1>4. ExitsOK' /\ LeavingStake' = LeavingStake
  BY DEF ExitsOK, LeavingStake
<1>5. NominationMirrored'
  BY <1>3, MirrorKept
<1>6. StakeHeld'
  <2>1. SumFunction(NominatorStake') = SumFunction(NominatorStake) + v
    BY <1>2
  <2> QED BY <1>1, <1>2, <1>3, <1>4, <2>1, StakeSums DEF StakeHeld
<1>7. StakeBacked'
  BY <1>3, BackedKept
<1> QED BY <1>1, <1>2, <1>3, <1>4, <1>5, <1>6, <1>7

\* nominate, refused after its first write or not
LEMMA NominateStep ==
  ASSUME LedgerInv, NEW who \in AccountIds, NEW candidate \in AccountIds,
         NEW amount \in 0 .. MaxStaked, Nominate(who, candidate, amount)
  PROVE  LedgerInv'
<1> USE DEF LedgerInv
<1> DEFINE n == NominatorWith(who, [owner |-> candidate, amount |-> amount])
           old == collators[candidate].nominations
           bonds == Append(old, [owner |-> who, amount |-> amount])
<1>1. /\ candidate \in DOMAIN collators /\ n.total <= MaxTotal
      /\ nominators' = MapInsert(nominators, who, n)
      /\ UNCHANGED <<block, currentRound, exitQueue, totalStakedAt, exposures,
                     settings>>
  BY DEF Nominate, Has, Bounded
<1>2. /\ NominatorOK(n) /\ n.total = HeldBy(nominators, who) + amount
      /\ candidate \in Owners(n.nominations)
      /\ Has(nominators, who) =>
           Owners(nominators[who].nominations) \ {candidate}
             \subseteq Owners(n.nominations)
  BY <1>1, NominatorWithOK
<1>3. amount \in Nat /\ amount \in Balance /\ old \in Bonds /\ totalStaked \in Nat
  <2>1. CollatorTyped(collators[candidate])
    BY <1>1, CollatorFields DEF CollatorsOK
  <2>2. amount \in Nat /\ amount \in Balance
    BY Bounds DEF Balance
  <2> QED BY <2>1, <2>2, StateNumbers DEF CollatorTyped
<1>4. bonds \in Bonds /\ Owners(bonds) = Owners(old) \cup {who}
  BY <1>3, BondAppend
<1>5. CASE /\ unfunded' = [unfunded EXCEPT ![who] = @ + amount]
           /\ UNCHANGED <<accounts, collators, totalStaked, overdrawn>>
  <2>1. unfunded \in [AccountIds -> Nat] /\ IsFiniteSet(AccountIds)
    BY StakingAssumption DEF StateTyped
  <2>2. /\ unfunded' \in [AccountIds -> Nat]
        /\ SumFunction(unfunded') = SumFunction(unfunded) + amount
    <3>1. unfunded' \in [AccountIds -> Nat]
      BY <1>3, <1>5, <2>1
    <3>2. /\ unfunded'[who] = unfunded[who] + amount
          /\ \A x \in AccountIds : x # who => unfunded'[x] = unfunded[x]
      BY <1>5, <2>1
    <3> QED BY <1>3, <2>1, <3>1, <3>2, SumRaise
  <2>3. SumFunction(unfunded) \in Nat
    BY StakeSums
  <2>4. totalStaked' + SumFunction(unfunded')
          = totalStaked + SumFunction(unfunded) + amount
    BY <1>3, <1>5, <2>2, <2>3
  <2>5. /\ accounts' \in [AccountIds -> AccountData] /\ totalStaked' \in Balance
        /\ \A a \in AccountIds : a # who => accounts'[a] = accounts[a]
        /\ overdrawn' \subseteq AccountIds /\ overdrawn \subseteq overdrawn'
        /\ unfunded' \in [AccountIds -> Nat]
        /\ collators' = collators /\ old = collators[candidate].nominations
    BY <1>5, <2>2 DEF StateTyped
  <2>6. Owners(old) \subseteq Owners(collators[candidate].nominations) \cup {who}
    OBVIOUS
  <2> HIDE DEF n, old, bonds
  <2> QED BY <1>1, <1>2, <1>3, <2>4, <2>5, <2>6, NominatorCall
<1>6. CASE /\ collators' = [collators EXCEPT ![candidate].nominations =
                              Append(@, [owner |-> who, amount |-> amount])]
           /\ Reserve(who, amount) /\ Stake(amount) /\ UNCHANGED unfunded
  <2>1. collators' = [collators EXCEPT ![candidate].nominations = bonds]
    BY <1>6
  <2>2. totalStaked' = totalStaked + amount /\ totalStaked' \in Balance
    BY <1>6, StakeFacts
  <2>3. /\ accounts' \in [AccountIds -> AccountData]
        /\ overdrawn' \subseteq AccountIds /\ overdrawn \subseteq overdrawn'
        /\ \A a \in AccountIds : a # who => accounts'[a] = accounts[a]
    BY <1>3, <1>6, ReserveFacts
  <2>4. /\ totalStaked' + SumFunction(unfunded')
             = totalStaked + SumFunction(unfunded) + amount
        /\ unfunded' \in [AccountIds -> Nat]
    <3>1. SumFunction(unfunded) \in Nat /\ unfunded \in [AccountIds -> Nat]
      BY StakeSums, StateNumbers
    <3> QED BY <1>3, <1>6, <2>2, <3>1
  <2>5. Owners(bonds) \subseteq Owners(collators[candidate].nominations) \cup {who}
    BY <1>4
  <2> HIDE DEF n, old, bonds
  <2> QED BY <1>1, <1>2, <1>3, <1>4, <2>1, <2>2, <2>3, <2>4, <2>5, NominatorCall
<1> QED BY <1>5, <1>6 DEF Nominate

\* nominate_extra
LEMMA NominateExtraStep ==
  ASSUME LedgerInv, NEW who \in AccountIds, NEW candidate \in AccountIds,
         NEW extra \in 0 .. MaxStaked, NominateExtra(who, candidate, extra)
  PROVE  LedgerInv'
<1> USE DEF LedgerInv
<1> DEFINE n == NominatorExtra(nominators[who], candidate, extra)
           old == collators[candidate].nominations
           bonds == RaiseFirst(old, who, extra)
<1>1. /\ candidate \in DOMAIN collators /\ who \in DOMAIN nominators
      /\ n.total <= MaxTotal /\ nominators' = MapInsert(nominators, who, n)
      /\ candidate \in Owners(nominators[who].nominations)
      /\ who \in Owners(old)
      /\ UNCHANGED <<block, currentRound, exitQueue, totalStakedAt, exposures,
                     settings, unfunded>>
      /\ Reserve(who, extra) /\ Stake(extra)
      /\ collators' = [collators EXCEPT ![candidate].nominations = bonds]
  BY DEF NominateExtra, BothListed, Has, Bounded
<1>2. NominatorOK(nominators[who])
  BY <1>1 DEF NominatorsOK
<1>3. /\ NominatorOK(n) /\ n.total = nominators[who].total + extra
      /\ Owners(n.nominations) = Owners(nominators[who].nominations)
  BY <1>1, <1>2, NominatorExtraOK
<1>4. extra \in Nat /\ old \in Bonds /\ totalStaked \in Nat
  <2>1. CollatorTyped(collators[candidate])
    BY <1>1, CollatorFields DEF CollatorsOK
  <2> QED BY <2>1, Bounds DEF CollatorTyped, StateTyped
<1>5. bonds \in Bonds /\ Owners(bonds) = Owners(old)
  BY <1>1, <1>4, BondsRaised
<1>6. totalStaked' = totalStaked + extra /\ totalStaked' \in Balance
  BY <1>1, StakeFacts
<1>7. /\ accounts' \in [AccountIds -> AccountData]
      /\ overdrawn' \subseteq AccountIds /\ overdrawn \subseteq overdrawn'
      /\ \A a \in AccountIds : a # who => accounts'[a] = accounts[a]
  BY <1>1, <1>4, ReserveFacts
<1>8. /\ totalStaked' + SumFunction(unfunded')
           = totalStaked + SumFunction(unfunded) + extra
      /\ unfunded' \in [AccountIds -> Nat]
  <2>1. SumFunction(unfunded) \in Nat /\ unfunded \in [AccountIds -> Nat]
    BY StakeSums, StateNumbers
  <2> QED BY <1>1, <1>4, <1>6, <2>1
<1>9. n.total = HeldBy(nominators, who) + extra
  BY <1>1, <1>3 DEF HeldBy, Has
<1>10. Owners(bonds) \subseteq Owners(collators[candidate].nominations) \cup {who}
  BY <1>5
<1> HIDE DEF n, old, bonds
<1> QED BY <1>1, <1>3, <1>4, <1>5, <1>6, <1>7, <1>8, <1>9, <1>10, NominatorCall

\* A nominator's call that stakes nothing: nominate_less and the departure
\* from a collator.
LEMMA NothingStaked ==
  ASSUME LedgerInv, NEW who \in DOMAIN nominators, NEW candidate \in DOMAIN collators,
         NEW n, NominatorOK(n), nominators' = MapInsert(nominators, who, n),
         NEW bonds \in Bonds,
         collators' = [collators EXCEPT ![candidate].nominations = bonds],
         Owners(bonds) \subseteq Owners(collators[candidate].nominations),
         Owners(nominators[who].nominations) \ {candidate}
           \subseteq Owners(n.nominations),
         who \in Owners(bonds) => candidate \in Owners(n.nominations),
         n.total = nominators[who].total,
         UNCHANGED <<accounts, block, currentRound, exitQueue, totalStaked,
                     totalStakedAt, exposures, settings, unfunded, overdrawn>>
  PROVE  LedgerInv'
<1> USE DEF LedgerInv
<1>1. who \in AccountIds /\ NominatorTyped(nominators[who])
  BY NominatorFields DEF NominatorsOK
<1>2. n.total = HeldBy(nominators, who) + 0
  BY <1>1 DEF HeldBy, Has, NominatorTyped
<1>3. /\ totalStaked' + SumFunction(unfunded')
           = totalStaked + SumFunction(unfunded) + 0
      /\ accounts' \in [AccountIds -> AccountData] /\ totalStaked' \in Balance
      /\ \A a \in AccountIds : a # who => accounts'[a] = accounts[a]
      /\ overdrawn' \subseteq AccountIds /\ overdrawn \subseteq overdrawn'
      /\ unfunded' \in [AccountIds -> Nat]
  BY StakeSums DEF StateTyped
<1>4. Owners(bonds) \subseteq Owners(collators[candidate].nominations) \cup {who}
  OBVIOUS
<1> QED BY <1>1, <1>2, <1>3, <1>4, NominatorCall

\* nominate_less
LEMMA NominateLessStep ==
  ASSUME LedgerInv, NEW who, NEW candidate, NEW less \in 0 .. MaxStaked,
         NominateLess(who, candidate, less)
  PROVE  LedgerInv'
<1> USE DEF LedgerInv
<1> DEFINE n == NominatorLess(nominators[who], candidate, less, WithdrawRound)
           old == collators[candidate].nominations
           bonds == LowerFirst(old, who, less)
<1>1. /\ candidate \in DOMAIN collators /\ who \in DOMAIN nominators
      /\ nominators' = MapInsert(nominators, who, n)
      /\ candidate \in Owners(nominators[who].nominations)
      /\ UNCHANGED <<accounts, block, currentRound, exitQueue, totalStaked,
                     totalStakedAt, exposures, settings, unfunded, overdrawn>>
      /\ collators' = [collators EXCEPT ![candidate].nominations = bonds]
      /\ CanLowerFirst(nominators[who].nominations, candidate, less)
      /\ CanLowerFirst(old, who, less)
  BY DEF NominateLess, BothListed, Has, CanLower
<1>2. NominatorOK(nominators[who]) /\ less \in Nat /\ WithdrawRound \in Nat
  BY <1>1, RoundFacts, AmountsBounded DEF NominatorsOK
<1>3. /\ NominatorOK(n) /\ n.total = nominators[who].total
      /\ Owners(n.nominations) = Owners(nominators[who].nominations)
  BY <1>1, <1>2, NominatorLessOK
<1>4. old \in Bonds
  BY <1>1, CollatorFields DEF CollatorsOK, CollatorTyped
<1>5. bonds \in Bonds /\ Owners(bonds) = Owners(old)
  BY <1>1, <1>2, <1>4, BondsLowered
<1>6. Owners(bonds) \subseteq Owners(collators[candidate].nominations)
  BY <1>5
<1> HIDE DEF n, old, bonds
<1> QED BY <1>1, <1>3, <1>5, <1>6, NothingStaked

\* nominator_leave_collator
LEMMA LeaveCollatorStep ==
  ASSUME LedgerInv, NEW who, NEW candidate,
         NominatorLeaveCollator(who, candidate)
  PROVE  LedgerInv'
<1> USE DEF LedgerInv
<1> DEFINE n == NominatorRemove(nominators[who], candidate, WithdrawRound)
           old == collators[candidate].nominations
           bonds == WithoutOwner(old, who)
<1>1. /\ candidate \in DOMAIN collators /\ who \in DOMAIN nominators
      /\ nominators' = MapInsert(nominators, who, n)
      /\ candidate \in Owners(nominators[who].nominations)
      /\ UNCHANGED <<accounts, block, currentRound, exitQueue, totalStaked,
                     totalStakedAt, exposures, settings, unfunded, overdrawn>>
      /\ collators' = [collators EXCEPT ![candidate].nominations = bonds]
  BY DEF NominatorLeaveCollator, Has
<1>2. NominatorOK(nominators[who]) /\ WithdrawRound \in Nat
  BY <1>1, RoundFacts DEF NominatorsOK
<1>3. /\ NominatorOK(n) /\ n.total = nominators[who].total
      /\ Owners(n.nominations) = Owners(nominators[who].nominations) \ {candidate}
  BY <1>1, <1>2, NominatorRemoveOK
<1>4. old \in Bonds
  BY <1>1, CollatorFields DEF CollatorsOK, CollatorTyped
<1>5. bonds \in Bonds /\ Owners(bonds) = Owners(old) \ {who}
  BY <1>4, BondsDropped
<1>6. /\ Owners(bonds) \subseteq Owners(collators[candidate].nominations)
      /\ who \notin Owners(bonds)
      /\ Owners(nominators[who].nominations) \ {candidate}
           \subseteq Owners(n.nominations)
  BY <1>3, <1>5
<1> HIDE DEF n, old, bonds
<1> QED BY <1>1, <1>3, <1>5, <1>6, NothingStaked

-----------------------------------------------------------------------------
(* The start of a round.                                                   *)

\* What a round releases of the nominators' stake, and takes off TotalStaked
\* for the exits.
NominatorMatured(round) ==
  [a \in DOMAIN nominators |-> Values(Matured(nominators[a].unbonding, round))]
ExitsUnstaked(round) ==
  [a \in DOMAIN exitQueue |-> ExitUnstake(exitQueue[a], round)]

\* update_collators, for all of them.
LEMMA RoundCollators ==
  ASSUME CollatorsOK, NEW round \in Nat, round = NextRoundIndex,
         currentRound'.index = round,
         collators' = [a \in DOMAIN collators |-> UpdateCollator(collators[a], round)]
  PROVE  /\ CollatorsOK' /\ DOMAIN collators' = DOMAIN collators
         /\ SumFunction(CollatorStake') <= SumFunction(CollatorStake)
         /\ SumFunction(CollatorStake') \in Nat
         /\ SumFunction(CollatorStake) \in Nat
         /\ \A a \in DOMAIN collators :
              /\ collators'[a].nominations = collators[a].nominations
              /\ collators'[a].total + Values(Matured(collators[a].unbonding, round))
                   = collators[a].total
              /\ collators'[a].total \in Nat
              /\ Values(Matured(collators[a].unbonding, round)) \in Nat
<1>1. NextRoundIndex' = round + 1
  BY DEF NextRoundIndex
<1>2. /\ DOMAIN collators' = DOMAIN collators
      /\ \A a \in DOMAIN collators : collators'[a] = UpdateCollator(collators[a], round)
      /\ collators' = [a \in DOMAIN collators' |-> collators'[a]]
  OBVIOUS
<1>3. \A a \in DOMAIN collators :
        /\ CollatorOK(collators'[a], round + 1)
        /\ collators'[a].nominations = collators[a].nominations
        /\ collators'[a].total + Values(Matured(collators[a].unbonding, round))
             = collators[a].total
        /\ Values(Matured(collators[a].unbonding, round)) \in Nat
  <2> SUFFICES ASSUME NEW a \in DOMAIN collators
               PROVE  /\ CollatorOK(collators'[a], round + 1)
                      /\ collators'[a].nominations = collators[a].nominations
                      /\ collators'[a].total
                           + Values(Matured(collators[a].unbonding, round))
                           = collators[a].total
                      /\ Values(Matured(collators[a].unbonding, round)) \in Nat
    OBVIOUS
  <2>1. CollatorOK(collators[a], round)
    BY DEF CollatorsOK
  <2>2. collators'[a] = UpdateCollator(collators[a], round)
    BY <1>2
  <2>3. /\ CollatorOK(UpdateCollator(collators[a], round), round + 1)
        /\ UpdateCollator(collators[a], round).total
             + Values(Matured(collators[a].unbonding, round)) = collators[a].total
        /\ UpdateCollator(collators[a], round).nominations = collators[a].nominations
        /\ Values(Matured(collators[a].unbonding, round)) \in Nat
    BY <2>1, UpdateCollatorOK
  <2> QED BY <2>2, <2>3
<1>4. CollatorsOK'
  BY <1>1, <1>2, <1>3 DEF CollatorsOK
<1>5. \A a \in DOMAIN collators : /\ collators[a].total \in Nat
                                  /\ collators'[a].total \in Nat
  BY <1>3, CollatorFields DEF CollatorsOK, CollatorTyped
<1>6. IsFiniteSet(DOMAIN collators)
  BY StakingAssumption, FS_Subset DEF CollatorsOK
<1> DEFINE f == CollatorStake'
           g == CollatorStake
           D == DOMAIN collators
<1>7. /\ DOMAIN f = D /\ DOMAIN g = D
      /\ \A x \in D : f[x] \in Nat /\ g[x] \in Nat /\ f[x] <= g[x]
  BY <1>2, <1>3, <1>5 DEF CollatorStake
<1> HIDE DEF f, g, D
<1>8. SumFunctionOnSet(f, D) <= SumFunctionOnSet(g, D)
  BY <1>6, <1>7, SumLeq DEF D
<1>9. SumFunction(f) \in Nat /\ SumFunction(g) \in Nat
  BY <1>6, <1>7, SumOfNats DEF D
<1>10. SumFunction(f) <= SumFunction(g)
  BY <1>7, <1>8 DEF SumFunction
<1> QED BY <1>2, <1>3, <1>4, <1>5, <1>9, <1>10 DEF f, g

\* update_nominators, for all of them.
LEMMA RoundNominators ==
  ASSUME NominatorsOK, NEW round \in Nat,
         nominators' = [a \in DOMAIN nominators |-> UpdateNominator(nominators[a], round)]
  PROVE  /\ NominatorsOK' /\ DOMAIN nominators' = DOMAIN nominators
         /\ SumFunction(NominatorStake') + SumFunction(NominatorMatured(round))
              = SumFunction(NominatorStake)
         /\ SumFunction(NominatorStake') \in Nat
         /\ SumFunction(NominatorMatured(round)) \in Nat
         /\ \A a \in DOMAIN nominators :
              /\ nominators'[a].nominations = nominators[a].nominations
              /\ Values(Matured(nominators[a].unbonding, round)) \in Nat
<1>1. /\ DOMAIN nominators' = DOMAIN nominators
      /\ \A a \in DOMAIN nominators : nominators'[a] = UpdateNominator(nominators[a], round)
      /\ nominators' = [a \in DOMAIN nominators' |-> nominators'[a]]
  OBVIOUS
<1>2. \A a \in DOMAIN nominators :
        /\ NominatorOK(nominators'[a])
        /\ nominators'[a].nominations = nominators[a].nominations
        /\ nominators'[a].total + Values(Matured(nominators[a].unbonding, round))
             = nominators[a].total
        /\ Values(Matured(nominators[a].unbonding, round)) \in Nat
  BY <1>1, UpdateNominatorOK DEF NominatorsOK
<1>3. NominatorsOK'
  BY <1>1, <1>2 DEF NominatorsOK
<1>4. \A a \in DOMAIN nominators : /\ nominators[a].total \in Nat
                                   /\ nominators'[a].total \in Nat
  BY <1>2, NominatorFields DEF NominatorsOK, NominatorTyped
<1>5. IsFiniteSet(DOMAIN nominators)
  BY StakingAssumption, FS_Subset DEF NominatorsOK
<1> DEFINE f == NominatorStake'
           g == NominatorMatured(round)
           h == NominatorStake
           D == DOMAIN nominators
<1>6. /\ DOMAIN f = D /\ DOMAIN g = D /\ DOMAIN h = D
      /\ \A x \in D : f[x] \in Nat /\ g[x] \in Nat /\ h[x] = f[x] + g[x]
  BY <1>1, <1>2, <1>4 DEF NominatorStake, NominatorMatured
<1> HIDE DEF f, g, h, D
<1>7. SumFunctionOnSet(h, D) = SumFunctionOnSet(f, D) + SumFunctionOnSet(g, D)
  BY <1>5, <1>6, SumPlus DEF D
<1>8. SumFunction(f) \in Nat /\ SumFunction(g) \in Nat
  BY <1>5, <1>6, SumOfNats DEF D
<1>9. SumFunction(h) = SumFunction(f) + SumFunction(g)
  BY <1>6, <1>7 DEF SumFunction
<1> QED BY <1>1, <1>2, <1>3, <1>8, <1>9 DEF f, g, h

\* execute_exit_queue, for all of its entries.
LEMMA RoundExits ==
  ASSUME ExitsOK, NEW round \in Nat, exitQueue' = ExitQueueAfter(round)
  PROVE  /\ ExitsOK'
         /\ SumFunction(LeavingStake') + SumFunction(ExitsUnstaked(round))
              <= SumFunction(LeavingStake)
         /\ SumFunction(LeavingStake') \in Nat
         /\ SumFunction(ExitsUnstaked(round)) \in Nat
         /\ \A a \in DOMAIN exitQueue' : a \in DOMAIN exitQueue
         /\ \A a \in DOMAIN exitQueue :
              /\ ExitRelease(exitQueue[a], round) \in Nat
              /\ a \in DOMAIN exitQueue' =>
                   /\ Leaving(exitQueue'[a]) + ExitRelease(exitQueue[a], round)
                        = Leaving(exitQueue[a])
                   /\ Leaving(exitQueue'[a]) \in Nat
              /\ a \notin DOMAIN exitQueue' =>
                   ExitRelease(exitQueue[a], round) = Leaving(exitQueue[a])
<1> DEFINE D == DOMAIN exitQueue
           T == {x \in D : ~ ExitDue(exitQueue[x], round)}
           h == [x \in D |-> IF x \in T THEN Leaving(exitQueue'[x]) ELSE 0]
           u == ExitsUnstaked(round)
           k == [x \in D |-> h[x] + u[x]]
           f == LeavingStake
           g == LeavingStake'
<1>1. /\ DOMAIN exitQueue' = T /\ exitQueue' = [x \in DOMAIN exitQueue' |-> exitQueue'[x]]
      /\ \A x \in T : exitQueue'[x] = [exitQueue[x] EXCEPT !.unbonding =
                                         Pending(exitQueue[x].unbonding, round)]
  BY DEF ExitQueueAfter
<1>2. \A x \in D : exitQueue[x] \in Leavings
  BY DEF ExitsOK
<1>3. \A x \in D : /\ ExitRelease(exitQueue[x], round) \in Nat
                   /\ ExitUnstake(exitQueue[x], round) \in Nat
                   /\ ExitUnstake(exitQueue[x], round) <= ExitRelease(exitQueue[x], round)
                   /\ x \notin T => ExitRelease(exitQueue[x], round) = Leaving(exitQueue[x])
                   /\ Leaving(exitQueue[x]) \in Nat
  BY <1>2, ExitFacts, LeavingFields
<1>4. \A x \in T : /\ exitQueue'[x] \in Leavings
                   /\ Leaving(exitQueue'[x]) + ExitRelease(exitQueue[x], round)
                        = Leaving(exitQueue[x])
                   /\ Leaving(exitQueue'[x]) \in Nat
  <2> SUFFICES ASSUME NEW x \in T
               PROVE  /\ exitQueue'[x] \in Leavings
                      /\ Leaving(exitQueue'[x]) + ExitRelease(exitQueue[x], round)
                           = Leaving(exitQueue[x])
    BY LeavingFields
  <2>1. exitQueue[x] \in Leavings /\ ~ ExitDue(exitQueue[x], round)
    BY <1>2
  <2> HIDE DEF T, D
  <2>2. exitQueue'[x] = [exitQueue[x] EXCEPT !.unbonding =
                           Pending(exitQueue[x].unbonding, round)]
    BY <1>1
  <2> QED BY <2>1, <2>2, ExitStays
<1>5. ExitsOK'
  BY <1>1, <1>4 DEF ExitsOK
<1>6. IsFiniteSet(D) /\ IsFiniteSet(T) /\ T \in SUBSET D
  BY StakingAssumption, FS_Subset DEF ExitsOK
<1>7. DOMAIN f = D /\ DOMAIN g = T /\ DOMAIN u = D
  BY <1>1 DEF LeavingStake, ExitsUnstaked
<1>8. /\ \A x \in D : f[x] = Leaving(exitQueue[x]) /\ u[x] = ExitUnstake(exitQueue[x], round)
      /\ \A x \in T : g[x] = Leaving(exitQueue'[x])
  BY <1>1 DEF LeavingStake, ExitsUnstaked
<1> HIDE DEF D, T, f, g, u
<1>9. /\ \A x \in T : h[x] = g[x] /\ g[x] \in Nat
      /\ \A x \in D \ T : h[x] = 0
      /\ \A x \in D : h[x] \in Nat /\ u[x] \in Nat /\ k[x] = h[x] + u[x]
  BY <1>3, <1>4, <1>6, <1>8
<1>10. \A x \in D : k[x] \in Nat /\ f[x] \in Nat /\ k[x] <= f[x]
  <2> SUFFICES ASSUME NEW x \in D PROVE k[x] \in Nat /\ f[x] \in Nat /\ k[x] <= f[x]
    OBVIOUS
  <2>1. CASE x \in T
    BY <1>3, <1>4, <1>8, <1>9, <2>1
  <2>2. CASE x \notin T
    BY <1>3, <1>8, <1>9, <2>2
  <2> QED BY <2>1, <2>2
<1> HIDE DEF h, k
<1>11. SumFunctionOnSet(g, T) = SumFunctionOnSet(h, T)
  BY <1>6, <1>9, SumEqual
<1>12. SumFunctionOnSet(h, D) = SumFunctionOnSet(h, T)
  <2>1. SumFunctionOnSet(h, D) = SumFunctionOnSet(h, T) + SumFunctionOnSet(h, D \ T)
    BY <1>6, <1>9, SumSplit
  <2>2. SumFunctionOnSet(h, D \ T) = 0
    <3>1. IsFiniteSet(D \ T)
      BY <1>6, FS_Difference
    <3> QED BY <1>9, <3>1, SumZero
  <2>3. SumFunctionOnSet(h, T) \in Nat
    BY <1>6, <1>9, SumNat
  <2> QED BY <2>1, <2>2, <2>3
<1>13. SumFunctionOnSet(k, D) = SumFunctionOnSet(h, D) + SumFunctionOnSet(u, D)
  BY <1>6, <1>9, SumPlus
<1>14. SumFunctionOnSet(k, D) <= SumFunctionOnSet(f, D)
  BY <1>6, <1>10, SumLeq
<1>15. SumFunction(g) \in Nat /\ SumFunction(u) \in Nat
  BY <1>6, <1>7, <1>9, SumOfNats
<1>16. SumFunction(g) + SumFunction(u) <= SumFunction(f)
  BY <1>7, <1>11, <1>12, <1>13, <1>14 DEF SumFunction
<1>17. T = DOMAIN exitQueue' /\ \A a \in T : a \in DOMAIN exitQueue
  BY <1>1, <1>6 DEF D
<1> QED BY <1>3, <1>4, <1>5, <1>15, <1>16, <1>17 DEF f, g, u, D

\* What the round releases for an account, as a number; for one that is no
\* nominator it is what the pallet then owes it less.
LEMMA ReleasedFacts ==
  ASSUME CollatorsOK, NominatorsOK, ExitsOK,
         NEW round \in Nat, round = NextRoundIndex, currentRound'.index = round,
         collators' = [a \in DOMAIN collators |-> UpdateCollator(collators[a], round)],
         nominators' = [a \in DOMAIN nominators |-> UpdateNominator(nominators[a], round)],
         exitQueue' = ExitQueueAfter(round), NEW a
  PROVE  /\ Released(a, round) \in Nat
         /\ a \notin DOMAIN nominators =>
              OwedAsCollator(a)' + Released(a, round) = OwedAsCollator(a)
         /\ OwedAsCollator(a)' \in Nat
<1> DEFINE rc == IF Has(collators, a)
                   THEN Values(Matured(collators[a].unbonding, round)) ELSE 0
           rn == IF Has(nominators, a)
                   THEN Values(Matured(nominators[a].unbonding, round)) ELSE 0
           re == IF Has(exitQueue, a) THEN ExitRelease(exitQueue[a], round) ELSE 0
           c0 == IF Has(collators, a) THEN collators[a].total ELSE 0
           c1 == IF Has(collators', a) THEN collators'[a].total ELSE 0
           e0 == IF Has(exitQueue, a) THEN Leaving(exitQueue[a]) ELSE 0
           e1 == IF Has(exitQueue', a) THEN Leaving(exitQueue'[a]) ELSE 0
<1>1. /\ Released(a, round) = rc + rn + re
      /\ OwedAsCollator(a) = c0 + e0 /\ OwedAsCollator(a)' = c1 + e1
  BY DEF Released, OwedAsCollator, Leaving, Has
<1>2. rc \in Nat /\ c1 \in Nat /\ c1 + rc = c0
  BY RoundCollators DEF Has
<1>3. rn \in Nat /\ (a \notin DOMAIN nominators => rn = 0)
  BY RoundNominators DEF Has
<1>4. re \in Nat /\ e1 \in Nat /\ e1 + re = e0
  <2>1. CASE a \in DOMAIN exitQueue'
    BY <2>1, RoundExits DEF Has
  <2>2. CASE a \notin DOMAIN exitQueue'
    BY <2>2, RoundExits, LeavingFields DEF Has
  <2> QED BY <2>1, <2>2
<1> HIDE DEF rc, rn, re, c0, c1, e0, e1
<1> QED BY <1>1, <1>2, <1>3, <1>4

\* mint adds to the free balance, or does nothing.
LEMMA MintFacts ==
  ASSUME NEW d \in AccountData, NEW v \in Nat
  PROVE  Mint(d, v) \in AccountData /\ Mint(d, v).reserved = d.reserved
BY DEF Mint, DepositIntoExisting, AccountData

\* The payout and the releases of a round: what is released of a collator's
\* reserved balance is exactly what it is not owed any more.
LEMMA RoundBalances ==
  ASSUME LedgerInv, NEW round \in Nat, round = NextRoundIndex,
         NEW reward, \A a \in DOMAIN reward : reward[a] \in Nat,
         NEW winners, StartRound(round, reward, winners)
  PROVE  accounts' \in [AccountIds -> AccountData] /\ StakeBacked'
<1> USE DEF LedgerInv
<1> DEFINE d(a) == IF a \in DOMAIN reward THEN Mint(accounts[a], reward[a])
                                          ELSE accounts[a]
<1>1. accounts' = [a \in AccountIds |-> Unreserve(d(a), Released(a, round))]
  BY DEF StartRound
<1>2. \A a \in AccountIds : /\ d(a) \in AccountData
                            /\ d(a).reserved = accounts[a].reserved
                            /\ d(a).reserved \in Nat
  <2>1. \A a \in AccountIds : accounts[a] \in AccountData
    BY DEF StateTyped
  <2>2. \A a \in AccountIds : /\ d(a) \in AccountData
                              /\ d(a).reserved = accounts[a].reserved
    BY <2>1, MintFacts
  <2> QED BY <2>2 DEF AccountData
<1> HIDE DEF d
<1>3. /\ currentRound'.index = round
      /\ collators' = [a \in DOMAIN collators |-> UpdateCollator(collators[a], round)]
      /\ nominators' = [a \in DOMAIN nominators |-> UpdateNominator(nominators[a], round)]
      /\ exitQueue' = ExitQueueAfter(round) /\ overdrawn' = overdrawn
      /\ DOMAIN nominators' = DOMAIN nominators
  BY DEF StartRound
<1>4. \A a \in AccountIds :
        /\ Released(a, round) \in Nat
        /\ a \notin DOMAIN nominators =>
             OwedAsCollator(a)' + Released(a, round) = OwedAsCollator(a)
        /\ OwedAsCollator(a)' \in Nat
  BY <1>3, ReleasedFacts
<1>5. accounts' \in [AccountIds -> AccountData]
  BY <1>1, <1>2, <1>4, UnreserveFacts
<1>6. StakeBacked'
  <2> SUFFICES ASSUME NEW a \in AccountIds, a \notin DOMAIN nominators,
                      a \notin overdrawn
               PROVE  accounts'[a].reserved >= OwedAsCollator(a)'
    BY <1>3 DEF StakeBacked
  <2>1. accounts[a].reserved >= OwedAsCollator(a)
    BY DEF StakeBacked
  <2>2. Released(a, round) <= d(a).reserved
    BY <1>2, <1>4, <2>1
  <2>3. accounts'[a].reserved = d(a).reserved - Released(a, round)
    <3>1. accounts'[a] = Unreserve(d(a), Released(a, round))
      BY <1>1
    <3> QED BY <1>2, <1>4, <2>2, <3>1, UnreserveFacts
  <2> QED BY <1>2, <1>4, <2>1, <2>3
<1> QED BY <1>5, <1>6

\* The exposures name accounts, for a round that has started.
LEMMA RoundExposures ==
  ASSUME LedgerInv, NEW round \in Nat, NEW reward,
         NEW winners, winners \subseteq DOMAIN collators,
         StartRound(round, reward, winners)
  PROVE  /\ DOMAIN exposures' \subseteq Nat \X AccountIds
         /\ exposures' \in [DOMAIN exposures' -> SUBSET AccountIds]
<1> USE DEF LedgerInv
<1> DEFINE old == ExposuresAfterPayout(round)
           new == [k \in {round} \X winners |-> BackersOf(k[2])]
<1>1. exposures' = MapInsertAll(old, new)
  BY DEF StartRound
<1>2. DOMAIN nominators' \subseteq AccountIds
  BY DEF StartRound, NominatorsOK
<1>3. /\ DOMAIN old \subseteq Nat \X AccountIds
      /\ \A k \in DOMAIN old : old[k] \in SUBSET AccountIds
  BY DEF ExposuresAfterPayout, StateTyped
<1>4. /\ DOMAIN new \subseteq Nat \X AccountIds
      /\ \A k \in DOMAIN new : new[k] \in SUBSET AccountIds
  <2>1. winners \subseteq AccountIds
    BY DEF CollatorsOK
  <2>2. \A w : BackersOf(w) \in SUBSET AccountIds
    BY <1>2 DEF BackersOf
  <2> QED BY <2>1, <2>2
<1> HIDE DEF old, new
<1> QED BY <1>1, <1>3, <1>4 DEF MapInsertAll

\* A round starts.
LEMMA StartRoundStep ==
  ASSUME LedgerInv, NEW round \in Nat, round = NextRoundIndex, block' = block + 1,
         NEW reward, \A a \in DOMAIN reward : reward[a] \in Nat,
         NEW winners, winners \subseteq DOMAIN collators,
         StartRound(round, reward, winners)
  PROVE  LedgerInv'
<1> USE DEF LedgerInv
<1>1. /\ currentRound' = [index |-> round, start_in |-> block,
                          length |-> settings.blocks_per_round]
      /\ collators' = [a \in DOMAIN collators |-> UpdateCollator(collators[a], round)]
      /\ nominators' = [a \in DOMAIN nominators |-> UpdateNominator(nominators[a], round)]
      /\ exitQueue' = ExitQueueAfter(round)
      /\ totalStaked' = Minus(totalStaked, UnstakedAt(round))
      /\ totalStakedAt' = MapInsert(totalStakedAt, round, totalStaked')
      /\ UNCHANGED <<settings, unfunded, overdrawn>>
  BY DEF StartRound
<1>2. accounts' \in [AccountIds -> AccountData] /\ StakeBacked'
  BY RoundBalances
<1>3. /\ DOMAIN exposures' \subseteq Nat \X AccountIds
      /\ exposures' \in [DOMAIN exposures' -> SUBSET AccountIds]
  BY RoundExposures
<1>4. currentRound'.index = round
  BY <1>1
<1>5. /\ CollatorsOK' /\ DOMAIN collators' = DOMAIN collators
      /\ SumFunction(CollatorStake') <= SumFunction(CollatorStake)
      /\ SumFunction(CollatorStake') \in Nat /\ SumFunction(CollatorStake) \in Nat
      /\ \A a \in DOMAIN collators :
           collators'[a].nominations = collators[a].nominations
  BY <1>1, <1>4, RoundCollators
<1>6. /\ NominatorsOK' /\ DOMAIN nominators' = DOMAIN nominators
      /\ SumFunction(NominatorStake') + SumFunction(NominatorMatured(round))
           = SumFunction(NominatorStake)
      /\ SumFunction(NominatorStake') \in Nat
      /\ SumFunction(NominatorMatured(round)) \in Nat
      /\ \A a \in DOMAIN nominators :
           nominators'[a].nominations = nominators[a].nominations
  BY <1>1, RoundNominators
<1>7. /\ ExitsOK'
      /\ SumFunction(LeavingStake') + SumFunction(ExitsUnstaked(round))
           <= SumFunction(LeavingStake)
      /\ SumFunction(LeavingStake') \in Nat
      /\ SumFunction(ExitsUnstaked(round)) \in Nat
  BY <1>1, RoundExits
<1>8. UnstakedAt(round) = SumFunction(NominatorMatured(round))
                            + SumFunction(ExitsUnstaked(round))
  BY DEF UnstakedAt, NominatorMatured, ExitsUnstaked
<1>9. /\ totalStaked' \in Balance /\ totalStaked' \in Nat
      /\ totalStaked' >= totalStaked - UnstakedAt(round)
  <2>1. totalStaked \in Balance /\ totalStaked \in Nat /\ UnstakedAt(round) \in Nat
    BY <1>6, <1>7, <1>8, StateNumbers
  <2>2. totalStaked' \in Balance /\ totalStaked' >= totalStaked - UnstakedAt(round)
    BY <1>1, <2>1, Arithmetic
  <2> QED BY <2>2, Bounds
<1>10. StakeHeld'
  <2>1. SumFunction(unfunded') = SumFunction(unfunded)
    BY <1>1
  <2> QED BY <1>5, <1>6, <1>7, <1>8, <1>9, <2>1, StakeSums DEF StakeHeld
<1>11. NominationMirrored'
  BY <1>5, <1>6 DEF NominationMirrored
<1>12. totalStakedAt' \in [1 .. currentRound'.index -> Balance]
  <2>1. totalStakedAt \in [1 .. currentRound.index -> Balance]
        /\ currentRound.index \in Nat /\ round = currentRound.index + 1
    BY RoundFacts DEF StateTyped
  <2>2. (1 .. currentRound.index) \cup {round} = 1 .. round
    BY <2>1
  <2>3. \A x \in 1 .. round : x # round => x \in 1 .. currentRound.index
    BY <2>1
  <2> QED BY <1>1, <1>4, <1>9, <2>1, <2>2, <2>3 DEF MapInsert
<1>13. StateTyped'
  <2>1. currentRound' \in [index : Nat, start_in : Nat, length : Nat]
    BY <1>1 DEF StateTyped, SettingStruct
  <2> QED BY <1>1, <1>2, <1>3, <1>9, <1>12, <2>1 DEF StateTyped
<1> QED BY <1>2, <1>5, <1>6, <1>7, <1>10, <1>11, <1>13

\* A block ends.
LEMMA FinalizeStep ==
  ASSUME LedgerInv, FinalizeBlock
  PROVE  LedgerInv'
<1> USE DEF LedgerInv
<1>1. block' = block + 1 /\ NextRoundIndex \in Nat
  BY RoundFacts DEF FinalizeBlock
<1>2. CASE \E reward \in [Payees(NextRoundIndex) -> Rewards],
              winners \in SUBSET DOMAIN collators :
             StartRound(NextRoundIndex, reward, winners)
  <2>1. PICK reward \in [Payees(NextRoundIndex) -> Rewards],
             winners \in SUBSET DOMAIN collators :
               StartRound(NextRoundIndex, reward, winners)
    BY <1>2
  <2>2. \A a \in DOMAIN reward : reward[a] \in Nat
    BY StakingAssumption
  <2> QED BY <1>1, <2>1, <2>2, StartRoundStep
<1>3. CASE UNCHANGED <<accounts, currentRound, collators, nominators,
                       exitQueue, totalStaked, totalStakedAt, exposures,
                       settings, unfunded, overdrawn>>
  <2>1. StateTyped'
    BY <1>1, <1>3 DEF StateTyped
  <2>2. CollatorsOK' /\ NominatorsOK' /\ ExitsOK' /\ NominationMirrored'
    BY <1>3 DEF CollatorsOK, NominatorsOK, ExitsOK, NominationMirrored,
                NextRoundIndex
  <2>3. StakeHeld'
    BY <1>3 DEF StakeHeld, CollatorStake, NominatorStake, LeavingStake
  <2>4. StakeBacked'
    BY <1>3 DEF StakeBacked, OwedAsCollator, Has
  <2> QED BY <2>1, <2>2, <2>3, <2>4
<1> QED BY <1>2, <1>3 DEF FinalizeBlock

\* Every step keeps the ledgers in order.
LEMMA NextLedger == LedgerInv /\ [Next]_vars => LedgerInv'
<1> SUFFICES ASSUME LedgerInv, [Next]_vars PROVE LedgerInv'
  OBVIOUS
<1>1. ASSUME NEW who \in Candidates,
             \/ \E amount \in BondAmounts : Bond(who, amount)
             \/ \E extra \in ExtraAmounts : BondExtra(who, extra)
             \/ \E less \in LessAmounts : BondLess(who, less)
             \/ CollatorUnbond(who)
      PROVE  LedgerInv'
  <2>1. who \in AccountIds
    BY AmountsBounded
  <2>2. ASSUME NEW amount \in BondAmounts, Bond(who, amount) PROVE LedgerInv'
    BY <2>1, <2>2, AmountsBounded, BondStep
  <2>3. ASSUME NEW extra \in ExtraAmounts, BondExtra(who, extra) PROVE LedgerInv'
    BY <2>1, <2>3, AmountsBounded, BondExtraStep
  <2>4. ASSUME NEW less \in LessAmounts, BondLess(who, less) PROVE LedgerInv'
    BY <2>1, <2>4, AmountsBounded, BondLessStep
  <2>5. ASSUME CollatorUnbond(who) PROVE LedgerInv'
    BY <2>5, CollatorUnbondStep
  <2> QED BY <1>1, <2>2, <2>3, <2>4, <2>5
<1>2. ASSUME NEW who \in Backers, NEW candidate \in Candidates,
             \/ \E amount \in NominateAmounts : Nominate(who, candidate, amount)
             \/ \E extra \in NominateExtras : NominateExtra(who, candidate, extra)
             \/ \E less \in NominateLesses : NominateLess(who, candidate, less)
             \/ NominatorLeaveCollator(who, candidate)
      PROVE  LedgerInv'
  <2>1. who \in AccountIds /\ candidate \in AccountIds
    BY AmountsBounded
  <2>2. ASSUME NEW amount \in NominateAmounts, Nominate(who, candidate, amount)
        PROVE  LedgerInv'
    BY <2>1, <2>2, AmountsBounded, NominateStep
  <2>3. ASSUME NEW extra \in NominateExtras, NominateExtra(who, candidate, extra)
        PROVE  LedgerInv'
    BY <2>1, <2>3, AmountsBounded, NominateExtraStep
  <2>4. ASSUME NEW less \in NominateLesses, NominateLess(who, candidate, less)
        PROVE  LedgerInv'
    BY <2>4, AmountsBounded, NominateLessStep
  <2>5. ASSUME NominatorLeaveCollator(who, candidate) PROVE LedgerInv'
    BY <2>5, LeaveCollatorStep
  <2> QED BY <1>2, <2>2, <2>3, <2>4, <2>5
<1>3. ASSUME NEW s \in SettingChoices, Config(s) PROVE LedgerInv'
  BY <1>3, ConfigStep
<1>4. ASSUME NEW candidate \in Candidates, ForceOnboard(candidate) PROVE LedgerInv'
  BY <1>4, ForceOnboardStep
<1>5. ASSUME FinalizeBlock PROVE LedgerInv'
  BY <1>5, FinalizeStep
<1>6. CASE UNCHANGED vars
  <2>1. StateTyped'
    BY <1>6 DEF vars, LedgerInv, StateTyped
  <2>2. CollatorsOK' /\ NominatorsOK' /\ ExitsOK' /\ NominationMirrored'
    BY <1>6 DEF vars, LedgerInv, CollatorsOK, NominatorsOK, ExitsOK,
                NominationMirrored, NextRoundIndex
  <2>3. StakeHeld'
    BY <1>6 DEF vars, LedgerInv, StakeHeld, CollatorStake, NominatorStake,
                LeavingStake
  <2>4. StakeBacked'
    BY <1>6 DEF vars, LedgerInv, StakeBacked, OwedAsCollator, Has
  <2> QED BY <2>1, <2>2, <2>3, <2>4 DEF LedgerInv
<1> QED BY <1>1, <1>2, <1>3, <1>4, <1>5, <1>6
           DEF Next, CandidateCall, BackerCall, RootCall

\* The stakers of genesis, none of which exceeds their sum.
LEMMA GenesisFacts ==
  /\ IsFiniteSet(DOMAIN GenesisStakers) /\ GenesisBonded \subseteq DOMAIN GenesisStakers
  /\ \A a \in DOMAIN GenesisStakers : /\ GenesisStakers[a] \in 0 .. MaxStaked
                                      /\ a \in AccountIds
  /\ SumFunction(GenesisStakers) \in Balance
  /\ SumFunctionOnSet(GenesisStakers, GenesisBonded) <= SumFunction(GenesisStakers)
  /\ \A a \in GenesisBonded : GenesisStakers[a] >= MinCollatorStake
<1> DEFINE D == DOMAIN GenesisStakers
<1>1. /\ IsFiniteSet(D) /\ \A a \in D : GenesisStakers[a] \in Nat
      /\ D \subseteq AccountIds
  BY StakingAssumption, FS_Subset
<1>2. GenesisBonded \subseteq D /\ \A a \in GenesisBonded : GenesisStakers[a] >= MinCollatorStake
  BY DEF GenesisBonded
<1> HIDE DEF D
<1>3. SumFunctionOnSet(GenesisStakers, GenesisBonded) <= SumFunctionOnSet(GenesisStakers, D)
  BY <1>1, <1>2, SumSubset
<1>4. SumFunctionOnSet(GenesisStakers, D) \in Nat
  BY <1>1, SumNat
<1>5. SumFunction(GenesisStakers) = SumFunctionOnSet(GenesisStakers, D)
  BY DEF SumFunction, D
<1>6. SumFunction(GenesisStakers) \in Balance
  BY <1>4, <1>5, Bounds, BoundsAssumption DEF Balance
<1>7. ASSUME NEW a \in D PROVE GenesisStakers[a] \in 0 .. MaxStaked
  <2>1. SumFunctionOnSet(GenesisStakers, {a}) <= SumFunctionOnSet(GenesisStakers, D)
    <3>1. {a} \in SUBSET D
      OBVIOUS
    <3> QED BY <1>1, <3>1, SumSubset
  <2>2. SumFunctionOnSet(GenesisStakers, {a}) = GenesisStakers[a]
    <3>1. GenesisStakers[a] \in Int
      BY <1>1
    <3> QED BY <3>1, SumSingle
  <2> QED BY <1>1, <1>4, <1>5, <2>1, <2>2, Bounds, BoundsAssumption
<1> QED BY <1>1, <1>2, <1>3, <1>5, <1>6, <1>7 DEF D

\* Genesis puts the ledgers in order.
LEMMA InitLedger == Init => LedgerInv
<1> SUFFICES ASSUME Init PROVE LedgerInv
  OBVIOUS
<1>1. /\ nominators = EmptyMap /\ exitQueue = EmptyMap /\ exposures = EmptyMap
      /\ DOMAIN nominators = {} /\ DOMAIN exitQueue = {} /\ DOMAIN exposures = {}
      /\ collators = [a \in GenesisBonded |-> NewCollator(GenesisStakers[a], 1)]
      /\ currentRound = [index |-> 1, start_in |-> 0,
                         length |-> GenesisSettings.blocks_per_round]
      /\ totalStaked = SumFunction(GenesisStakers) /\ block = 1
      /\ totalStakedAt = [r \in {1} |-> SumFunction(GenesisStakers)]
      /\ settings = GenesisSettings /\ overdrawn = {}
      /\ unfunded = [a \in AccountIds |-> 0]
  BY DEF Init, EmptyMap
<1>2. /\ accounts \in [AccountIds -> AccountData]
      /\ \A a \in GenesisBonded : accounts[a].reserved = GenesisStakers[a]
      /\ \A a \in AccountIds : accounts[a].reserved \in Nat
  <2> DEFINE fresh(a) == [free |-> Endowment[a], reserved |-> 0]
             d(a) == IF a \in GenesisBonded
                       THEN ReserveOrNothing(fresh(a), GenesisStakers[a])
                       ELSE fresh(a)
  <2>1. accounts = [a \in AccountIds |-> d(a)]
    BY DEF Init
  <2>2. ASSUME NEW a \in AccountIds PROVE fresh(a) \in AccountData
    BY StakingAssumption DEF AccountData
  <2>3. ASSUME NEW a \in GenesisBonded
        PROVE  /\ d(a) = [free |-> Endowment[a] - GenesisStakers[a],
                          reserved |-> GenesisStakers[a]]
               /\ d(a) \in AccountData /\ a \in AccountIds
               /\ d(a).reserved = GenesisStakers[a]
    <3>1. /\ GenesisStakers[a] \in Nat /\ Endowment[a] \in Nat /\ a \in AccountIds
          /\ GenesisStakers[a] <= Endowment[a]
      BY StakingAssumption DEF GenesisBonded
    <3> QED BY <3>1 DEF ReserveOrNothing, CanReserve, AccountData
  <2>4. \A a \in AccountIds : d(a) \in AccountData
    BY <2>2, <2>3
  <2>5. \A a \in GenesisBonded : d(a).reserved = GenesisStakers[a] /\ a \in AccountIds
    <3> HIDE DEF d
    <3> QED BY <2>3
  <2> HIDE DEF d, fresh
  <2> QED BY <2>1, <2>4, <2>5 DEF AccountData
<1>3. StateTyped
  <2>1. 1 .. currentRound.index = {1}
    BY <1>1
  <2>2. currentRound \in [index : Nat, start_in : Nat, length : Nat]
    BY <1>1, StakingAssumption DEF SettingStruct
  <2>3. totalStakedAt \in [1 .. currentRound.index -> Balance]
    BY <1>1, <2>1, GenesisFacts
  <2>4. exposures \in [DOMAIN exposures -> SUBSET AccountIds]
    BY <1>1 DEF EmptyMap
  <2> QED BY <1>1, <1>2, <2>2, <2>3, <2>4, StakingAssumption, GenesisFacts DEF StateTyped
<1>4. /\ DOMAIN collators = GenesisBonded
      /\ \A a \in GenesisBonded : /\ CollatorOK(collators[a], NextRoundIndex)
                                  /\ collators[a].total = GenesisStakers[a]
                                  /\ collators[a].nominations = <<>>
  <2>1. NextRoundIndex = 2
    BY <1>1 DEF NextRoundIndex
  <2>2. ASSUME NEW a \in GenesisBonded
        PROVE  /\ CollatorOK(NewCollator(GenesisStakers[a], 1), 2)
               /\ NewCollator(GenesisStakers[a], 1).total = GenesisStakers[a]
               /\ NewCollator(GenesisStakers[a], 1).nominations = <<>>
    BY GenesisFacts, NewCollatorOK
  <2> QED BY <1>1, <2>1, <2>2
<1>5. CollatorsOK
  BY <1>1, <1>4, GenesisFacts DEF CollatorsOK
<1>6. NominatorsOK /\ ExitsOK
  BY <1>1 DEF NominatorsOK, ExitsOK, EmptyMap
<1>7. NominationMirrored
  BY <1>4 DEF NominationMirrored, Owners
<1>8. StakeHeld
  <2>1. /\ DOMAIN NominatorStake = {} /\ DOMAIN LeavingStake = {}
        /\ DOMAIN CollatorStake = GenesisBonded
        /\ \A a \in GenesisBonded : CollatorStake[a] = GenesisStakers[a]
    BY <1>1, <1>4 DEF NominatorStake, LeavingStake, CollatorStake
  <2>2. SumFunction(NominatorStake) = 0 /\ SumFunction(LeavingStake) = 0
    BY <2>1, SumEmpty DEF SumFunction
  <2>3. SumFunctionOnSet(GenesisStakers, GenesisBonded)
          = SumFunctionOnSet(CollatorStake, GenesisBonded)
    <3>1. IsFiniteSet(GenesisBonded)
      BY GenesisFacts, FS_Subset
    <3>2. \A a \in GenesisBonded : /\ GenesisStakers[a] \in Int
                                   /\ GenesisStakers[a] = CollatorStake[a]
      BY <2>1, GenesisFacts, AmountsBounded
    <3> QED BY <3>1, <3>2, SumEqual
  <2>4. SumFunction(CollatorStake) <= totalStaked
    BY <1>1, <2>1, <2>3, GenesisFacts DEF SumFunction
  <2> QED BY <1>3, <1>5, <1>6, <2>2, <2>4, StakeSums DEF StakeHeld
<1>9. StakeBacked
  <2> SUFFICES ASSUME NEW a \in AccountIds
               PROVE  accounts[a].reserved >= OwedAsCollator(a)
    BY DEF StakeBacked
  <2>1. OwedAsCollator(a) = (IF a \in GenesisBonded THEN GenesisStakers[a] ELSE 0) + 0
    BY <1>1, <1>4 DEF OwedAsCollator, Has
  <2> QED BY <1>2, <2>1
<1> QED BY <1>3, <1>5, <1>6, <1>7, <1>8, <1>9 DEF LedgerInv

-----------------------------------------------------------------------------
(* The votes of an election.                                               *)

\* The votes of get_npos_voters, by voter.
CollatorVote ==
  [a \in DOMAIN collators |->
     [who |-> a, role |-> "collator", weight |-> CollatorWeight(a), targets |-> {a}]]
NominatorVote ==
  [a \in DOMAIN nominators |->
     [who |-> a, role |-> "nominator", weight |-> NominatorWeight(a),
      targets |-> Owners(nominators[a].nominations)]]

\* The votes weigh no more than the ledgers' totals.
LEMMA VotesHeld ==
  ASSUME LedgerInv
  PROVE  /\ SumFunction([v \in NposVoters |-> v.weight]) \in Nat
         /\ SumFunction([v \in NposVoters |-> v.weight])
              <= SumFunction(CollatorStake) + SumFunction(NominatorStake)
<1> USE DEF LedgerInv
<1> DEFINE D == DOMAIN collators
           E == DOMAIN nominators
           A == {CollatorVote[a] : a \in D}
           B == {NominatorVote[a] : a \in E}
           g == [v \in NposVoters |-> v.weight]
           cw == [a \in D |-> CollatorWeight(a)]
           nw == [a \in E |-> NominatorWeight(a)]
<1>1. NposVoters = A \cup B
  BY DEF NposVoters, CollatorVote, NominatorVote
<1>2. \A a \in D : /\ cw[a] \in Nat /\ CollatorStake[a] \in Nat
                   /\ cw[a] <= CollatorStake[a]
  <2> SUFFICES ASSUME NEW a \in D
               PROVE  /\ CollatorWeight(a) \in Nat /\ collators[a].total \in Nat
                      /\ CollatorWeight(a) <= collators[a].total
    BY DEF CollatorStake
  <2>1. CollatorOK(collators[a], NextRoundIndex) /\ CollatorTyped(collators[a])
    BY CollatorFields DEF CollatorsOK
  <2> QED BY <2>1 DEF CollatorWeight, CollatorOK, CollatorTyped
<1>3. \A a \in E : nw[a] \in Nat /\ NominatorStake[a] = nw[a]
  BY NominatorFields DEF NominatorsOK, NominatorTyped, NominatorStake, NominatorWeight
<1>4. IsFiniteSet(D) /\ IsFiniteSet(E)
  BY StakingAssumption, FS_Subset DEF CollatorsOK, NominatorsOK
<1>5. /\ \A a, b \in D : CollatorVote[a] = CollatorVote[b] => a = b
      /\ \A a, b \in E : NominatorVote[a] = NominatorVote[b] => a = b
  BY DEF CollatorVote, NominatorVote
<1>6. A \cap B = {}
  BY DEF CollatorVote, NominatorVote
<1>7. \A a \in D : CollatorVote[a] \in NposVoters /\ g[CollatorVote[a]] = cw[a]
  <2>1. \A a \in D : CollatorVote[a] \in NposVoters
    BY <1>1
  <2>2. \A a \in D : CollatorVote[a].weight = cw[a]
    BY DEF CollatorVote
  <2> QED BY <2>1, <2>2
<1>8. \A a \in E : NominatorVote[a] \in NposVoters /\ g[NominatorVote[a]] = nw[a]
  <2>1. \A a \in E : NominatorVote[a] \in NposVoters
    BY <1>1
  <2>2. \A a \in E : NominatorVote[a].weight = nw[a]
    BY DEF NominatorVote
  <2> QED BY <2>1, <2>2
<1>9. /\ DOMAIN g = NposVoters /\ DOMAIN CollatorStake = D
      /\ DOMAIN NominatorStake = E
  BY DEF CollatorStake, NominatorStake
<1> HIDE DEF g, cw, nw, D, E
<1>10. IsFiniteSet(A) /\ SumFunctionOnSet(g, A) = SumFunctionOnSet(cw, D)
  BY <1>2, <1>4, <1>5, <1>7, SumImage
<1>11. IsFiniteSet(B) /\ SumFunctionOnSet(g, B) = SumFunctionOnSet(nw, E)
  BY <1>3, <1>4, <1>5, <1>8, SumImage
<1>12. \A v \in A \cup B : g[v] \in Int
  BY <1>2, <1>3, <1>7, <1>8
<1> HIDE DEF A, B
<1>13. SumFunctionOnSet(g, A \cup B) = SumFunctionOnSet(g, A) + SumFunctionOnSet(g, B)
  <2>1. IsFiniteSet(A \cup B)
    BY <1>10, <1>11, FS_Union
  <2>2. (A \cup B) \ A = B /\ A \in SUBSET (A \cup B)
    BY <1>6
  <2>3. SumFunctionOnSet(g, A \cup B)
          = SumFunctionOnSet(g, A) + SumFunctionOnSet(g, (A \cup B) \ A)
    BY <1>12, <2>1, <2>2, SumSplit
  <2> QED BY <2>2, <2>3
<1>14. SumFunctionOnSet(cw, D) <= SumFunctionOnSet(CollatorStake, D)
  BY <1>2, <1>4, SumLeq
<1>15. SumFunctionOnSet(nw, E) = SumFunctionOnSet(NominatorStake, E)
  BY <1>3, <1>4, SumEqual
<1>16. /\ SumFunctionOnSet(cw, D) \in Nat /\ SumFunctionOnSet(nw, E) \in Nat
       /\ SumFunctionOnSet(CollatorStake, D) \in Nat
  BY <1>2, <1>3, <1>4, SumNat
<1>17. /\ SumFunction(g) <= SumFunction(CollatorStake) + SumFunction(NominatorStake)
       /\ SumFunction(g) \in Nat
  BY <1>1, <1>9, <1>10, <1>11, <1>13, <1>14, <1>15, <1>16 DEF SumFunction
<1> QED BY <1>17 DEF g

-----------------------------------------------------------------------------
(* The theorems.                                                           *)

\* The inductive invariant holds in every state the pallet can reach.
THEOREM LedgerInvariant == Spec => []LedgerInv
BY InitLedger, NextLedger, PTL DEF Spec

\* Every storage item keeps its type; in particular no balance of a ledger and
\* no total ever leaves the range of Balance.
THEOREM TypeCorrect == Spec => []TypeOK
BY LedgerInvariant, LedgerTypes, PTL

\* Through every mix of calls and rounds a collator's total is its active bond,
\* the bond waiting to become active and the bond being withdrawn.
THEOREM CollatorsBalance == Spec => []CollatorLedger
<1>1. LedgerInv => CollatorLedger
  BY DEF LedgerInv, CollatorsOK, CollatorOK, CollatorLedger
<1> QED BY <1>1, LedgerInvariant, PTL

\* A collator that counts as active has the minimum at stake: bond_less checks
\* it, and an onboarding bond is active as a whole once its round starts.
THEOREM ActiveAboveMinimum == Spec => []ActiveMeetsMinimum
<1>1. LedgerInv => ActiveMeetsMinimum
  BY DEF LedgerInv, CollatorsOK, CollatorOK, ActiveMeetsMinimum
<1> QED BY <1>1, LedgerInvariant, PTL

\* A nominator's total covers its nominations and what it is withdrawing, so
\* the subtraction of consolidate_unbonded never wraps.
THEOREM NominatorsCovered == Spec => []NominatorLedger
<1>1. LedgerInv => NominatorLedger
  BY DEF LedgerInv, NominatorsOK, NominatorOK, NominatorLedger
<1> QED BY <1>1, LedgerInvariant, PTL

\* A nominator on a collator's list lists that collator: it can change and
\* withdraw the nomination.
THEOREM NominationsMirrored == Spec => []NominationMirrored
BY LedgerInvariant, PTL DEF LedgerInv

\* The stake of a collator is backed by its reserved balance, unless one of
\* its own reserves failed.
THEOREM StakeIsBacked == Spec => []StakeBacked
BY LedgerInvariant, PTL DEF LedgerInv

\* TotalStaked, with what nominate refused, covers the votes of an election.
THEOREM VotesAreCovered == Spec => []StakeCovered
<1>1. LedgerInv => StakeCovered
  <2> SUFFICES ASSUME LedgerInv PROVE StakeCovered
    OBVIOUS
  <2>1. /\ SumFunction(CollatorStake) \in Nat /\ SumFunction(NominatorStake) \in Nat
        /\ SumFunction(LeavingStake) \in Nat /\ SumFunction(unfunded) \in Nat
        /\ totalStaked \in Nat
    BY StakeSums DEF LedgerInv
  <2> DEFINE w == SumFunction([v \in NposVoters |-> v.weight])
  <2>2. w \in Nat /\ w <= SumFunction(CollatorStake) + SumFunction(NominatorStake)
    BY VotesHeld
  <2> HIDE DEF w
  <2>3. totalStaked + SumFunction(unfunded) >= w
    BY <2>1, <2>2 DEF LedgerInv, StakeHeld
  <2> QED BY <2>3 DEF StakeCovered, w
<1> QED BY <1>1, LedgerInvariant, PTL

-----------------------------------------------------------------------------
(* What is due when a round starts.                                        *)

\* No chunk of the list is due by the round.
AllLater(chunks, round) == \A i \in DOMAIN chunks : chunks[i].round > round

\* A round that starts leaves nothing behind that is due.
LEMMA RoundClears ==
  ASSUME LedgerInv, NEW round \in Nat, round = NextRoundIndex,
         NEW reward, NEW winners, StartRound(round, reward, winners)
  PROVE  NothingDue'
<1> USE DEF LedgerInv
<1>1. /\ currentRound'.index = round
      /\ DOMAIN collators' = DOMAIN collators
      /\ \A a \in DOMAIN collators : collators'[a] = UpdateCollator(collators[a], round)
      /\ DOMAIN nominators' = DOMAIN nominators
      /\ \A a \in DOMAIN nominators : nominators'[a] = UpdateNominator(nominators[a], round)
      /\ exitQueue' = ExitQueueAfter(round)
  BY DEF StartRound
<1>2. \A s \in Chunks : AllLater(Pending(s, round), round)
  BY Consolidated DEF AllLater
<1>3. ASSUME NEW a \in DOMAIN collators
      PROVE  /\ IsActive(collators'[a]) /\ AllLater(collators'[a].unlocking, round)
             /\ AllLater(collators'[a].unbonding, round)
  <2>1. CollatorOK(collators[a], round) /\ CollatorTyped(collators[a])
    BY CollatorFields DEF CollatorsOK
  <2>2. /\ IsActive(UpdateCollator(collators[a], round))
        /\ UpdateCollator(collators[a], round).unlocking
             = Pending(collators[a].unlocking, round)
        /\ UpdateCollator(collators[a], round).unbonding
             = Pending(collators[a].unbonding, round)
    BY <2>1, UpdateCollatorOK
  <2> QED BY <1>1, <1>2, <2>1, <2>2 DEF CollatorTyped
<1>4. ASSUME NEW a \in DOMAIN nominators
      PROVE  AllLater(nominators'[a].unbonding, round)
  <2>1. NominatorOK(nominators[a]) /\ NominatorTyped(nominators[a])
    BY NominatorFields DEF NominatorsOK
  <2>2. UpdateNominator(nominators[a], round).unbonding
          = Pending(nominators[a].unbonding, round)
    BY <2>1, UpdateNominatorOK
  <2> QED BY <1>1, <1>2, <2>1, <2>2 DEF NominatorTyped
<1>5. ASSUME NEW a \in DOMAIN exitQueue'
      PROVE  exitQueue'[a].when > round /\ AllLater(exitQueue'[a].unbonding, round)
  <2>1. a \in DOMAIN exitQueue /\ ~ ExitDue(exitQueue[a], round)
    BY <1>1 DEF ExitQueueAfter
  <2>2. exitQueue[a] \in Leavings
    BY <2>1 DEF ExitsOK
  <2>3. exitQueue'[a] = [exitQueue[a] EXCEPT !.unbonding =
                           Pending(exitQueue[a].unbonding, round)]
    BY <1>1, <2>1 DEF ExitQueueAfter
  <2>4. /\ exitQueue'[a].when = exitQueue[a].when
        /\ exitQueue'[a].unbonding = Pending(exitQueue[a].unbonding, round)
    BY <2>1, <2>2, <2>3, ExitStays
  <2>5. exitQueue[a].when \in Nat /\ exitQueue[a].unbonding \in Chunks
    BY <2>2, LeavingFields
  <2> QED BY <1>2, <2>1, <2>4, <2>5 DEF ExitDue
<1> QED BY <1>1, <1>3, <1>4, <1>5 DEF NothingDue, AllLater

\* Only the end of a block changes the round.
LEMMA RoundChanges ==
  ASSUME LedgerInv, [Next]_vars, currentRound'.index # currentRound.index
  PROVE  NothingDue'
<1>1. FinalizeBlock
  <2>1. CandidateCall => UNCHANGED currentRound
    BY DEF CandidateCall, Bond, BondExtra, BondLess, CollatorUnbond
  <2>2. BackerCall => UNCHANGED currentRound
    <3>1. \A who, candidate, v :
            /\ Nominate(who, candidate, v) => UNCHANGED currentRound
            /\ NominateExtra(who, candidate, v) => UNCHANGED currentRound
      BY DEF Nominate, NominateExtra
    <3>2. \A who, candidate, v :
            /\ NominateLess(who, candidate, v) => UNCHANGED currentRound
            /\ NominatorLeaveCollator(who, candidate) => UNCHANGED currentRound
      BY DEF NominateLess, NominatorLeaveCollator
    <3> QED BY <3>1, <3>2 DEF BackerCall
  <2>3. RootCall => UNCHANGED currentRound
    BY DEF RootCall, Config, ForceOnboard
  <2>4. UNCHANGED vars => UNCHANGED currentRound
    BY DEF vars
  <2> QED BY <2>1, <2>2, <2>3, <2>4 DEF Next
<1>2. PICK reward \in [Payees(NextRoundIndex) -> Rewards],
           winners \in SUBSET DOMAIN collators :
             StartRound(NextRoundIndex, reward, winners)
  BY <1>1 DEF FinalizeBlock
<1>3. NextRoundIndex \in Nat
  BY RoundFacts DEF LedgerInv
<1> QED BY <1>2, <1>3, RoundClears

\* When a round has started, no bond waits to become active and no withdrawal
\* and no exit waits to be released that was due by it.
THEOREM RoundsLeaveNothingDue == Spec => NothingLeftDue
<1>1. LedgerInv /\ [Next]_vars =>
        [currentRound'.index # currentRound.index => NothingDue']_vars
  BY RoundChanges
<1> QED BY <1>1, LedgerInvariant, PTL DEF Spec, NothingLeftDue

-----------------------------------------------------------------------------
(* What a nominator has reserved.                                          *)

\* The list and the withdrawals of an account, empty if it never nominated.
NominationsOf(a) == IF Has(nominators, a) THEN nominators[a].nominations ELSE <<>>
Withdrawing(a) == IF Has(nominators, a) THEN Values(nominators[a].unbonding) ELSE 0

\* What each collator's list holds of the account.
Holdings(a) == [c \in DOMAIN collators |-> Owned(collators[c].nominations, a)]

\* KeptWhole, for every account.
Whole(a) ==
  /\ unfunded[a] = 0 /\ a \notin overdrawn
  /\ Has(nominators, a) =>
       nominators[a].total =
         Amounts(nominators[a].nominations) + Values(nominators[a].unbonding)

\* The collators' lists and the nominators' lists fit together.
ListsFit ==
  \A c \in DOMAIN collators, a \in AccountIds :
    PairOK(collators[c].nominations, a, NominationsOf(a), c, unfunded[a])

\* Only accounts that bond are collators or leave.
BondersOnly == DOMAIN collators \subseteq Bonders /\ DOMAIN exitQueue \subseteq Bonders

\* What is reserved is what the collators' lists hold and what is unbonding.
ReservedExactly ==
  \A a \in AccountIds \ Bonders : Whole(a) =>
    accounts[a].reserved = SumFunction(Holdings(a)) + Withdrawing(a)

\* The inductive invariant of the refunds, on top of LedgerInv.
RefundInv == ListsFit /\ BondersOnly /\ ReservedExactly

\* The types of what it is about.
LEMMA ListsTyped ==
  ASSUME LedgerInv
  PROVE  /\ \A c \in DOMAIN collators : /\ collators[c].nominations \in Bonds
                                        /\ collators[c].nominations \in Seq(NatBond)
                                        /\ c \in AccountIds
         /\ \A a \in AccountIds : /\ NominationsOf(a) \in Bonds
                                  /\ NominationsOf(a) \in Seq(NatBond)
                                  /\ Withdrawing(a) \in Nat
                                  /\ a \in Nat
                                  /\ accounts[a] \in AccountData
                                  /\ accounts[a].reserved \in Nat
                                  /\ unfunded[a] \in Nat
<1>1. \A c \in DOMAIN collators : /\ collators[c].nominations \in Bonds
                                  /\ c \in AccountIds
  BY CollatorFields DEF LedgerInv, CollatorsOK, CollatorTyped
<1>2. \A a \in DOMAIN nominators : /\ nominators[a].nominations \in Bonds
                                   /\ Values(nominators[a].unbonding) \in Nat
  BY NominatorFields DEF LedgerInv, NominatorsOK, NominatorTyped
<1>3. <<>> \in Bonds
  BY DEF Bonds
<1>4. \A a \in AccountIds : NominationsOf(a) \in Bonds /\ Withdrawing(a) \in Nat
  BY <1>2, <1>3 DEF NominationsOf, Withdrawing, Has
<1>5. \A s \in Bonds : s \in Seq(NatBond)
  BY BondsAre
<1>6. \A a \in AccountIds : /\ a \in Nat /\ accounts[a] \in AccountData
                            /\ accounts[a].reserved \in Nat
                            /\ unfunded[a] \in Nat
  BY StakingAssumption DEF LedgerInv, StateTyped, AccountData
<1> QED BY <1>1, <1>4, <1>5, <1>6

\* What the lists hold of an account is a number.
LEMMA HoldingsTyped ==
  ASSUME LedgerInv, NEW a
  PROVE  /\ DOMAIN Holdings(a) = DOMAIN collators
         /\ IsFiniteSet(DOMAIN collators)
         /\ \A c \in DOMAIN collators :
              /\ Holdings(a)[c] = Owned(collators[c].nominations, a)
              /\ Holdings(a)[c] \in Nat
         /\ SumFunction(Holdings(a)) \in Nat
<1>1. IsFiniteSet(DOMAIN collators)
  BY StakingAssumption, FS_Subset DEF LedgerInv, CollatorsOK
<1>2. \A c \in DOMAIN collators : Owned(collators[c].nominations, a) \in Nat
  BY ListsTyped, OwnedTotal
<1>3. /\ DOMAIN Holdings(a) = DOMAIN collators
      /\ \A c \in DOMAIN collators :
           /\ Holdings(a)[c] = Owned(collators[c].nominations, a)
           /\ Holdings(a)[c] \in Nat
  BY <1>2 DEF Holdings
<1> QED BY <1>1, <1>3, SumOfNats

\* One collator's list changes, or is new.
LEMMA HoldingsChange ==
  ASSUME LedgerInv, LedgerInv', NEW a, NEW k,
         DOMAIN collators' = DOMAIN collators \cup {k},
         \A c \in DOMAIN collators : c # k =>
           collators'[c].nominations = collators[c].nominations
  PROVE  SumFunction(Holdings(a)')
           + (IF k \in DOMAIN collators
                THEN Owned(collators[k].nominations, a) ELSE 0)
             = SumFunction(Holdings(a)) + Owned(collators'[k].nominations, a)
<1> DEFINE f == Holdings(a)
           g == Holdings(a)'
<1>1. /\ DOMAIN f = DOMAIN collators /\ IsFiniteSet(DOMAIN f)
      /\ \A c \in DOMAIN f : f[c] = Owned(collators[c].nominations, a) /\ f[c] \in Nat
  BY HoldingsTyped
<1>2. /\ DOMAIN g = DOMAIN collators'
      /\ \A c \in DOMAIN g : g[c] = Owned(collators'[c].nominations, a)
    BY DEF Holdings
<1>3. Owned(collators'[k].nominations, a) \in Nat
  <2>1. collators'[k].nominations \in Seq(NatBond)
    <3>1. CollatorOK(collators'[k], NextRoundIndex')
      BY DEF LedgerInv, CollatorsOK
    <3>2. collators'[k].nominations \in Bonds
      BY <3>1, CollatorFields DEF CollatorTyped
    <3> QED BY <3>2, BondsAre
  <2> QED BY <2>1, OwnedTotal
<1> HIDE DEF f, g
<1>4. /\ DOMAIN g = DOMAIN f \cup {k} /\ g[k] \in Nat
      /\ \A c \in DOMAIN f : c # k => g[c] = f[c]
  BY <1>1, <1>2, <1>3
<1>5. SumFunction(g) + (IF k \in DOMAIN f THEN f[k] ELSE 0) = SumFunction(f) + g[k]
  BY <1>1, <1>4, SumPut
<1> QED BY <1>1, <1>2, <1>4, <1>5 DEF f, g


\* Steps that touch neither list nor balance of a nominator.
LEMMA RefundFrame ==
  ASSUME RefundInv,
         UNCHANGED <<accounts, collators, nominators, exitQueue, unfunded, overdrawn>>
  PROVE  RefundInv'
<1>1. ListsFit'
  BY DEF RefundInv, ListsFit, NominationsOf, Has
<1>2. BondersOnly'
  BY DEF RefundInv, BondersOnly
<1>3. ReservedExactly'
  BY DEF RefundInv, ReservedExactly, Whole, Holdings, Withdrawing, Has
<1> QED BY <1>1, <1>2, <1>3 DEF RefundInv

\* A collator's record is written: bond, bond_extra, bond_less and
\* force_onboard.
LEMMA CollatorWritten ==
  ASSUME LedgerInv, LedgerInv', RefundInv, NEW who \in Bonders, NEW r,
         collators' = MapInsert(collators, who, r),
         Has(collators, who) => r.nominations = collators[who].nominations,
         ~ Has(collators, who) => r.nominations = <<>>,
         \A a \in AccountIds \ Bonders : accounts'[a] = accounts[a],
         overdrawn \subseteq overdrawn',
         UNCHANGED <<nominators, exitQueue, unfunded>>
  PROVE  RefundInv'
<1>1. /\ DOMAIN collators' = DOMAIN collators \cup {who}
      /\ \A c \in DOMAIN collators :
           collators'[c].nominations = collators[c].nominations
      /\ who \notin DOMAIN collators => collators'[who].nominations = <<>>
  BY DEF MapInsert, Has
<1>2. \A a : NominationsOf(a)' = NominationsOf(a) /\ Withdrawing(a)' = Withdrawing(a)
  BY DEF NominationsOf, Withdrawing, Has
<1>3. ListsFit'
  <2> SUFFICES ASSUME NEW c \in DOMAIN collators', NEW a \in AccountIds
               PROVE  PairOK(collators'[c].nominations, a, NominationsOf(a)', c,
                             unfunded'[a])
    BY DEF ListsFit
  <2>1. CASE c \in DOMAIN collators
    BY <1>1, <1>2, <2>1 DEF RefundInv, ListsFit
  <2>2. CASE c \notin DOMAIN collators
    <3>1. collators'[c].nominations = <<>>
      BY <1>1, <2>2
    <3>2. NominationsOf(a) \in Seq(NatBond)
      BY ListsTyped
    <3> QED BY <1>2, <3>1, <3>2, PairUnlisted
  <2> QED BY <2>1, <2>2
<1>4. BondersOnly'
  BY <1>1 DEF RefundInv, BondersOnly
<1>5. ReservedExactly'
  <2> SUFFICES ASSUME NEW a \in AccountIds \ Bonders, Whole(a)'
               PROVE  accounts'[a].reserved
                        = SumFunction(Holdings(a)') + Withdrawing(a)'
    BY DEF ReservedExactly
  <2>1. Whole(a)
    BY DEF Whole, Has
  <2>2. accounts[a].reserved = SumFunction(Holdings(a)) + Withdrawing(a)
    BY <2>1 DEF RefundInv, ReservedExactly
  <2> DEFINE x == IF who \in DOMAIN collators
                    THEN Owned(collators[who].nominations, a) ELSE 0
             y == Owned(collators'[who].nominations, a)
  <2>3. SumFunction(Holdings(a)') + x = SumFunction(Holdings(a)) + y
    BY <1>1, HoldingsChange
  <2>4. x = y /\ x \in Nat
    <3>1. CASE who \in DOMAIN collators
      BY <1>1, <3>1, ListsTyped, OwnedTotal
    <3>2. CASE who \notin DOMAIN collators
      <4>1. NominationsOf(a) \in Seq(NatBond)
        BY ListsTyped
      <4> QED BY <1>1, <3>2, <4>1, PairUnlisted
    <3> QED BY <3>1, <3>2
  <2>5. SumFunction(Holdings(a)) \in Nat
    BY HoldingsTyped
  <2>6. SumFunction(Holdings(a)') \in Nat
    <3>1. (IsFiniteSet(DOMAIN collators))'
      BY StakingAssumption, FS_Subset DEF LedgerInv, CollatorsOK
    <3>2. \A c \in DOMAIN collators' : Owned(collators'[c].nominations, a) \in Nat
      <4>1. \A c \in DOMAIN collators : Owned(collators[c].nominations, a) \in Nat
        BY ListsTyped, OwnedTotal
      <4> QED BY <1>1, <2>4, <4>1
    <3> QED BY <3>1, <3>2, SumOfNats DEF Holdings
  <2> HIDE DEF x, y
  <2>7. SumFunction(Holdings(a)') = SumFunction(Holdings(a))
    BY <2>3, <2>4, <2>5, <2>6
  <2> QED BY <1>2, <2>2, <2>7
<1> QED BY <1>3, <1>4, <1>5 DEF RefundInv

\* A nominator's call: its record and one collator's list change.
LEMMA NominatorWritten ==
  ASSUME LedgerInv, LedgerInv', RefundInv,
         NEW who \in AccountIds, NEW k \in DOMAIN collators, NEW n, NEW bonds,
         bonds \in Seq(NatBond), n.nominations \in Seq(NatBond),
         Values(n.unbonding) \in Nat,
         nominators' = MapInsert(nominators, who, n),
         \/ collators' = collators /\ bonds = collators[k].nominations
         \/ collators' = [collators EXCEPT ![k].nominations = bonds],
         \A a \in AccountIds : a # who =>
           /\ SameOf(collators[k].nominations, bonds, a)
           /\ accounts'[a] = accounts[a] /\ unfunded'[a] = unfunded[a],
         \A c \in AccountIds : c # k => SameOf(NominationsOf(who), n.nominations, c),
         overdrawn \subseteq overdrawn', unfunded'[who] >= unfunded[who],
         PairOK(bonds, who, n.nominations, k, unfunded'[who]),
         Whole(who)' =>
           /\ Whole(who)
           /\ accounts'[who].reserved + Owned(collators[k].nominations, who)
                + Withdrawing(who)
              = accounts[who].reserved + Owned(bonds, who) + Values(n.unbonding),
         UNCHANGED exitQueue
  PROVE  RefundInv'
<1>1. /\ DOMAIN collators' = DOMAIN collators
      /\ collators'[k].nominations = bonds
      /\ \A c \in DOMAIN collators : c # k => collators'[c] = collators[c]
  <2>1. CASE collators' = collators /\ bonds = collators[k].nominations
    BY <2>1
  <2>2. CASE collators' = [collators EXCEPT ![k].nominations = bonds]
    <3> DEFINE d == [collators[k] EXCEPT !.nominations = bonds]
    <3>1. d.nominations = bonds
      <4>1. CollatorOK(collators[k], NextRoundIndex)
        BY DEF LedgerInv, CollatorsOK
      <4> QED BY <4>1 DEF CollatorOK, CollatorLedgers
    <3>2. collators' = MapInsert(collators, k, d)
      BY <2>2, NominationsInsert DEF LedgerInv
    <3> HIDE DEF d
    <3> QED BY <3>1, <3>2 DEF MapInsert
  <2> QED BY <2>1, <2>2
<1>2. /\ DOMAIN nominators' = DOMAIN nominators \cup {who} /\ nominators'[who] = n
      /\ \A a \in DOMAIN nominators : a # who => nominators'[a] = nominators[a]
  BY DEF MapInsert
<1>3. /\ NominationsOf(who)' = n.nominations /\ Withdrawing(who)' = Values(n.unbonding)
      /\ \A a : a # who => /\ NominationsOf(a)' = NominationsOf(a)
                           /\ Withdrawing(a)' = Withdrawing(a)
  BY <1>2 DEF NominationsOf, Withdrawing, Has
<1>4. \A s, a : SameOf(s, s, a)
  BY DEF SameOf
<1>5. /\ \A a \in AccountIds : unfunded[a] \in Nat
      /\ \A c \in DOMAIN collators : c \in AccountIds
      /\ \A a \in AccountIds : unfunded'[a] \in Nat
  BY ListsTyped DEF LedgerInv, StateTyped
<1>6. \A a \in AccountIds : unfunded'[a] = 0 => unfunded[a] = 0
  BY <1>5
<1>7. ListsFit'
  <2> SUFFICES ASSUME NEW c \in DOMAIN collators', NEW a \in AccountIds
               PROVE  PairOK(collators'[c].nominations, a, NominationsOf(a)', c,
                             unfunded'[a])
    BY DEF ListsFit
  <2>1. CASE c = k /\ a = who
    BY <1>1, <1>3, <2>1
  <2>2. CASE c # k \/ a # who
    <3>1. PairOK(collators[c].nominations, a, NominationsOf(a), c, unfunded[a])
      BY <1>1 DEF RefundInv, ListsFit
    <3>2. SameOf(collators[c].nominations, collators'[c].nominations, a)
      <4>1. CASE c # k
        BY <1>1, <1>4, <4>1
      <4>2. CASE c = k
        BY <1>1, <2>2, <4>2
      <4> QED BY <4>1, <4>2
    <3>3. SameOf(NominationsOf(a), NominationsOf(a)', c)
      <4>1. CASE a # who
        BY <1>3, <1>4, <4>1
      <4>2. CASE a = who
        BY <1>1, <1>3, <1>5, <2>2, <4>2
      <4> QED BY <4>1, <4>2
    <3>4. (unfunded'[a] = 0) => (unfunded[a] = 0)
      BY <1>6
    <3> QED BY ONLY <3>1, <3>2, <3>3, <3>4, PairSame
  <2> QED BY <2>1, <2>2
<1>8. BondersOnly'
  BY <1>1 DEF RefundInv, BondersOnly
<1>9. ReservedExactly'
  <2> SUFFICES ASSUME NEW a \in AccountIds \ Bonders, Whole(a)'
               PROVE  accounts'[a].reserved
                        = SumFunction(Holdings(a)') + Withdrawing(a)'
    BY DEF ReservedExactly
  <2>1. Whole(a)
    <3>1. CASE a = who
      BY <3>1
    <3>2. CASE a # who
      BY <1>2, <1>6, <3>2 DEF Whole, Has
    <3> QED BY <3>1, <3>2
  <2>2. accounts[a].reserved = SumFunction(Holdings(a)) + Withdrawing(a)
    BY <2>1 DEF RefundInv, ReservedExactly
  <2>3. SumFunction(Holdings(a)') + Owned(collators[k].nominations, a)
          = SumFunction(Holdings(a)) + Owned(bonds, a)
    <3>1. DOMAIN collators' = DOMAIN collators \cup {k}
      BY <1>1
    <3>2. SumFunction(Holdings(a)')
            + (IF k \in DOMAIN collators
                 THEN Owned(collators[k].nominations, a) ELSE 0)
            = SumFunction(Holdings(a)) + Owned(collators'[k].nominations, a)
      BY <1>1, <3>1, HoldingsChange
    <3> QED BY <1>1, <3>2
  <2>4. /\ SumFunction(Holdings(a)) \in Nat /\ Owned(bonds, a) \in Nat
        /\ Owned(collators[k].nominations, a) \in Nat /\ Withdrawing(a) \in Nat
        /\ accounts[a].reserved \in Nat
    BY HoldingsTyped, ListsTyped, OwnedTotal
  <2>5. SumFunction(Holdings(a)') \in Nat /\ accounts'[a].reserved \in Nat
    <3>1. (IsFiniteSet(DOMAIN collators))'
      BY StakingAssumption, FS_Subset DEF LedgerInv, CollatorsOK
    <3>2. \A c \in DOMAIN collators' : Owned(collators'[c].nominations, a) \in Nat
      <4>1. \A c \in DOMAIN collators : Owned(collators[c].nominations, a) \in Nat
        BY ListsTyped, OwnedTotal
      <4> QED BY <1>1, <2>4, <4>1
    <3>3. accounts'[a].reserved \in Nat
      BY DEF LedgerInv, StateTyped, AccountData
    <3> QED BY <3>1, <3>2, <3>3, SumOfNats DEF Holdings
  <2>6. CASE a = who
    <3>1. accounts'[a].reserved + Owned(collators[k].nominations, a) + Withdrawing(a)
            = accounts[a].reserved + Owned(bonds, a) + Values(n.unbonding)
      BY <2>6
    <3>2. Withdrawing(a)' = Values(n.unbonding) /\ Values(n.unbonding) \in Nat
      BY <1>3, <2>6
    <3> QED BY ONLY <2>2, <2>3, <2>4, <2>5, <3>1, <3>2
  <2>7. CASE a # who
    <3>1. Owned(collators[k].nominations, a) = Owned(bonds, a)
      BY <2>7 DEF SameOf
    <3>2. Withdrawing(a)' = Withdrawing(a) /\ accounts'[a] = accounts[a]
      BY <1>3, <2>7
    <3> QED BY <2>2, <2>3, <2>4, <2>5, <3>1, <3>2
  <2> QED BY <2>6, <2>7
<1> QED BY <1>7, <1>8, <1>9 DEF RefundInv

\* A nominator whose ledger is whole after its call had it whole before.
LEMMA WholeBefore ==
  ASSUME LedgerInv, LedgerInv', NEW who \in AccountIds, NEW n,
         nominators' = MapInsert(nominators, who, n),
         overdrawn \subseteq overdrawn', unfunded'[who] >= unfunded[who],
         Has(nominators, who)
           /\ n.total = Amounts(n.nominations) + Values(n.unbonding)
         => nominators[who].total = Amounts(nominators[who].nominations)
                                      + Values(nominators[who].unbonding),
         Whole(who)'
  PROVE  /\ Whole(who)
         /\ n.total = Amounts(n.nominations) + Values(n.unbonding)
         /\ unfunded'[who] = 0 /\ who \notin overdrawn'
<1>1. who \in DOMAIN nominators' /\ nominators'[who] = n
  BY DEF MapInsert
<1>2. /\ n.total = Amounts(n.nominations) + Values(n.unbonding)
      /\ unfunded'[who] = 0 /\ who \notin overdrawn'
  BY <1>1 DEF Whole, Has
<1>3. unfunded[who] \in Nat
  BY ListsTyped
<1>4. unfunded[who] = 0 /\ who \notin overdrawn
  BY <1>2, <1>3
<1> QED BY <1>2, <1>4 DEF Whole

\* The lists of what nominate makes of its caller.
LEMMA NominatorWithLists ==
  ASSUME LedgerInv, NEW who \in AccountIds, NEW bond \in NatBond
  PROVE  LET n == NominatorWith(who, bond)
         IN  /\ n.nominations = Append(NominationsOf(who), bond)
             /\ Values(n.unbonding) = Withdrawing(who)
             /\ Has(nominators, who) => n.unbonding = nominators[who].unbonding
<1> DEFINE n == NominatorWith(who, bond)
<1>1. CASE Has(nominators, who)
  <2>1. nominators[who] \in NominatorLedgers
    BY <1>1 DEF LedgerInv, NominatorsOK, NominatorOK, Has
  <2> DEFINE m == nominators[who]
  <2>2. m.nominations = NominationsOf(who) /\ Values(m.unbonding) = Withdrawing(who)
    BY <1>1 DEF NominationsOf, Withdrawing
  <2>3. n = NominatorAdd(m, bond)
    BY <1>1 DEF NominatorWith
  <2> HIDE DEF m
  <2>4. /\ NominatorAdd(m, bond).nominations = Append(m.nominations, bond)
        /\ NominatorAdd(m, bond).unbonding = m.unbonding
    BY <2>1 DEF NominatorAdd, NominatorLedgers, m
  <2> QED BY <2>2, <2>3, <2>4 DEF m
<1>2. CASE ~ Has(nominators, who)
  <2>1. n.nominations = <<bond>> /\ n.unbonding = <<>>
    BY <1>2 DEF NominatorWith, NewNominator
  <2>2. NominationsOf(who) = <<>> /\ Withdrawing(who) = 0
    BY <1>2 DEF NominationsOf, Withdrawing
  <2>3. Append(<<>>, bond) = <<bond>>
    OBVIOUS
  <2> QED BY <1>2, <2>1, <2>2, <2>3, ValuesEmpty
<1> QED BY <1>1, <1>2

\* nominate
LEMMA NominateRefunds ==
  ASSUME LedgerInv, LedgerInv', RefundInv, NEW who \in AccountIds,
         NEW candidate \in AccountIds, NEW amount \in 0 .. MaxStaked,
         Nominate(who, candidate, amount)
  PROVE  RefundInv'
<1> DEFINE x == [owner |-> candidate, amount |-> amount]
           y == [owner |-> who, amount |-> amount]
           n == NominatorWith(who, x)
           old == collators[candidate].nominations
           mine == NominationsOf(who)
           bonds == Append(old, y)
<1>1. /\ candidate \in DOMAIN collators /\ n.total <= MaxTotal
      /\ nominators' = MapInsert(nominators, who, n)
      /\ UNCHANGED exitQueue
  BY DEF Nominate, Has, Bounded
<1>2. /\ amount \in Nat /\ amount \in Balance
      /\ who \in Nat /\ candidate \in Nat
      /\ x \in NatBond /\ y \in NatBond
      /\ x.amount = amount /\ x.owner = candidate
      /\ y.amount = amount /\ y.owner = who
  <2>1. amount \in Nat /\ amount \in Balance /\ who \in Nat /\ candidate \in Nat
    BY Bounds, StakingAssumption DEF Balance
  <2> QED BY <2>1 DEF NatBond, BondOf
<1>3. /\ old \in Seq(NatBond) /\ mine \in Seq(NatBond) /\ mine \in Bonds
      /\ Withdrawing(who) \in Nat /\ accounts[who].reserved \in Nat
      /\ unfunded[who] \in Nat
  BY <1>1, ListsTyped
<1>4. /\ n.nominations = Append(mine, x) /\ Values(n.unbonding) = Withdrawing(who)
      /\ Has(nominators, who) => n.unbonding = nominators[who].unbonding
  BY <1>2, NominatorWithLists
<1>5. NominatorOK(n) /\ n.total = HeldBy(nominators, who) + amount
  BY <1>1, NominatorWithOK DEF LedgerInv
<1>6. PairOK(old, who, mine, candidate, unfunded[who])
  BY <1>1 DEF RefundInv, ListsFit
<1>7. Amounts(Append(mine, x)) = Amounts(mine) + amount
  BY <1>2, <1>3, AmountsAppend
<1>8. Has(nominators, who)
        /\ n.total = Amounts(n.nominations) + Values(n.unbonding)
      => nominators[who].total = Amounts(nominators[who].nominations)
                                   + Values(nominators[who].unbonding)
  <2> SUFFICES ASSUME Has(nominators, who),
                      n.total = Amounts(n.nominations) + Values(n.unbonding)
               PROVE  nominators[who].total = Amounts(nominators[who].nominations)
                                                + Values(nominators[who].unbonding)
    OBVIOUS
  <2>1. NominatorTyped(nominators[who])
    BY NominatorFields DEF LedgerInv, NominatorsOK, Has
  <2>2. /\ nominators[who].nominations = mine
        /\ HeldBy(nominators, who) = nominators[who].total
    BY DEF NominationsOf, HeldBy
  <2> HIDE DEF n, mine
  <2> QED BY <1>2, <1>4, <1>5, <1>7, <2>1, <2>2 DEF NominatorTyped
<1>9. \A c \in AccountIds : c # candidate => SameOf(mine, n.nominations, c)
  <2> HIDE DEF n, mine
  <2> QED BY <1>2, <1>3, <1>4, OthersSame
<1>10. \A a \in AccountIds : a # who =>
         SameOf(old, bonds, a) /\ SameOf(old, old, a)
  <2>1. \A a : SameOf(old, old, a)
    BY DEF SameOf
  <2> HIDE DEF old
  <2> QED BY <1>2, <1>3, <2>1, OthersSame
<1>11. bonds \in Seq(NatBond) /\ Append(mine, x) \in Seq(NatBond)
  BY <1>2, <1>3
<1>12. Owned(bonds, who) = Owned(old, who) + amount /\ Owned(old, who) \in Nat
  BY <1>2, <1>3, OwnedAppend, OwnedTotal
<1>13. CASE /\ unfunded' = [unfunded EXCEPT ![who] = @ + amount]
            /\ UNCHANGED <<accounts, collators, totalStaked, overdrawn>>
  <2>1. /\ unfunded'[who] = unfunded[who] + amount
        /\ \A a \in AccountIds : a # who => unfunded'[a] = unfunded[a]
        /\ unfunded'[who] >= unfunded[who]
    <3>1. unfunded \in [AccountIds -> Nat]
      BY DEF LedgerInv, StateTyped
    <3> QED BY <1>2, <1>3, <1>13, <3>1
  <2>2. PairOK(old, who, Append(mine, x), candidate, unfunded'[who])
    <3>1. unfunded'[who] = 0 => unfunded[who] = 0 /\ amount = 0
      BY <1>2, <1>3, <2>1
    <3> HIDE DEF old, mine
    <3> QED BY <1>2, <1>3, <1>6, <3>1, PairRefused
  <2>3. ASSUME Whole(who)'
        PROVE  /\ Whole(who)
               /\ accounts'[who].reserved + Owned(old, who) + Withdrawing(who)
                    = accounts[who].reserved + Owned(old, who) + Values(n.unbonding)
    <3> HIDE DEF n, old, mine
    <3>1. Whole(who)
      BY <1>1, <1>8, <1>13, <2>1, <2>3, WholeBefore
    <3> QED BY <1>4, <1>13, <3>1
  <2>4. /\ \A a \in AccountIds : a # who =>
             /\ SameOf(collators[candidate].nominations, old, a)
             /\ accounts'[a] = accounts[a] /\ unfunded'[a] = unfunded[a]
        /\ collators' = collators /\ old = collators[candidate].nominations
        /\ overdrawn \subseteq overdrawn'
    BY <1>10, <1>13, <2>1
  <2>5. /\ Whole(who)' =>
             /\ Whole(who)
             /\ accounts'[who].reserved + Owned(collators[candidate].nominations, who)
                  + Withdrawing(who)
                = accounts[who].reserved + Owned(old, who) + Values(n.unbonding)
        /\ \A c \in AccountIds : c # candidate =>
             SameOf(NominationsOf(who), n.nominations, c)
        /\ PairOK(old, who, n.nominations, candidate, unfunded'[who])
        /\ n.nominations \in Seq(NatBond) /\ Values(n.unbonding) \in Nat
    BY <1>3, <1>4, <1>9, <1>11, <2>2, <2>3
  <2> HIDE DEF n, old, mine, bonds
  <2> QED BY <1>1, <1>3, <2>1, <2>4, <2>5, NominatorWritten
<1>14. CASE /\ collators' = [collators EXCEPT ![candidate].nominations =
                               Append(@, [owner |-> who, amount |-> amount])]
            /\ Reserve(who, amount) /\ Stake(amount) /\ UNCHANGED unfunded
  <2>1. collators' = [collators EXCEPT ![candidate].nominations = bonds]
    BY <1>14
  <2>2. /\ overdrawn \subseteq overdrawn'
        /\ \A a \in AccountIds : a # who => accounts'[a] = accounts[a]
        /\ who \notin overdrawn' =>
             accounts'[who].reserved = accounts[who].reserved + amount
    BY <1>2, <1>14, ReserveFacts DEF LedgerInv
  <2>3. unfunded'[who] = unfunded[who] /\ unfunded'[who] >= unfunded[who]
    BY <1>3, <1>14
  <2>4. PairOK(bonds, who, Append(mine, x), candidate, unfunded'[who])
    <3> HIDE DEF old, mine
    <3> QED BY <1>2, <1>3, <1>6, <2>3, PairNominated
  <2>5. ASSUME Whole(who)'
        PROVE  /\ Whole(who)
               /\ accounts'[who].reserved + Owned(old, who) + Withdrawing(who)
                    = accounts[who].reserved + Owned(bonds, who) + Values(n.unbonding)
    <3> HIDE DEF n, old, mine, bonds
    <3>1. Whole(who) /\ who \notin overdrawn'
      BY <1>1, <1>8, <2>2, <2>3, <2>5, WholeBefore
    <3>2. accounts'[who].reserved = accounts[who].reserved + amount
      BY <2>2, <3>1
    <3>3. accounts'[who].reserved + Owned(old, who) + Withdrawing(who)
            = accounts[who].reserved + Owned(bonds, who) + Values(n.unbonding)
      BY ONLY <1>2, <1>3, <1>4, <1>12, <3>2
    <3> QED BY <3>1, <3>3
  <2>6. \A a \in AccountIds : a # who =>
          /\ SameOf(collators[candidate].nominations, bonds, a)
          /\ accounts'[a] = accounts[a] /\ unfunded'[a] = unfunded[a]
    BY <1>10, <1>14, <2>2
  <2>7. /\ Whole(who)' =>
             /\ Whole(who)
             /\ accounts'[who].reserved + Owned(collators[candidate].nominations, who)
                  + Withdrawing(who)
                = accounts[who].reserved + Owned(bonds, who) + Values(n.unbonding)
        /\ \A c \in AccountIds : c # candidate =>
             SameOf(NominationsOf(who), n.nominations, c)
        /\ PairOK(bonds, who, n.nominations, candidate, unfunded'[who])
        /\ n.nominations \in Seq(NatBond) /\ Values(n.unbonding) \in Nat
    BY <1>3, <1>4, <1>9, <1>11, <2>4, <2>5
  <2> HIDE DEF n, old, mine, bonds
  <2> QED BY <1>1, <1>11, <2>1, <2>2, <2>3, <2>6, <2>7, NominatorWritten
<1> QED BY <1>13, <1>14 DEF Nominate

\* The two lists of a nominator and a collator that list each other.
LEMMA BothTyped ==
  ASSUME LedgerInv, RefundInv, NEW who \in DOMAIN nominators,
         NEW candidate \in DOMAIN collators
  PROVE  /\ collators[candidate].nominations \in Seq(NatBond)
         /\ nominators[who].nominations \in Seq(NatBond)
         /\ NominationsOf(who) = nominators[who].nominations
         /\ Withdrawing(who) = Values(nominators[who].unbonding)
         /\ NominatorOK(nominators[who]) /\ NominatorTyped(nominators[who])
         /\ PairOK(collators[candidate].nominations, who,
                   nominators[who].nominations, candidate, unfunded[who])
         /\ who \in AccountIds /\ candidate \in AccountIds
         /\ accounts[who].reserved \in Nat /\ unfunded[who] \in Nat
<1>1. /\ NominationsOf(who) = nominators[who].nominations
      /\ Withdrawing(who) = Values(nominators[who].unbonding)
  BY DEF NominationsOf, Withdrawing, Has
<1>2. who \in AccountIds /\ candidate \in AccountIds /\ NominatorOK(nominators[who])
  BY DEF LedgerInv, NominatorsOK, CollatorsOK
<1>3. NominatorTyped(nominators[who])
  BY <1>2, NominatorFields
<1>4. PairOK(collators[candidate].nominations, who, NominationsOf(who), candidate,
             unfunded[who])
  BY <1>2 DEF RefundInv, ListsFit
<1> QED BY <1>1, <1>2, <1>3, <1>4, ListsTyped

\* nominate_extra
LEMMA NominateExtraRefunds ==
  ASSUME LedgerInv, LedgerInv', RefundInv, NEW who, NEW candidate,
         NEW extra \in 0 .. MaxStaked, NominateExtra(who, candidate, extra)
  PROVE  RefundInv'
<1> DEFINE m == nominators[who]
           n == NominatorExtra(m, candidate, extra)
           old == collators[candidate].nominations
           mine == m.nominations
           bonds == RaiseFirst(old, who, extra)
           list == RaiseFirst(mine, candidate, extra)
           k == FirstBond(old, who)
           l == FirstBond(mine, candidate)
<1>1. /\ candidate \in DOMAIN collators /\ who \in DOMAIN nominators
      /\ n.total <= MaxTotal /\ nominators' = MapInsert(nominators, who, n)
      /\ candidate \in Owners(mine) /\ who \in Owners(old)
      /\ UNCHANGED <<exitQueue, unfunded>> /\ Reserve(who, extra)
      /\ collators' = [collators EXCEPT ![candidate].nominations = bonds]
  BY DEF NominateExtra, BothListed, Has, Bounded
<1>2. /\ old \in Seq(NatBond) /\ mine \in Seq(NatBond)
      /\ NominationsOf(who) = mine /\ Withdrawing(who) = Values(m.unbonding)
      /\ NominatorOK(m) /\ NominatorTyped(m)
      /\ PairOK(old, who, mine, candidate, unfunded[who])
      /\ who \in AccountIds /\ candidate \in AccountIds
      /\ accounts[who].reserved \in Nat /\ unfunded[who] \in Nat
  BY <1>1, BothTyped
<1>3. NominatorOK(n) /\ n.total = m.total + extra
  BY <1>1, <1>2, NominatorExtraOK
<1>4. n.nominations = list /\ n.unbonding = m.unbonding
  <2>1. m \in NominatorLedgers
    BY <1>2 DEF NominatorOK
  <2> HIDE DEF m
  <2> QED BY <2>1 DEF NominatorExtra, NominatorLedgers
<1>5. /\ extra \in Nat /\ Owned(mine, candidate) + extra < BalanceModulus
      /\ Owned(old, who) + extra < BalanceModulus
  <2>1. /\ Owned(mine, candidate) \in Nat /\ Owned(old, who) \in Nat
        /\ Owned(old, who) <= Owned(mine, candidate)
    BY <1>2, OwnedTotal DEF PairOK
  <2>2. mine \in Bonds
    BY <1>2 DEF NominatorTyped
  <2>3. /\ Amounts(mine) = Amounts(WithoutOwner(mine, candidate))
                             + Owned(mine, candidate)
        /\ Amounts(WithoutOwner(mine, candidate)) \in Nat
    BY <2>2, BondsDropped, BondsAre DEF Owned
  <2>4. Amounts(mine) <= MaxTotal
    BY <1>2, Bounds DEF NominatorOK, NominatorTyped
  <2> HIDE DEF mine, old, n
  <2> QED BY <1>2, <2>1, <2>3, <2>4, Bounds
<1>6. /\ k \in DOMAIN old /\ old[k].owner = who /\ old[k].amount \in Nat
      /\ bonds = WithAmount(old, k, old[k].amount + extra)
  BY <1>1, <1>2, <1>5, RaiseExact
<1>7. /\ l \in DOMAIN mine /\ mine[l].owner = candidate /\ mine[l].amount \in Nat
      /\ list = WithAmount(mine, l, mine[l].amount + extra)
  BY <1>1, <1>2, <1>5, RaiseExact
<1> DEFINE x == old[k].amount + extra
           y == mine[l].amount + extra
<1>8. x \in Nat /\ y \in Nat /\ x - old[k].amount = y - mine[l].amount
      /\ (y >= mine[l].amount \/ y > 0)
  BY <1>5, <1>6, <1>7
<1> HIDE DEF m, n, old, mine, bonds, list, k, l, x, y
<1>9. /\ PairOK(bonds, who, list, candidate, unfunded[who])
      /\ bonds \in Seq(NatBond) /\ list \in Seq(NatBond)
      /\ \A o : o # who => SameOf(old, bonds, o)
      /\ \A o : o # candidate => SameOf(mine, list, o)
      /\ Owned(bonds, who) + old[k].amount = Owned(old, who) + x
      /\ Amounts(list) + mine[l].amount = Amounts(mine) + y
      /\ Owned(bonds, who) \in Nat /\ Owned(old, who) \in Nat
      /\ Amounts(list) \in Nat /\ Amounts(mine) \in Nat
  <2> DEFINE p == WithAmount(old, k, x)
             q == WithAmount(mine, l, y)
  <2>1. bonds = p /\ list = q
    BY <1>6, <1>7 DEF x, y
  <2>2. /\ PairOK(p, who, q, candidate, unfunded[who])
        /\ p \in Seq(NatBond) /\ q \in Seq(NatBond)
        /\ \A o : o # who => SameOf(old, p, o)
        /\ \A o : o # candidate => SameOf(mine, q, o)
        /\ Owned(p, who) + old[k].amount = Owned(old, who) + x
        /\ Amounts(q) + mine[l].amount = Amounts(mine) + y
        /\ Owned(p, who) \in Nat /\ Owned(old, who) \in Nat
        /\ Amounts(q) \in Nat /\ Amounts(mine) \in Nat
    <3>1. /\ old \in Seq(NatBond) /\ mine \in Seq(NatBond)
          /\ PairOK(old, who, mine, candidate, unfunded[who])
      BY <1>2
    <3>2. PairOK(p, who, q, candidate, unfunded[who])
      BY ONLY <1>6, <1>7, <1>8, <3>1, PairChanged
    <3>3. /\ p \in Seq(NatBond)
          /\ Owned(p, who) + old[k].amount = Owned(old, who) + x
          /\ Owned(p, who) \in Nat /\ Owned(old, who) \in Nat
      <4>1. /\ p \in Seq(NatBond)
            /\ Owned(p, who) + old[k].amount = Owned(old, who) + x
        BY ONLY <1>6, <1>8, <3>1, OwnedChange
      <4> HIDE DEF p
      <4> QED BY ONLY <3>1, <4>1, OwnedTotal
    <3>4. /\ q \in Seq(NatBond)
          /\ Amounts(q) + mine[l].amount = Amounts(mine) + y
          /\ Amounts(q) \in Nat /\ Amounts(mine) \in Nat
      BY ONLY <1>7, <1>8, <3>1, OneChanged
    <3>5. \A o : o # who => SameOf(old, p, o)
      BY ONLY <1>6, <1>8, <3>1, OthersSame
    <3>6. \A o : o # candidate => SameOf(mine, q, o)
      BY ONLY <1>7, <1>8, <3>1, OthersSame
    <3> QED BY ONLY <3>2, <3>3, <3>4, <3>5, <3>6
  <2> HIDE DEF p, q
  <2> QED BY ONLY <2>1, <2>2
<1>10. /\ Owned(bonds, who) = Owned(old, who) + extra
       /\ Amounts(list) = Amounts(mine) + extra
  <2>1. /\ Owned(bonds, who) + old[k].amount = Owned(old, who) + (old[k].amount + extra)
        /\ Amounts(list) + mine[l].amount = Amounts(mine) + (mine[l].amount + extra)
        /\ Owned(bonds, who) \in Nat /\ Owned(old, who) \in Nat
        /\ Amounts(list) \in Nat /\ Amounts(mine) \in Nat
        /\ old[k].amount \in Nat /\ mine[l].amount \in Nat
    BY <1>6, <1>7, <1>9 DEF x, y
  <2> QED BY ONLY <1>5, <2>1
<1>11. /\ overdrawn \subseteq overdrawn'
       /\ \A a \in AccountIds : a # who => accounts'[a] = accounts[a]
       /\ who \notin overdrawn' =>
            accounts'[who].reserved = accounts[who].reserved + extra
  <2>1. StateTyped /\ who \in AccountIds /\ extra \in Nat /\ Reserve(who, extra)
    BY <1>1, <1>2, <1>5 DEF LedgerInv
  <2> QED BY ONLY <2>1, ReserveFacts
<1>12. ASSUME Whole(who)'
       PROVE  /\ Whole(who)
              /\ accounts'[who].reserved + Owned(old, who) + Withdrawing(who)
                   = accounts[who].reserved + Owned(bonds, who) + Values(n.unbonding)
  <2>1. n.total = Amounts(n.nominations) + Values(n.unbonding)
        => m.total = Amounts(m.nominations) + Values(m.unbonding)
    <3>1. /\ m.total \in Nat /\ Values(m.unbonding) \in Nat /\ Amounts(mine) \in Nat
          /\ extra \in Nat
      BY <1>2, <1>5, <1>9 DEF NominatorTyped
    <3>2. mine = m.nominations
      BY DEF mine
    <3> QED BY ONLY <1>3, <1>4, <1>10, <3>1, <3>2
  <2>2. unfunded'[who] >= unfunded[who]
    BY <1>1, <1>2
  <2>3. Whole(who) /\ who \notin overdrawn'
    BY <1>1, <1>2, <1>11, <1>12, <2>1, <2>2, WholeBefore DEF m
  <2>4. accounts'[who].reserved = accounts[who].reserved + extra
    BY <1>11, <2>3
  <2>5. Withdrawing(who) = Values(n.unbonding) /\ Values(n.unbonding) \in Nat
    BY <1>2, <1>4 DEF NominatorTyped
  <2>6. accounts[who].reserved \in Nat
    BY <1>2
  <2>7. accounts'[who].reserved + Owned(old, who) + Withdrawing(who)
          = accounts[who].reserved + Owned(bonds, who) + Values(n.unbonding)
    BY ONLY <1>5, <1>9, <1>10, <2>4, <2>5, <2>6
  <2> QED BY <2>3, <2>7
<1>13. /\ \A a \in AccountIds : a # who =>
            /\ SameOf(collators[candidate].nominations, bonds, a)
            /\ accounts'[a] = accounts[a] /\ unfunded'[a] = unfunded[a]
       /\ \A c \in AccountIds : c # candidate =>
            SameOf(NominationsOf(who), n.nominations, c)
       /\ unfunded'[who] >= unfunded[who]
       /\ PairOK(bonds, who, n.nominations, candidate, unfunded'[who])
       /\ n.nominations \in Seq(NatBond) /\ Values(n.unbonding) \in Nat
  BY <1>1, <1>2, <1>4, <1>9, <1>11 DEF old, NominatorTyped
<1>14. Whole(who)' =>
         /\ Whole(who)
         /\ accounts'[who].reserved + Owned(collators[candidate].nominations, who)
              + Withdrawing(who)
            = accounts[who].reserved + Owned(bonds, who) + Values(n.unbonding)
  BY <1>12 DEF old
<1> QED BY <1>1, <1>2, <1>9, <1>11, <1>13, <1>14, NominatorWritten

\* nominate_less
LEMMA NominateLessRefunds ==
  ASSUME LedgerInv, LedgerInv', RefundInv, NEW who, NEW candidate,
         NEW less \in 0 .. MaxStaked, NominateLess(who, candidate, less)
  PROVE  RefundInv'
<1> DEFINE m == nominators[who]
           n == NominatorLess(m, candidate, less, WithdrawRound)
           old == collators[candidate].nominations
           mine == m.nominations
           bonds == LowerFirst(old, who, less)
           list == LowerFirst(mine, candidate, less)
           k == FirstBond(old, who)
           l == FirstBond(mine, candidate)
<1>1. /\ candidate \in DOMAIN collators /\ who \in DOMAIN nominators
      /\ nominators' = MapInsert(nominators, who, n)
      /\ CanLowerFirst(mine, candidate, less) /\ CanLowerFirst(old, who, less)
      /\ UNCHANGED <<accounts, exitQueue, unfunded, overdrawn>>
      /\ collators' = [collators EXCEPT ![candidate].nominations = bonds]
  BY DEF NominateLess, BothListed, Has, CanLower
<1>2. /\ old \in Seq(NatBond) /\ mine \in Seq(NatBond)
      /\ NominationsOf(who) = mine /\ Withdrawing(who) = Values(m.unbonding)
      /\ NominatorOK(m) /\ NominatorTyped(m)
      /\ PairOK(old, who, mine, candidate, unfunded[who])
      /\ who \in AccountIds /\ candidate \in AccountIds
      /\ accounts[who].reserved \in Nat /\ unfunded[who] \in Nat
  BY <1>1, BothTyped
<1>3. less \in Nat /\ less \in Balance /\ WithdrawRound \in Nat
  BY RoundFacts, Bounds DEF LedgerInv, Balance
<1>4. /\ n.nominations = list /\ n.total = m.total
      /\ n.unbonding = Append(m.unbonding, Chunk(less, WithdrawRound))
  <2>1. m \in NominatorLedgers
    BY <1>2 DEF NominatorOK
  <2> HIDE DEF m
  <2> QED BY <2>1 DEF NominatorLess, NominatorLedgers
<1>5. Values(n.unbonding) = Values(m.unbonding) + less /\ Values(m.unbonding) \in Nat
  BY <1>2, <1>3, <1>4, ChunkAppend DEF NominatorTyped
<1>6. /\ k \in DOMAIN old /\ old[k].owner = who /\ old[k].amount \in Nat
      /\ old[k].amount > less
      /\ bonds = WithAmount(old, k, old[k].amount - less)
  BY <1>1, <1>2, <1>3, LowerExact
<1>7. /\ l \in DOMAIN mine /\ mine[l].owner = candidate /\ mine[l].amount \in Nat
      /\ mine[l].amount > less
      /\ list = WithAmount(mine, l, mine[l].amount - less)
  BY <1>1, <1>2, <1>3, LowerExact
<1> DEFINE x == old[k].amount - less
           y == mine[l].amount - less
<1>8. x \in Nat /\ y \in Nat /\ x - old[k].amount = y - mine[l].amount
      /\ (y >= mine[l].amount \/ y > 0)
  BY <1>3, <1>6, <1>7
<1> HIDE DEF m, n, old, mine, bonds, list, k, l, x, y
<1>9. /\ PairOK(bonds, who, list, candidate, unfunded[who])
      /\ bonds \in Seq(NatBond) /\ list \in Seq(NatBond)
      /\ \A o : o # who => SameOf(old, bonds, o)
      /\ \A o : o # candidate => SameOf(mine, list, o)
      /\ Owned(bonds, who) + old[k].amount = Owned(old, who) + x
      /\ Amounts(list) + mine[l].amount = Amounts(mine) + y
      /\ Owned(bonds, who) \in Nat /\ Owned(old, who) \in Nat
      /\ Amounts(list) \in Nat /\ Amounts(mine) \in Nat
  <2> DEFINE p == WithAmount(old, k, x)
             q == WithAmount(mine, l, y)
  <2>1. bonds = p /\ list = q
    BY <1>6, <1>7 DEF x, y
  <2>2. /\ old \in Seq(NatBond) /\ mine \in Seq(NatBond)
        /\ PairOK(old, who, mine, candidate, unfunded[who])
    BY <1>2
  <2>3. PairOK(p, who, q, candidate, unfunded[who])
    BY ONLY <1>6, <1>7, <1>8, <2>2, PairChanged
  <2>4. /\ p \in Seq(NatBond)
        /\ Owned(p, who) + old[k].amount = Owned(old, who) + x
    BY ONLY <1>6, <1>8, <2>2, OwnedChange
  <2>5. /\ q \in Seq(NatBond)
        /\ Amounts(q) + mine[l].amount = Amounts(mine) + y
        /\ Amounts(q) \in Nat /\ Amounts(mine) \in Nat
    BY ONLY <1>7, <1>8, <2>2, OneChanged
  <2>6. \A o : o # who => SameOf(old, p, o)
    BY ONLY <1>6, <1>8, <2>2, OthersSame
  <2>7. \A o : o # candidate => SameOf(mine, q, o)
    BY ONLY <1>7, <1>8, <2>2, OthersSame
  <2> HIDE DEF p, q
  <2>8. Owned(p, who) \in Nat /\ Owned(old, who) \in Nat
    BY ONLY <2>2, <2>4, OwnedTotal
  <2> QED BY ONLY <2>1, <2>3, <2>4, <2>5, <2>6, <2>7, <2>8
<1>10. /\ Owned(bonds, who) + less = Owned(old, who)
       /\ Amounts(list) + less = Amounts(mine)
       /\ Owned(bonds, who) \in Nat /\ Owned(old, who) \in Nat
       /\ Amounts(list) \in Nat /\ Amounts(mine) \in Nat
  <2>1. /\ Owned(bonds, who) + old[k].amount = Owned(old, who) + (old[k].amount - less)
        /\ Amounts(list) + mine[l].amount = Amounts(mine) + (mine[l].amount - less)
        /\ Owned(bonds, who) \in Nat /\ Owned(old, who) \in Nat
        /\ Amounts(list) \in Nat /\ Amounts(mine) \in Nat
        /\ old[k].amount \in Nat /\ mine[l].amount \in Nat
    BY <1>6, <1>7, <1>9 DEF x, y
  <2> QED BY ONLY <1>3, <2>1
<1>11. ASSUME Whole(who)'
       PROVE  /\ Whole(who)
              /\ accounts'[who].reserved + Owned(old, who) + Withdrawing(who)
                   = accounts[who].reserved + Owned(bonds, who) + Values(n.unbonding)
  <2>1. n.total = Amounts(n.nominations) + Values(n.unbonding)
        => m.total = Amounts(m.nominations) + Values(m.unbonding)
    <3>1. mine = m.nominations
      BY DEF mine
    <3> QED BY ONLY <1>3, <1>4, <1>5, <1>10, <3>1
  <2>2. unfunded'[who] >= unfunded[who] /\ overdrawn \subseteq overdrawn'
    BY <1>1, <1>2
  <2>3. Whole(who)
    BY <1>1, <1>2, <1>11, <2>1, <2>2, WholeBefore DEF m
  <2>4. /\ Withdrawing(who) = Values(m.unbonding) /\ accounts' = accounts
        /\ accounts[who].reserved \in Nat
    BY <1>1, <1>2
  <2>5. accounts'[who].reserved + Owned(old, who) + Withdrawing(who)
          = accounts[who].reserved + Owned(bonds, who) + Values(n.unbonding)
    BY ONLY <1>3, <1>5, <1>10, <2>4
  <2> QED BY <2>3, <2>5
<1>12. /\ \A a \in AccountIds : a # who =>
            /\ SameOf(collators[candidate].nominations, bonds, a)
            /\ accounts'[a] = accounts[a] /\ unfunded'[a] = unfunded[a]
       /\ \A c \in AccountIds : c # candidate =>
            SameOf(NominationsOf(who), n.nominations, c)
       /\ unfunded'[who] >= unfunded[who] /\ overdrawn \subseteq overdrawn'
       /\ PairOK(bonds, who, n.nominations, candidate, unfunded'[who])
       /\ n.nominations \in Seq(NatBond) /\ Values(n.unbonding) \in Nat
  BY <1>1, <1>2, <1>3, <1>4, <1>5, <1>9 DEF old
<1>13. Whole(who)' =>
         /\ Whole(who)
         /\ accounts'[who].reserved + Owned(collators[candidate].nominations, who)
              + Withdrawing(who)
            = accounts[who].reserved + Owned(bonds, who) + Values(n.unbonding)
  BY <1>11 DEF old
<1> QED BY <1>1, <1>2, <1>9, <1>12, <1>13, NominatorWritten

\* nominator_leave_collator: the last bond is all there was, if the ledger is
\* whole afterwards.
LEMMA LeaveCollatorRefunds ==
  ASSUME LedgerInv, LedgerInv', RefundInv, NEW who, NEW candidate,
         NominatorLeaveCollator(who, candidate)
  PROVE  RefundInv'
<1> DEFINE m == nominators[who]
           n == NominatorRemove(m, candidate, WithdrawRound)
           old == collators[candidate].nominations
           mine == m.nominations
           bonds == WithoutOwner(old, who)
           list == WithoutOwner(mine, candidate)
           v == LastOwned(mine, candidate)
<1>1. /\ candidate \in DOMAIN collators /\ who \in DOMAIN nominators
      /\ nominators' = MapInsert(nominators, who, n)
      /\ candidate \in Owners(mine) /\ who \in Owners(old)
      /\ UNCHANGED <<accounts, exitQueue, unfunded, overdrawn>>
      /\ collators' = [collators EXCEPT ![candidate].nominations = bonds]
  BY DEF NominatorLeaveCollator, Has
<1>2. /\ old \in Seq(NatBond) /\ mine \in Seq(NatBond)
      /\ NominationsOf(who) = mine /\ Withdrawing(who) = Values(m.unbonding)
      /\ NominatorOK(m) /\ NominatorTyped(m)
      /\ PairOK(old, who, mine, candidate, unfunded[who])
      /\ who \in AccountIds /\ candidate \in AccountIds
      /\ accounts[who].reserved \in Nat /\ unfunded[who] \in Nat
  BY <1>1, BothTyped
<1>3. WithdrawRound \in Nat
  BY RoundFacts DEF LedgerInv
<1>4. /\ n.nominations = list /\ n.total = m.total
      /\ n.unbonding = Append(m.unbonding, Chunk(v, WithdrawRound))
  <2>1. m \in NominatorLedgers
    BY <1>2 DEF NominatorOK
  <2> HIDE DEF m
  <2> QED BY <2>1 DEF NominatorRemove, NominatorLedgers, LastOwned
<1>5. /\ v \in Balance /\ v \in Nat /\ v <= Owned(mine, candidate)
      /\ Amounts(mine) = Amounts(list) + Owned(mine, candidate)
      /\ Amounts(list) \in Nat /\ Owned(mine, candidate) \in Nat
  <2>1. mine \in Bonds
    BY <1>2 DEF NominatorTyped
  <2>2. /\ v \in Balance /\ v <= Owned(mine, candidate)
        /\ Amounts(mine) = Amounts(list) + Owned(mine, candidate)
        /\ Amounts(list) \in Nat
    BY <1>1, <2>1, BondsDropped, BondsAre DEF Owned, LastOwned
  <2> QED BY <1>2, <2>2, Bounds, OwnedTotal
<1>6. Values(n.unbonding) = Values(m.unbonding) + v /\ Values(m.unbonding) \in Nat
  BY <1>2, <1>3, <1>4, <1>5, ChunkAppend DEF NominatorTyped
<1>7. m.total \in Nat /\ m.total >= Amounts(mine) + Values(m.unbonding)
  BY <1>2 DEF NominatorOK, NominatorTyped
<1>8. /\ bonds \in Seq(NatBond) /\ list \in Seq(NatBond)
      /\ Owned(bonds, who) = 0 /\ Owned(old, who) \in Nat
  BY <1>2, FiltersType, OwnedWithout, OwnedTotal
<1>9. /\ \A o : o # who => SameOf(old, bonds, o)
      /\ \A o : o # candidate => SameOf(mine, list, o)
  BY <1>2, OthersSame
<1>10. PairOK(bonds, who, list, candidate, unfunded'[who])
  BY <1>2, PairLeft
<1> HIDE DEF m, n, old, mine, bonds, list, v
<1>11. ASSUME Whole(who)'
       PROVE  /\ Whole(who)
              /\ accounts'[who].reserved + Owned(old, who) + Withdrawing(who)
                   = accounts[who].reserved + Owned(bonds, who) + Values(n.unbonding)
  <2>1. n.total = Amounts(n.nominations) + Values(n.unbonding)
        => /\ m.total = Amounts(mine) + Values(m.unbonding)
           /\ v = Owned(mine, candidate)
    BY ONLY <1>4, <1>5, <1>6, <1>7
  <2>2. unfunded'[who] >= unfunded[who] /\ overdrawn \subseteq overdrawn'
    BY <1>1, <1>2
  <2>3. /\ Whole(who) /\ unfunded'[who] = 0
        /\ n.total = Amounts(n.nominations) + Values(n.unbonding)
    <3>1. mine = m.nominations
      BY DEF mine
    <3> QED BY <1>1, <1>2, <1>11, <2>1, <2>2, <3>1, WholeBefore DEF m
  <2>4. Owned(old, who) = Owned(mine, candidate)
    <3>1. v = Owned(mine, candidate) /\ unfunded[who] = 0
      BY <1>1, <2>1, <2>3
    <3> QED BY <1>1, <1>2, <3>1 DEF PairOK, v
  <2>5. v = Owned(mine, candidate)
    BY <2>1, <2>3
  <2>6. /\ Withdrawing(who) = Values(m.unbonding) /\ accounts' = accounts
        /\ accounts[who].reserved \in Nat
    BY <1>1, <1>2
  <2>7. accounts'[who].reserved + Owned(old, who) + Withdrawing(who)
          = accounts[who].reserved + Owned(bonds, who) + Values(n.unbonding)
    BY ONLY <1>5, <1>6, <1>8, <2>4, <2>5, <2>6
  <2> QED BY <2>3, <2>7
<1>12. /\ \A a \in AccountIds : a # who =>
            /\ SameOf(collators[candidate].nominations, bonds, a)
            /\ accounts'[a] = accounts[a] /\ unfunded'[a] = unfunded[a]
       /\ \A c \in AccountIds : c # candidate =>
            SameOf(NominationsOf(who), n.nominations, c)
       /\ unfunded'[who] >= unfunded[who] /\ overdrawn \subseteq overdrawn'
       /\ PairOK(bonds, who, n.nominations, candidate, unfunded'[who])
       /\ n.nominations \in Seq(NatBond) /\ Values(n.unbonding) \in Nat
  BY <1>1, <1>2, <1>4, <1>5, <1>6, <1>8, <1>9, <1>10 DEF old
<1>13. Whole(who)' =>
         /\ Whole(who)
         /\ accounts'[who].reserved + Owned(collators[candidate].nominations, who)
              + Withdrawing(who)
            = accounts[who].reserved + Owned(bonds, who) + Values(n.unbonding)
  BY <1>11 DEF old
<1> QED BY <1>1, <1>2, <1>8, <1>12, <1>13, NominatorWritten

\* The calls of collators, and force_onboard.
LEMMA CollatorCallRefunds ==
  ASSUME LedgerInv, LedgerInv', RefundInv, NEW who \in Candidates, NEW v \in Nat,
         \/ Bond(who, v) \/ BondExtra(who, v) \/ BondLess(who, v)
         \/ ForceOnboard(who)
  PROVE  RefundInv'
<1>1. who \in Bonders /\ who \in AccountIds
  BY StakingAssumption DEF Bonders
<1>2. \A a \in AccountIds \ Bonders : a # who
  BY <1>1
<1>3. who \in DOMAIN collators => collators[who] \in CollatorLedgers
  BY DEF LedgerInv, CollatorsOK, CollatorOK
<1>4. Reserve(who, v) => /\ \A a \in AccountIds \ Bonders : accounts'[a] = accounts[a]
                         /\ overdrawn \subseteq overdrawn'
  <2>1. StateTyped
    BY DEF LedgerInv
  <2> QED BY <1>1, <1>2, <2>1, ReserveFacts
<1>5. CASE Bond(who, v)
  <2> DEFINE r == NewCollator(v, NextRoundIndex)
  <2>1. /\ collators' = MapInsert(collators, who, r) /\ ~ Has(collators, who)
        /\ Reserve(who, v) /\ UNCHANGED <<nominators, exitQueue, unfunded>>
    BY <1>5 DEF Bond, CanBond
  <2>2. r.nominations = <<>>
    BY DEF NewCollator
  <2> HIDE DEF r
  <2> QED BY <1>1, <1>4, <2>1, <2>2, CollatorWritten
<1>6. CASE BondExtra(who, v)
  <2> DEFINE r == CollatorBondExtra(collators[who], v, NextRoundIndex)
  <2>1. /\ collators' = MapInsert(collators, who, r) /\ Has(collators, who)
        /\ Reserve(who, v) /\ UNCHANGED <<nominators, exitQueue, unfunded>>
    BY <1>6 DEF BondExtra
  <2>2. r.nominations = collators[who].nominations
    BY <1>3, <2>1 DEF CollatorBondExtra, CollatorLedgers, Has
  <2> HIDE DEF r
  <2> QED BY <1>1, <1>4, <2>1, <2>2, CollatorWritten
<1>7. CASE BondLess(who, v)
  <2> DEFINE r == CollatorBondLess(collators[who], v, WithdrawRound)
  <2>1. /\ collators' = MapInsert(collators, who, r) /\ Has(collators, who)
        /\ UNCHANGED <<accounts, nominators, exitQueue, unfunded, overdrawn>>
    BY <1>7 DEF BondLess
  <2>2. r.nominations = collators[who].nominations
    BY <1>3, <2>1 DEF CollatorBondLess, CollatorLedgers, Has
  <2> HIDE DEF r
  <2> QED BY <1>1, <2>1, <2>2, CollatorWritten
<1>8. CASE ForceOnboard(who)
  <2> DEFINE r == ForceBond(collators[who])
  <2>1. /\ collators' = MapInsert(collators, who, r) /\ Has(collators, who)
        /\ UNCHANGED <<accounts, nominators, exitQueue, unfunded, overdrawn>>
    BY <1>8 DEF ForceOnboard
  <2>2. r.nominations = collators[who].nominations
    BY <1>3, <2>1 DEF ForceBond, CollatorLedgers, Has
  <2> HIDE DEF r
  <2> QED BY <1>1, <2>1, <2>2, CollatorWritten
<1> QED BY <1>5, <1>6, <1>7, <1>8

\* collator_unbond releases what its list holds, and the list goes with it.
LEMMA UnbondRefundsAll ==
  ASSUME LedgerInv, RefundInv, NEW who \in Candidates, CollatorUnbond(who)
  PROVE  RefundInv'
<1> DEFINE old == collators[who].nominations
<1>1. /\ who \in DOMAIN collators /\ collators' = MapRemove(collators, who)
      /\ exitQueue' = MapInsert(exitQueue, who, LeavingOf(collators[who]))
      /\ accounts' = [a \in AccountIds |-> Unreserve(accounts[a], Owned(old, a))]
      /\ UNCHANGED <<nominators, unfunded, overdrawn>>
  BY DEF CollatorUnbond, Has, Owned
<1>2. /\ DOMAIN collators' = DOMAIN collators \ {who}
      /\ \A c \in DOMAIN collators' : collators'[c] = collators[c]
      /\ DOMAIN exitQueue' = DOMAIN exitQueue \cup {who}
  BY <1>1 DEF MapRemove, MapInsert
<1>3. \A a : NominationsOf(a)' = NominationsOf(a) /\ Withdrawing(a)' = Withdrawing(a)
  BY <1>1 DEF NominationsOf, Withdrawing, Has
<1>4. ListsFit'
  BY <1>1, <1>2, <1>3 DEF RefundInv, ListsFit
<1>5. BondersOnly'
  BY <1>2 DEF RefundInv, BondersOnly, Bonders
<1>6. ReservedExactly'
  <2> SUFFICES ASSUME NEW a \in AccountIds \ Bonders, Whole(a)'
               PROVE  accounts'[a].reserved
                        = SumFunction(Holdings(a)') + Withdrawing(a)'
    BY DEF ReservedExactly
  <2>1. Whole(a)
    BY <1>1 DEF Whole, Has
  <2>2. accounts[a].reserved = SumFunction(Holdings(a)) + Withdrawing(a)
    BY <2>1 DEF RefundInv, ReservedExactly
  <2> DEFINE f == Holdings(a)
             g == Holdings(a)'
  <2>3. /\ DOMAIN f = DOMAIN collators /\ IsFiniteSet(DOMAIN f)
        /\ \A c \in DOMAIN f : f[c] \in Nat
        /\ f[who] = Owned(old, a)
    BY <1>1, HoldingsTyped
  <2>4. DOMAIN g = DOMAIN f \ {who} /\ \A c \in DOMAIN g : g[c] = f[c]
    BY <1>2, <2>3 DEF Holdings
  <2> HIDE DEF f, g
  <2>5. SumFunction(g) + f[who] = SumFunction(f) /\ SumFunction(g) \in Nat
    BY <1>1, <2>3, <2>4, SumDrop
  <2>6. /\ accounts[a] \in AccountData /\ accounts[a].reserved \in Nat
        /\ Withdrawing(a) \in Nat /\ Owned(old, a) \in Nat
    BY <1>1, <2>3, ListsTyped
  <2>7. Owned(old, a) <= accounts[a].reserved
    BY <2>2, <2>3, <2>5, <2>6 DEF f
  <2>8. accounts'[a].reserved = accounts[a].reserved - Owned(old, a)
    <3>1. accounts'[a] = Unreserve(accounts[a], Owned(old, a))
      BY <1>1
    <3> HIDE DEF old
    <3> QED BY <2>6, <2>7, <3>1, UnreserveFacts
  <2>9. accounts[a].reserved = SumFunction(f) + Withdrawing(a)
    BY <2>2 DEF f
  <2>10. accounts'[a].reserved = SumFunction(g) + Withdrawing(a)
    <3> HIDE DEF old
    <3> QED BY ONLY <2>3, <2>5, <2>6, <2>8, <2>9
  <2> QED BY <1>3, <2>10 DEF g
<1> QED BY <1>4, <1>5, <1>6 DEF RefundInv

\* A round releases what has served its time of the withdrawals.
LEMMA RoundRefunds ==
  ASSUME LedgerInv, RefundInv, NEW round \in Nat, round = NextRoundIndex,
         NEW reward, \A a \in DOMAIN reward : reward[a] \in Nat,
         NEW winners, StartRound(round, reward, winners)
  PROVE  RefundInv'
<1>1. /\ currentRound'.index = round
      /\ collators' = [a \in DOMAIN collators |-> UpdateCollator(collators[a], round)]
      /\ nominators' = [a \in DOMAIN nominators |-> UpdateNominator(nominators[a], round)]
      /\ exitQueue' = ExitQueueAfter(round) /\ UNCHANGED <<unfunded, overdrawn>>
      /\ accounts' = [a \in AccountIds |->
           Unreserve(IF a \in DOMAIN reward THEN Mint(accounts[a], reward[a])
                                            ELSE accounts[a],
                     Released(a, round))]
  BY DEF StartRound
<1>2. /\ DOMAIN collators' = DOMAIN collators
      /\ \A c \in DOMAIN collators :
           collators'[c].nominations = collators[c].nominations
  BY <1>1, RoundCollators DEF LedgerInv
<1>3. DOMAIN nominators' = DOMAIN nominators
  BY <1>1
<1> DEFINE w(a) == IF Has(nominators, a)
                     THEN Values(Matured(nominators[a].unbonding, round)) ELSE 0
<1>4. ASSUME NEW a \in DOMAIN nominators
      PROVE  /\ nominators'[a].nominations = nominators[a].nominations
             /\ nominators'[a].total + w(a) = nominators[a].total
             /\ Values(nominators'[a].unbonding) + w(a) = Values(nominators[a].unbonding)
             /\ nominators'[a].total \in Nat /\ w(a) \in Nat
             /\ Values(nominators'[a].unbonding) \in Nat
             /\ Amounts(nominators[a].nominations) \in Nat
  <2> DEFINE m == nominators[a]
             n == UpdateNominator(m, round)
  <2>1. NominatorOK(m) /\ nominators'[a] = n
    BY <1>1 DEF LedgerInv, NominatorsOK
  <2>2. w(a) = Values(Matured(m.unbonding, round))
    BY DEF Has
  <2> HIDE DEF m, w
  <2>3. /\ NominatorOK(n) /\ n.total + Values(Matured(m.unbonding, round)) = m.total
        /\ n.nominations = m.nominations
        /\ n.unbonding = Pending(m.unbonding, round)
        /\ Values(Matured(m.unbonding, round)) \in Nat
    BY <2>1, UpdateNominatorOK
  <2>4. NominatorTyped(m)
    BY <2>1, NominatorFields
  <2> HIDE DEF n
  <2>5. NominatorTyped(n)
    BY <2>3, NominatorFields
  <2>6. Values(m.unbonding) = Values(Pending(m.unbonding, round))
                               + Values(Matured(m.unbonding, round))
    BY <2>4, Consolidated DEF NominatorTyped
  <2> QED BY <2>1, <2>2, <2>3, <2>4, <2>5, <2>6 DEF NominatorTyped, m
<1>5. \A a : NominationsOf(a)' = NominationsOf(a)
  BY <1>3, <1>4 DEF NominationsOf, Has
<1>6. ListsFit'
  BY <1>1, <1>2, <1>5 DEF RefundInv, ListsFit
<1>7. BondersOnly'
  BY <1>1, <1>2 DEF RefundInv, BondersOnly, ExitQueueAfter
<1>8. ReservedExactly'
  <2> SUFFICES ASSUME NEW a \in AccountIds \ Bonders, Whole(a)'
               PROVE  accounts'[a].reserved
                        = SumFunction(Holdings(a)') + Withdrawing(a)'
    BY DEF ReservedExactly
  <2>1. w(a) \in Nat /\ Withdrawing(a)' + w(a) = Withdrawing(a)
        /\ Withdrawing(a)' \in Nat
    <3>1. CASE a \in DOMAIN nominators
      <4> HIDE DEF w
      <4> QED BY <1>3, <1>4, <3>1 DEF Withdrawing, Has
    <3>2. CASE a \notin DOMAIN nominators
      BY <1>3, <3>2 DEF Withdrawing, Has
    <3> QED BY <3>1, <3>2
  <2>2. Whole(a)
    <3>1. unfunded[a] = 0 /\ a \notin overdrawn
      BY <1>1 DEF Whole
    <3>2. ASSUME a \in DOMAIN nominators
          PROVE  nominators[a].total = Amounts(nominators[a].nominations)
                                         + Values(nominators[a].unbonding)
      <4>1. nominators'[a].total = Amounts(nominators'[a].nominations)
                                     + Values(nominators'[a].unbonding)
        BY <1>3, <3>2 DEF Whole, Has
      <4>2. /\ nominators'[a].nominations = nominators[a].nominations
            /\ nominators'[a].total + w(a) = nominators[a].total
            /\ Values(nominators'[a].unbonding) + w(a) = Values(nominators[a].unbonding)
            /\ nominators'[a].total \in Nat /\ w(a) \in Nat
            /\ Values(nominators'[a].unbonding) \in Nat
            /\ Amounts(nominators[a].nominations) \in Nat
        BY <1>4, <3>2
      <4> HIDE DEF w
      <4> QED BY ONLY <4>1, <4>2
    <3> QED BY <3>1, <3>2 DEF Whole, Has
  <2>3. accounts[a].reserved = SumFunction(Holdings(a)) + Withdrawing(a)
    BY <2>2 DEF RefundInv, ReservedExactly
  <2>4. Holdings(a)' = Holdings(a)
    BY <1>2 DEF Holdings
  <2>5. Released(a, round) = w(a)
    <3>1. a \notin DOMAIN collators /\ a \notin DOMAIN exitQueue
      BY DEF RefundInv, BondersOnly
    <3>2. Released(a, round) = 0 + w(a) + 0
      BY <3>1 DEF Released, Has
    <3> HIDE DEF w
    <3> QED BY <2>1, <3>2
  <2> DEFINE d == IF a \in DOMAIN reward THEN Mint(accounts[a], reward[a])
                                         ELSE accounts[a]
  <2>6. d \in AccountData /\ d.reserved = accounts[a].reserved
    BY MintFacts, ListsTyped
  <2>7. accounts'[a] = Unreserve(d, w(a))
    BY <1>1, <2>5
  <2>8. /\ SumFunction(Holdings(a)) \in Nat /\ accounts[a].reserved \in Nat
        /\ Withdrawing(a) \in Nat
    BY HoldingsTyped, ListsTyped
  <2> HIDE DEF d, w
  <2>9. w(a) <= d.reserved
    BY ONLY <2>1, <2>3, <2>6, <2>8
  <2>10. accounts'[a].reserved = d.reserved - w(a)
    BY <2>1, <2>6, <2>7, <2>9, UnreserveFacts
  <2>11. accounts'[a].reserved = SumFunction(Holdings(a)) + Withdrawing(a)'
    BY ONLY <2>1, <2>3, <2>6, <2>8, <2>10
  <2> QED BY <2>4, <2>11
<1> QED BY <1>6, <1>7, <1>8 DEF RefundInv

\* Genesis: nobody has nominated, and only stakers have something reserved.
LEMMA InitRefunds ==
  ASSUME Init, LedgerInv
  PROVE  RefundInv
<1>1. /\ DOMAIN nominators = {} /\ DOMAIN exitQueue = {}
      /\ collators = [a \in GenesisBonded |-> NewCollator(GenesisStakers[a], 1)]
  BY DEF Init, EmptyMap
<1>2. \A c \in DOMAIN collators : collators[c].nominations = <<>>
  BY <1>1 DEF NewCollator
<1>3. GenesisBonded \subseteq Bonders
  BY DEF GenesisBonded, Bonders
<1>4. \A a \in AccountIds : NominationsOf(a) \in Seq(NatBond)
  BY ListsTyped
<1>5. ListsFit
  <2> SUFFICES ASSUME NEW c \in DOMAIN collators, NEW a \in AccountIds
               PROVE  PairOK(collators[c].nominations, a, NominationsOf(a), c,
                             unfunded[a])
    BY DEF ListsFit
  <2>1. NominationsOf(a) \in Seq(NatBond)
    BY <1>4
  <2> QED BY <1>2, <2>1, PairUnlisted
<1>6. BondersOnly
  BY <1>1, <1>3 DEF BondersOnly
<1>7. ReservedExactly
  <2> SUFFICES ASSUME NEW a \in AccountIds \ Bonders
               PROVE  accounts[a].reserved = SumFunction(Holdings(a)) + Withdrawing(a)
    BY DEF ReservedExactly
  <2>1. Withdrawing(a) = 0
    BY <1>1 DEF Withdrawing, Has
  <2>2. SumFunction(Holdings(a)) = 0
    <3> DEFINE f == Holdings(a)
    <3>1. IsFiniteSet(DOMAIN f)
      BY HoldingsTyped
    <3>2. \A c \in DOMAIN f : f[c] = 0
      <4>1. \A c \in DOMAIN f : f[c] = Owned(collators[c].nominations, a)
                                 /\ c \in DOMAIN collators
        BY DEF Holdings
      <4>2. NominationsOf(a) \in Seq(NatBond)
        BY <1>4
      <4>3. Owned(<<>>, a) = 0
        BY <4>2, PairUnlisted
      <4> QED BY <1>2, <4>1, <4>3
    <3> HIDE DEF f
    <3>3. SumFunctionOnSet(f, DOMAIN f) = 0
      BY <3>1, <3>2, SumZero
    <3> QED BY <3>3 DEF SumFunction, f
  <2>3. accounts[a].reserved = 0
    BY <1>3 DEF Init
  <2> QED BY <2>1, <2>2, <2>3
<1> QED BY <1>5, <1>6, <1>7 DEF RefundInv

\* Every step keeps the reserved balances exact.
LEMMA NextRefunds == LedgerInv /\ RefundInv /\ [Next]_vars => RefundInv'
<1> SUFFICES ASSUME LedgerInv, RefundInv, [Next]_vars PROVE RefundInv'
  OBVIOUS
<1>1. LedgerInv'
  BY NextLedger
<1>2. ASSUME NEW who \in Candidates,
             \/ \E amount \in BondAmounts : Bond(who, amount)
             \/ \E extra \in ExtraAmounts : BondExtra(who, extra)
             \/ \E less \in LessAmounts : BondLess(who, less)
             \/ CollatorUnbond(who)
      PROVE  RefundInv'
  <2>1. ASSUME NEW v \in Nat, Bond(who, v) \/ BondExtra(who, v) \/ BondLess(who, v)
        PROVE  RefundInv'
    BY <1>1, <2>1, CollatorCallRefunds
  <2>2. ASSUME CollatorUnbond(who) PROVE RefundInv'
    BY <2>2, UnbondRefundsAll
  <2> QED BY <1>2, <2>1, <2>2, AmountsBounded
<1>3. ASSUME NEW who \in Backers, NEW candidate \in Candidates,
             \/ \E amount \in NominateAmounts : Nominate(who, candidate, amount)
             \/ \E extra \in NominateExtras : NominateExtra(who, candidate, extra)
             \/ \E less \in NominateLesses : NominateLess(who, candidate, less)
             \/ NominatorLeaveCollator(who, candidate)
      PROVE  RefundInv'
  <2>1. who \in AccountIds /\ candidate \in AccountIds
    BY AmountsBounded
  <2>2. ASSUME NEW amount \in NominateAmounts, Nominate(who, candidate, amount)
        PROVE  RefundInv'
    BY <1>1, <2>1, <2>2, AmountsBounded, NominateRefunds
  <2>3. ASSUME NEW extra \in NominateExtras, NominateExtra(who, candidate, extra)
        PROVE  RefundInv'
    BY <1>1, <2>3, AmountsBounded, NominateExtraRefunds
  <2>4. ASSUME NEW less \in NominateLesses, NominateLess(who, candidate, less)
        PROVE  RefundInv'
    BY <1>1, <2>4, AmountsBounded, NominateLessRefunds
  <2>5. ASSUME NominatorLeaveCollator(who, candidate) PROVE RefundInv'
    BY <1>1, <2>5, LeaveCollatorRefunds
  <2> QED BY <1>3, <2>2, <2>3, <2>4, <2>5
<1>4. ASSUME NEW s \in SettingChoices, Config(s) PROVE RefundInv'
  BY <1>4, RefundFrame DEF Config
<1>5. ASSUME NEW candidate \in Candidates, ForceOnboard(candidate) PROVE RefundInv'
  BY <1>1, <1>5, CollatorCallRefunds
<1>6. ASSUME FinalizeBlock PROVE RefundInv'
  <2>1. CASE \E reward \in [Payees(NextRoundIndex) -> Rewards],
                winners \in SUBSET DOMAIN collators :
               StartRound(NextRoundIndex, reward, winners)
    <3>1. PICK reward \in [Payees(NextRoundIndex) -> Rewards],
               winners \in SUBSET DOMAIN collators :
                 StartRound(NextRoundIndex, reward, winners)
      BY <2>1
    <3>2. /\ \A a \in DOMAIN reward : reward[a] \in Nat
          /\ NextRoundIndex \in Nat
      BY StakingAssumption, RoundFacts DEF LedgerInv
    <3> QED BY <3>1, <3>2, RoundRefunds
  <2>2. CASE UNCHANGED <<accounts, currentRound, collators, nominators,
                         exitQueue, totalStaked, totalStakedAt, exposures,
                         settings, unfunded, overdrawn>>
    BY <2>2, RefundFrame
  <2> QED BY <1>6, <2>1, <2>2 DEF FinalizeBlock
<1>7. CASE UNCHANGED vars
  BY <1>7, RefundFrame DEF vars
<1> QED BY <1>2, <1>3, <1>4, <1>5, <1>6, <1>7
           DEF Next, CandidateCall, BackerCall, RootCall

\* What a nominator that never bonds has reserved is, through every mix of
\* calls, exits and rounds, exactly what the collators' lists hold of it and
\* what it is withdrawing, unless a duplicate nomination or a failed reserve
\* confused its ledger.
THEOREM RefundsAreExact == Spec => []NominatorRefunds
<1>1. Init => LedgerInv /\ RefundInv
  BY InitLedger, InitRefunds
<1>2. (LedgerInv /\ RefundInv) /\ [Next]_vars => (LedgerInv /\ RefundInv)'
  BY NextLedger, NextRefunds
<1>3. LedgerInv /\ RefundInv => NominatorRefunds
  <2> SUFFICES ASSUME LedgerInv, RefundInv, NEW a \in DOMAIN nominators \ Bonders,
                      KeptWhole(a)
               PROVE  accounts[a].reserved =
                        SumFunction([c \in DOMAIN collators |->
                                       Amounts(OfOwner(collators[c].nominations, a))])
                        + Values(nominators[a].unbonding)
    BY DEF NominatorRefunds
  <2>1. a \in AccountIds
    BY DEF LedgerInv, NominatorsOK
  <2>2. Whole(a)
    BY DEF KeptWhole, Whole
  <2>3. accounts[a].reserved = SumFunction(Holdings(a)) + Withdrawing(a)
    BY <2>1, <2>2 DEF RefundInv, ReservedExactly
  <2> QED BY <2>3 DEF Holdings, Owned, Withdrawing, Has
<1> QED BY <1>1, <1>2, <1>3, PTL DEF Spec
=============================================================================
