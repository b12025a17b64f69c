---------------------------- MODULE StakingLedger ---------------------------
(***************************************************************************)
(* The ledgers of pallets/polkafoundry-staking: what the impl blocks of    *)
(* StakingCollators and StakingNominators compute.  Everything here is a   *)
(* pure function of a record; module Staking keeps the records.            *)
(*                                                                         *)
(* A balance is an unsigned integer below BalanceModulus (2^128 in the     *)
(* code).  The runtime is built in release mode without overflow checks,   *)
(* so += and -= wrap.  The claimed_rewards lists are left out: the pallet  *)
(* initialises them and never uses them.                                   *)
(***************************************************************************)
EXTENDS Integers, Sequences, SequencesExt, FiniteSetsExt, Functions

CONSTANT BalanceModulus

ASSUME ModulusAssumption == BalanceModulus \in Nat \ {0}

Plus(a, b)  == (a + b) % BalanceModulus
Minus(a, b) == (a - b) % BalanceModulus

-----------------------------------------------------------------------------
(* UnlockChunk / UnBondChunk: [value, round]; Bond: [owner, amount].       *)

Chunk(value, round) == [value |-> value, round |-> round]

\* The elements of s at the positions in I, in their order: SelectSeq as a
\* recursive function over the prefixes of s, which can be proved about.
Kept(s, I) ==
  LET kept[n \in 0 .. Len(s)] ==
        IF n = 0 THEN <<>>
        ELSE IF n \in I THEN Append(kept[n - 1], s[n]) ELSE kept[n - 1]
  IN  kept[Len(s)]

\* What a consolidation keeps, and what it takes out, at the given round.
Pending(chunks, round) ==
  Kept(chunks, {i \in DOMAIN chunks : chunks[i].round > round})
Matured(chunks, round) ==
  Kept(chunks, {i \in DOMAIN chunks : chunks[i].round <= round})

Values(chunks) == SumFunction([i \in DOMAIN chunks |-> chunks[i].value])

Amounts(bonds) == SumFunction([i \in DOMAIN bonds |-> bonds[i].amount])

\* The owners a list of bonds names.
Owners(bonds) == {bonds[i].owner : i \in DOMAIN bonds}

\* slice::binary_search over bonds, which compare by owner.  The search
\* halves the range [left, right) as if the list were sorted; the pallet
\* never sorts it.
BinarySearchFinds(bonds, owner) ==
  LET n == Len(bonds)
      search[left \in 0 .. n, right \in 0 .. n] ==
        LET mid == left + (right - left) \div 2
            at  == bonds[mid + 1].owner
        IN  IF left >= right THEN FALSE
            ELSE IF at = owner THEN TRUE
            ELSE IF at < owner THEN search[mid + 1, right]
            ELSE search[left, mid]
  IN  search[0, n]

\* The position of the first bond of owner, 0 if there is none.
FirstBond(bonds, owner) == SelectInSeq(bonds, LAMBDA b : b.owner = owner)

WithoutOwner(bonds, owner) ==
  Kept(bonds, {i \in DOMAIN bonds : bonds[i].owner # owner})

OfOwner(bonds, owner) ==
  Kept(bonds, {i \in DOMAIN bonds : bonds[i].owner = owner})

\* The `for bond in &mut nominations` loop of nominate_extra.
RaiseFirst(bonds, owner, extra) ==
  [bonds EXCEPT ![FirstBond(bonds, owner)].amount = Plus(@, extra)]

\* The same loop in nominate_less; it needs bond.amount > less.
CanLowerFirst(bonds, owner, less) ==
  /\ FirstBond(bonds, owner) # 0
  /\ bonds[FirstBond(bonds, owner)].amount > less

LowerFirst(bonds, owner, less) ==
  [bonds EXCEPT ![FirstBond(bonds, owner)].amount = @ - less]

-----------------------------------------------------------------------------
(* StakingCollators                                                        *)

\* StakerStatus: the two values the pallet ever assigns.
Status == {"Onboarding", "Active"}

NewCollator(amount, next_round) ==
  [total       |-> amount,
   active      |-> 0,
   nominations |-> <<>>,
   unlocking   |-> <<Chunk(amount, next_round)>>,
   unbonding   |-> <<>>,
   status      |-> "Onboarding"]

IsActive(c) == c.status = "Active"

CollatorBondExtra(c, extra, next_round) ==
  [c EXCEPT !.total = Plus(@, extra),
            !.unlocking = Append(@, Chunk(extra, next_round))]

CollatorCanBondLess(c, less) == c.active > less

CollatorBondLess(c, less, can_withdraw_round) ==
  [c EXCEPT !.active = @ - less,
            !.unbonding = Append(@, Chunk(less, can_withdraw_round))]

\* The onboarding status never left.
MutActiveOnboard(c) == c

ActiveOnboard(c) ==
  IF c.status = "Onboarding" THEN [c EXCEPT !.status = "Active"] ELSE c

\* The unlocking list kept by consolidate_active, so that a chunk is
\* activated again in every round.
MutConsolidateActive(c, round) ==
  [c EXCEPT !.active = Plus(@, Values(Matured(c.unlocking, round)))]

\* consolidate_active: locked bond becomes active bond.
ConsolidateActive(c, round) ==
  [c EXCEPT !.active = Plus(@, Values(Matured(c.unlocking, round))),
            !.unlocking = Pending(@, round)]

\* Both consolidate_unbonded: the matured unbonding leaves the total.  The
\* two records share the fields it touches.
ConsolidateUnbonded(l, round) ==
  [l EXCEPT !.total = Minus(@, Values(Matured(l.unbonding, round))),
            !.unbonding = Pending(@, round)]

ForceBond(c) ==
  [c EXCEPT !.active = c.total, !.unlocking = <<>>, !.status = "Active"]

-----------------------------------------------------------------------------
(* StakingNominators                                                       *)

NewNominator(bond) ==
  [nominations |-> <<bond>>, total |-> bond.amount, unbonding |-> <<>>]

NominatorAdd(n, bond) ==
  [n EXCEPT !.total = Plus(@, bond.amount),
            !.nominations = Append(@, bond)]

NominatorExtra(n, candidate, extra) ==
  [n EXCEPT !.total = Plus(@, extra),
            !.nominations = RaiseFirst(@, candidate, extra)]

\* nominate_less taking the amount off the total as well, which the release
\* of the unbonding chunk will do again.
MutNominatorLess(n, candidate, less, can_withdraw_round) ==
  [n EXCEPT !.total = Minus(@, less),
            !.nominations = LowerFirst(@, candidate, less),
            !.unbonding = Append(@, Chunk(less, can_withdraw_round))]

NominatorLess(n, candidate, less, can_withdraw_round) ==
  [n EXCEPT !.nominations = LowerFirst(@, candidate, less),
            !.unbonding = Append(@, Chunk(less, can_withdraw_round))]

\* rm_nomination drops every bond with the candidate and starts unbonding the
\* amount of the last one it met.
NominatorRemove(n, candidate, can_withdraw_round) ==
  [n EXCEPT !.nominations = WithoutOwner(@, candidate),
            !.unbonding = Append(@, Chunk(Last(OfOwner(n.nominations,
                                                       candidate)).amount,
                                          can_withdraw_round))]
=============================================================================
