------------------------------ MODULE Balances ------------------------------
(***************************************************************************)
(* The currency the pallets are configured with (`type Currency =          *)
(* Balances`), as far as the pallets use it: reserve, unreserve,           *)
(* deposit_into_existing and transfer(AllowDeath).  pallet_balances is a   *)
(* dependency, not part of the repository: these operators are its         *)
(* contract at the pinned revision, on the two balances of an account.     *)
(* There are no locks, because no pallet here sets one.                    *)
(***************************************************************************)
EXTENDS Integers

CONSTANT ExistentialDeposit      \* T::Currency::minimum_balance()

ASSUME EDAssumption == ExistentialDeposit \in Nat

\* Saturating::saturating_sub on an unsigned integer.
SaturatingSub(a, b) == IF a >= b THEN a - b ELSE 0

AccountData == [free : Nat, reserved : Nat]

NoAccount == [free |-> 0, reserved |-> 0]

TotalBalance(a) == a.free + a.reserved

\* ReservableCurrency::reserve succeeds iff the free balance covers the value.
CanReserve(a, v) == a.free >= v

\* reserve, whose Result the staking pallet drops: on failure nothing changes.
ReserveOrNothing(a, v) ==
  IF CanReserve(a, v)
    THEN [free |-> a.free - v, reserved |-> a.reserved + v]
    ELSE a

\* ReservableCurrency::unreserve moves back at most what is reserved.
Unreserve(a, v) ==
  LET actual == IF v <= a.reserved THEN v ELSE a.reserved
  IN  [free |-> a.free + actual, reserved |-> a.reserved - actual]

\* Currency::deposit_into_existing refuses a dead account.
DepositIntoExisting(a, v) ==
  IF TotalBalance(a) = 0 THEN a ELSE [a EXCEPT !.free = @ + v]

\* An account that falls below the existential deposit is removed, and what
\* is left in it is burnt as dust.
Reap(a) == IF TotalBalance(a) < ExistentialDeposit THEN NoAccount ELSE a

\* Currency::transfer(from, to, v, AllowDeath) on the map `acc` of accounts.
CanTransfer(acc, from, to, v) ==
  \/ v = 0
  \/ from = to
  \/ /\ acc[from].free >= v
     /\ TotalBalance(acc[to]) + v >= ExistentialDeposit

Transfer(acc, from, to, v) ==
  IF v = 0 \/ from = to
    THEN acc
    ELSE [acc EXCEPT ![from] = Reap([free     |-> acc[from].free - v,
                                    reserved |-> acc[from].reserved]),
                    ![to]   = [free     |-> acc[to].free + v,
                               reserved |-> acc[to].reserved]]
=============================================================================
