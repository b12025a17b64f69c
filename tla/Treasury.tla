------------------------------ MODULE Treasury ------------------------------
(***************************************************************************)
(* pallets/treasury: a pot, the account derived from the pallet's id, that *)
(* anyone may donate to and root may allocate from.  The pallet has no     *)
(* storage of its own; its state is the pot's balance.  pot() feeds events *)
(* only and is left out.                                                   *)
(***************************************************************************)
EXTENDS Balances

CONSTANTS
  Natives,            \* accounts of this chain that sign extrinsics
  TreasuryAccount,    \* account_id(): nobody holds its key
  TransferAmounts     \* the amounts passed to donate and allocate

ASSUME TreasuryAssumption ==
  /\ TreasuryAccount \notin Natives
  /\ TransferAmounts \subseteq Nat

VARIABLE accounts     \* frame_system::Account, the balances

Holders == Natives \cup {TreasuryAccount}

\* The amount check both calls begin with (ScantyAmount).
EnoughToMove(amount) == amount >= ExistentialDeposit

Donate(sender, amount) ==
  /\ EnoughToMove(amount)
  /\ CanTransfer(accounts, sender, TreasuryAccount, amount)
  /\ accounts' = Transfer(accounts, sender, TreasuryAccount, amount)

\* Root origin.  dest may be the treasury itself, which is a no-op transfer.
Allocate(dest, amount) ==
  /\ EnoughToMove(amount)
  /\ CanTransfer(accounts, TreasuryAccount, dest, amount)
  /\ accounts' = Transfer(accounts, TreasuryAccount, dest, amount)

TreasuryCall ==
  \E amount \in TransferAmounts :
    \/ \E sender \in Natives : Donate(sender, amount)
    \/ \E dest \in Holders : Allocate(dest, amount)
=============================================================================
