------------------------------- MODULE WrappedNear -------------------------------
(***************************************************************************)
(* The wrapped NEAR token (token/src), one action per method.              *)
(*                                                                         *)
(* ft_transfer_call is three receipts: the method itself moves the tokens, *)
(* the receiver's ft_on_transfer runs in a later block, and                *)
(* ft_resolve_transfer in a block after that.  Any method may run between  *)
(* them.  The receiver is any contract, or none: it may return any amount, *)
(* fail, or spend the tokens before it answers.                            *)
(*                                                                         *)
(* reserve is the NEAR that was attached to wrap tokens and to register    *)
(* accounts and has not been paid back.  The yoctoNEAR attached to a       *)
(* transfer stays with the contract and is not counted.                    *)
(***************************************************************************)
EXTENDS FungibleToken, FiniteSetsExt

CONSTANTS
  Holders,         \* the accounts that may be registered
  Amounts,         \* the amounts of deposits, withdrawals and transfers
  Results,         \* what receivers return from ft_on_transfer
  StorageMinimum,  \* storage_minimum_balance
  MaxReserve,      \* bound: the NEAR that can be attached, no more than there is
  Slots,           \* bound: transfer calls under way at a time, one in each slot
  Idle             \* a slot without a call

VARIABLES
  accounts,      \* TokenContract.accounts
  total_supply,  \* TokenContract.total_supply
  reserve,       \* the NEAR held for deposits and registrations
  calls          \* the transfer calls under way

vars == << accounts, total_supply, reserve, calls >>

ASSUME WrappedNearAssumption ==
  /\ IsFiniteSet(Holders)
  /\ Amounts \subseteq Nat
  /\ Results \subseteq Nat \union {Failed}
  /\ StorageMinimum \in Nat
  /\ MaxReserve \in Nat

Waiting  == [sender : Holders, receiver : Holders, amount : Nat]
Answered == [sender : Holders, receiver : Holders, amount : Nat,
             result : Nat \union {Failed}]

ASSUME IdleAssumption == Idle \notin Waiting \union Answered

---------------------------------------------------------------------------
(***************************************************************************)
(* Wrapping and unwrapping                                                 *)
(***************************************************************************)

NearDeposit(account, amount) ==
  /\ amount > 0
  /\ CanDeposit(accounts, account, amount)
  /\ total_supply + amount <= MaxBalance
  /\ reserve + amount <= MaxReserve
  /\ accounts' = Deposited(accounts, account, amount)
  /\ total_supply' = total_supply + amount
  /\ reserve' = reserve + amount
  /\ UNCHANGED calls

\* Mutated form: unwrapping leaves the supply as it is.
UnwrapKeepingSupply(amount) ==
  /\ total_supply' = total_supply
  /\ reserve' = reserve - amount

\* The tokens leave the supply, and as much NEAR the contract.
Unwrap(amount) ==
  /\ total_supply' = total_supply - amount
  /\ reserve' = reserve - amount

NearWithdraw(account, amount) ==
  /\ CanWithdraw(accounts, account, amount)
  /\ amount <= total_supply
  /\ accounts' = Withdrawn(accounts, account, amount)
  /\ Unwrap(amount)
  /\ UNCHANGED calls

---------------------------------------------------------------------------
(***************************************************************************)
(* Transfers                                                               *)
(***************************************************************************)

FtTransfer(sender, receiver, amount) ==
  /\ CanTransfer(accounts, sender, receiver, amount)
  /\ accounts' = Transferred(accounts, sender, receiver, amount)
  /\ UNCHANGED << total_supply, reserve, calls >>

FtTransferCall(slot, sender, receiver, amount) ==
  /\ calls[slot] = Idle
  /\ CanTransfer(accounts, sender, receiver, amount)
  /\ accounts' = Transferred(accounts, sender, receiver, amount)
  /\ calls' = [calls EXCEPT ![slot] =
       [sender |-> sender, receiver |-> receiver, amount |-> amount]]
  /\ UNCHANGED << total_supply, reserve >>

\* The receiver answers.  Its own transfers are actions of their own.
FtOnTransfer(slot, result) ==
  LET call == calls[slot]
  IN  /\ call \in Waiting
      /\ calls' = [calls EXCEPT ![slot] =
           [sender |-> call.sender, receiver |-> call.receiver, amount |-> call.amount,
            result |-> result]]
      /\ UNCHANGED << accounts, total_supply, reserve >>

RefundOf(call) == Refund(accounts, call.receiver, call.amount, call.result)

\* Mutated form: a sender that is no longer registered makes the method panic.
ResolvesIfRegistered(call) ==
  /\ call.sender \in DOMAIN accounts
  /\ RefundFits(accounts, total_supply, call.sender, RefundOf(call))

Resolves(call) == RefundFits(accounts, total_supply, call.sender, RefundOf(call))

FtResolveTransfer(slot) ==
  LET call == calls[slot]
  IN  /\ call \in Answered
      /\ Resolves(call)
      /\ accounts' = AfterRefund(accounts, call.sender, call.receiver, RefundOf(call))
      /\ total_supply' = total_supply - Burned(accounts, call.sender, RefundOf(call))
      /\ calls' = [calls EXCEPT ![slot] = Idle]
      /\ UNCHANGED reserve

---------------------------------------------------------------------------
(***************************************************************************)
(* Registration                                                            *)
(***************************************************************************)

\* Anyone may register an account, with the exact minimum.
StorageDeposit(account) ==
  /\ CanRegister(accounts, account)
  /\ reserve + StorageMinimum <= MaxReserve
  /\ accounts' = Registered(accounts, account)
  /\ reserve' = reserve + StorageMinimum
  /\ UNCHANGED << total_supply, calls >>

StorageWithdraw(account) ==
  /\ CanUnregister(accounts, account)
  /\ accounts' = Unregistered(accounts, account)
  /\ reserve' = reserve - StorageMinimum
  /\ UNCHANGED << total_supply, calls >>

---------------------------------------------------------------------------
Init ==
  /\ accounts = << >>
  /\ total_supply = 0
  /\ reserve = 0
  /\ calls = [slot \in Slots |-> Idle]

Next ==
  \/ \E account \in Holders :
       \/ StorageDeposit(account)
       \/ StorageWithdraw(account)
       \/ \E amount \in Amounts : NearDeposit(account, amount) \/ NearWithdraw(account, amount)
  \/ \E sender, receiver \in Holders, amount \in Amounts :
       \/ FtTransfer(sender, receiver, amount)
       \/ \E slot \in Slots : FtTransferCall(slot, sender, receiver, amount)
  \/ \E slot \in Slots :
       \/ \E result \in Results : FtOnTransfer(slot, result)
       \/ FtResolveTransfer(slot)

Spec == Init /\ [][Next]_vars

(***************************************************************************)
(* The network runs every receipt: the receiver's, and the callback, which *)
(* has its gas set aside (GAS_FOR_RESOLVE_TRANSFER).                       *)
(***************************************************************************)
Fairness ==
  \A slot \in Slots :
    /\ WF_vars(\E result \in Results : FtOnTransfer(slot, result))
    /\ WF_vars(FtResolveTransfer(slot))

FairSpec == Spec /\ Fairness

---------------------------------------------------------------------------
(***************************************************************************)
(* Every variable has the type its declaration in the code gives it.       *)
(***************************************************************************)
TypeOK ==
  /\ IsAccounts(accounts, Holders)
  /\ total_supply \in Nat
  /\ reserve \in Nat
  /\ calls \in [Slots -> Waiting \union Answered \union {Idle}]

\* What all accounts hold together.
Holdings(acc) == MapThenSumSet(LAMBDA a : acc[a], DOMAIN acc)

(***************************************************************************)
(* total_supply is the sum of all balances, whatever is wrapped, moved,    *)
(* refunded, burned or unregistered in between: near_deposit, near_withdraw*)
(* and ft_resolve_transfer change the two separately.                      *)
(***************************************************************************)
SupplyConserved == total_supply = Holdings(accounts)

(***************************************************************************)
(* The contract holds the NEAR for every token in the supply, and the      *)
(* deposit that every registered account may take back, so that no         *)
(* near_withdraw and no storage_withdraw is refused for want of NEAR, in   *)
(* any order of calls.                                                     *)
(***************************************************************************)
Backed == reserve >= total_supply + StorageMinimum * Cardinality(DOMAIN accounts)

\* What the call in a slot comes to when it is resolved by a step.
SettledFairly(slot) ==
  LET call  == calls[slot]
      taken == BalanceOf(accounts, call.receiver) - BalanceOf(accounts', call.receiver)
  IN  /\ taken \in 0 .. call.amount
      /\ BalanceOf(accounts', call.sender) - BalanceOf(accounts, call.sender)
           = IF call.sender \in DOMAIN accounts THEN taken ELSE 0
      /\ total_supply - total_supply' = IF call.sender \in DOMAIN accounts THEN 0 ELSE taken
      /\ call.result = Failed /\ BalanceOf(accounts, call.receiver) >= call.amount
           => taken = call.amount
      /\ \A other \in Holders \ {call.sender, call.receiver} :
           BalanceOf(accounts', other) = BalanceOf(accounts, other)

(***************************************************************************)
(* The callback of a transfer call takes from the receiver no more than was*)
(* sent, whatever the receiver answers and has done with the tokens since; *)
(* all of it goes to the sender, or out of the supply when the sender has  *)
(* left; and after a failure the sender gets everything back if the        *)
(* receiver still has it (ft_resolve_transfer).                            *)
(***************************************************************************)
RefundsFair ==
  [][\A slot \in Slots :
       calls[slot] # Idle /\ calls'[slot] = Idle => SettledFairly(slot)]_vars

(***************************************************************************)
(* Every transfer call is resolved, so that no part of it stays undecided: *)
(* the checked additions and subtractions of ft_resolve_transfer never     *)
(* panic, whatever ran since the call was made.                            *)
(***************************************************************************)
CallsResolve == \A slot \in Slots : calls[slot] # Idle ~> calls[slot] = Idle
=================================================================================
