------------------------------ MODULE FungibleToken ------------------------------
(***************************************************************************)
(* The balances of one NEP-141 token: what token/src/internal.rs and       *)
(* ft_resolve_transfer do to accounts, the map from registered accounts to *)
(* balances, as operators.  A method that panics changes nothing; the      *)
(* Can... operators say when it does not.                                  *)
(***************************************************************************)
EXTENDS Naturals

CONSTANTS
  MaxBalance,  \* u128::MAX
  Failed       \* a promise that failed, or returned what is not an amount

ASSUME TokenAssumption ==
  /\ MaxBalance \in Nat
  /\ Failed \notin Nat

IsAccounts(accounts, holders) ==
  \E registered \in SUBSET holders : accounts \in [registered -> Nat]

Smaller(a, b) == IF a <= b THEN a ELSE b

\* ft_balance_of: 0 for an account that is not registered.
BalanceOf(accounts, account) ==
  IF account \in DOMAIN accounts THEN accounts[account] ELSE 0

---------------------------------------------------------------------------
(***************************************************************************)
(* Registration                                                            *)
(***************************************************************************)

\* Mutated form: an account is registered over what it holds.
CanRegisterAgain(accounts, account) == TRUE

CanRegister(accounts, account) == account \notin DOMAIN accounts

Registered(accounts, account) ==
  [a \in DOMAIN accounts \union {account} |-> IF a = account THEN 0 ELSE accounts[a]]

\* An account with tokens stays.
CanUnregister(accounts, account) ==
  /\ account \in DOMAIN accounts
  /\ accounts[account] = 0

Unregistered(accounts, account) == [a \in DOMAIN accounts \ {account} |-> accounts[a]]

---------------------------------------------------------------------------
(***************************************************************************)
(* Moving tokens                                                           *)
(***************************************************************************)

CanDeposit(accounts, account, amount) ==
  /\ account \in DOMAIN accounts
  /\ accounts[account] + amount <= MaxBalance

Deposited(accounts, account, amount) == [accounts EXCEPT ![account] = @ + amount]

\* Mutated form: the subtraction is not checked.
CanOverdraw(accounts, account, amount) == account \in DOMAIN accounts

CanWithdraw(accounts, account, amount) ==
  /\ account \in DOMAIN accounts
  /\ amount <= accounts[account]

Withdrawn(accounts, account, amount) == [accounts EXCEPT ![account] = @ - amount]

\* internal_transfer
CanTransfer(accounts, sender, receiver, amount) ==
  /\ sender # receiver
  /\ CanWithdraw(accounts, sender, amount)
  /\ CanDeposit(accounts, receiver, amount)

Transferred(accounts, sender, receiver, amount) ==
  Deposited(Withdrawn(accounts, sender, amount), receiver, amount)

---------------------------------------------------------------------------
(***************************************************************************)
(* Resolving a transfer call                                               *)
(***************************************************************************)

\* Mutated form: the amount the receiver returns is believed.
UnusedAsTold(amount, result) == IF result = Failed THEN amount ELSE result

\* What the receiver did not use, by the result of its ft_on_transfer.
Unused(amount, result) == IF result = Failed THEN amount ELSE Smaller(amount, result)

\* The receiver gives back what it still has of it.
Refund(accounts, receiver, amount, result) ==
  Smaller(BalanceOf(accounts, receiver), Unused(amount, result))

\* The refund of a sender that is no longer registered is burned.
AfterRefund(accounts, sender, receiver, refund) ==
  IF refund = 0 THEN accounts
  ELSE IF sender \in DOMAIN accounts
    THEN [accounts EXCEPT ![receiver] = @ - refund, ![sender] = @ + refund]
    ELSE Withdrawn(accounts, receiver, refund)

Burned(accounts, sender, refund) == IF sender \in DOMAIN accounts THEN 0 ELSE refund

\* The checked arithmetic of ft_resolve_transfer does not panic.
RefundFits(accounts, supply, sender, refund) ==
  IF sender \in DOMAIN accounts
    THEN accounts[sender] + refund <= MaxBalance
    ELSE refund <= supply
=================================================================================
