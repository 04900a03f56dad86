---------------------------- MODULE WrappedNearProofs ----------------------------
(***************************************************************************)
(* The wrapped NEAR token, for any holders, amounts, answers of receivers  *)
(* and number of transfer calls under way: its types, that the supply is   *)
(* what the accounts hold together, that the contract holds the NEAR it    *)
(* owes, and that a transfer call refunds no more than was sent.           *)
(***************************************************************************)
EXTENDS WrappedNear, SumProofs

\* Nobody makes a transfer call to themselves.
TwoParties == \A slot \in Slots : calls[slot] # Idle => calls[slot].sender # calls[slot].receiver

Inv == TypeOK /\ Backed /\ TwoParties /\ SupplyConserved

\* What the registered accounts may take back.
Deposits == StorageMinimum * Cardinality(DOMAIN accounts)

---------------------------------------------------------------------------
(***************************************************************************)
(* Accounts                                                                *)
(***************************************************************************)

\* A map of accounts, by its domain.
LEMMA AccountsByDomain ==
  ASSUME NEW acc, NEW S \in SUBSET Holders, acc \in [S -> Nat]
  PROVE  IsAccounts(acc, Holders) /\ DOMAIN acc = S
BY DEF IsAccounts

\* The domain of a map of accounts is finite.
LEMMA AccountsType ==
  ASSUME NEW acc, IsAccounts(acc, Holders)
  PROVE  /\ acc \in [DOMAIN acc -> Nat]
         /\ DOMAIN acc \in SUBSET Holders
         /\ IsFiniteSet(DOMAIN acc)
         /\ Cardinality(DOMAIN acc) \in Nat
<1>1. acc \in [DOMAIN acc -> Nat] /\ DOMAIN acc \in SUBSET Holders
  BY DEF IsAccounts
<1>2. IsFiniteSet(DOMAIN acc)
  BY <1>1, FS_Subset, WrappedNearAssumption
<1>3. QED
  BY <1>1, <1>2, FS_CardinalityType

\* A deposit changes the balance of one account, and registers none.
LEMMA DepositedAccounts ==
  ASSUME NEW acc, IsAccounts(acc, Holders), NEW a \in DOMAIN acc, NEW n \in Nat
  PROVE  /\ IsAccounts(Deposited(acc, a, n), Holders)
         /\ DOMAIN Deposited(acc, a, n) = DOMAIN acc
         /\ Deposited(acc, a, n) = [acc EXCEPT ![a] = acc[a] + n]
<1>1. acc \in [DOMAIN acc -> Nat] /\ DOMAIN acc \in SUBSET Holders
  BY AccountsType
<1>2. acc[a] + n \in Nat
  BY <1>1
<1>3. Deposited(acc, a, n) \in [DOMAIN acc -> Nat]
  BY <1>1, <1>2 DEF Deposited
<1>4. QED
  BY <1>1, <1>3, AccountsByDomain DEF Deposited

\* So does a withdrawal of no more than the balance.
LEMMA WithdrawnAccounts ==
  ASSUME NEW acc, IsAccounts(acc, Holders), NEW a \in DOMAIN acc, NEW n \in Nat, n <= acc[a]
  PROVE  /\ IsAccounts(Withdrawn(acc, a, n), Holders)
         /\ DOMAIN Withdrawn(acc, a, n) = DOMAIN acc
         /\ Withdrawn(acc, a, n) = [acc EXCEPT ![a] = acc[a] - n]
<1>1. acc \in [DOMAIN acc -> Nat] /\ DOMAIN acc \in SUBSET Holders
  BY AccountsType
<1>2. acc[a] - n \in Nat
  BY <1>1
<1>3. Withdrawn(acc, a, n) \in [DOMAIN acc -> Nat]
  BY <1>1, <1>2 DEF Withdrawn
<1>4. QED
  BY <1>1, <1>3, AccountsByDomain DEF Withdrawn

\* A transfer registers nobody.
LEMMA TransferredAccounts ==
  ASSUME NEW acc, IsAccounts(acc, Holders), NEW s, NEW r, NEW n \in Nat,
         CanTransfer(acc, s, r, n)
  PROVE  /\ IsAccounts(Transferred(acc, s, r, n), Holders)
         /\ DOMAIN Transferred(acc, s, r, n) = DOMAIN acc
<1> DEFINE paid == Withdrawn(acc, s, n)
<1>1. s \in DOMAIN acc /\ n <= acc[s] /\ r \in DOMAIN acc
  BY DEF CanTransfer, CanWithdraw, CanDeposit
<1>2. IsAccounts(paid, Holders) /\ DOMAIN paid = DOMAIN acc
  BY <1>1, WithdrawnAccounts
<1> HIDE DEF paid
<1>3. /\ IsAccounts(Deposited(paid, r, n), Holders)
      /\ DOMAIN Deposited(paid, r, n) = DOMAIN acc
  BY <1>1, <1>2, DepositedAccounts
<1>4. QED
  BY <1>3 DEF Transferred, paid

\* What the receiver gives back is no more than was sent, nor than it has.
LEMMA RefundBounds ==
  ASSUME NEW acc, IsAccounts(acc, Holders), NEW r, NEW n \in Nat,
         NEW result \in Nat \union {Failed}
  PROVE  /\ BalanceOf(acc, r) \in Nat
         /\ Refund(acc, r, n, result) \in 0 .. n
         /\ Refund(acc, r, n, result) <= BalanceOf(acc, r)
         /\ result = Failed /\ BalanceOf(acc, r) >= n => Refund(acc, r, n, result) = n
<1> DEFINE balance == BalanceOf(acc, r)
           unused  == Unused(n, result)
<1>1. balance \in Nat
  BY AccountsType DEF BalanceOf
<1>2. unused \in 0 .. n /\ (result = Failed => unused = n)
  BY TokenAssumption DEF Unused, Smaller
<1> HIDE DEF balance, unused
<1>3. /\ Smaller(balance, unused) \in 0 .. n
      /\ Smaller(balance, unused) <= balance
      /\ result = Failed /\ balance >= n => Smaller(balance, unused) = n
  BY <1>1, <1>2 DEF Smaller
<1>4. QED
  BY <1>1, <1>3 DEF Refund, balance, unused

\* n tokens go from r to s, if s is still there.
Moved(before, after, s, r, n) ==
  /\ IsAccounts(after, Holders)
  /\ DOMAIN after = DOMAIN before
  /\ BalanceOf(after, r) = BalanceOf(before, r) - n
  /\ BalanceOf(after, s) = BalanceOf(before, s) + (IF s \in DOMAIN before THEN n ELSE 0)
  /\ \A other \in Holders \ {s, r} : BalanceOf(after, other) = BalanceOf(before, other)

\* A refund goes from the receiver to the sender, if it is still there.
LEMMA RefundMoves ==
  ASSUME NEW acc, IsAccounts(acc, Holders), NEW s, NEW r, s # r,
         NEW n \in Nat, n <= BalanceOf(acc, r),
         NEW after, after = AfterRefund(acc, s, r, n)
  PROVE  Moved(acc, after, s, r, n)
<1>0. /\ acc \in [DOMAIN acc -> Nat]
      /\ DOMAIN acc \in SUBSET Holders
  BY AccountsType
<1>1. CASE n = 0
  <2>1. after = acc
    BY <1>1 DEF AfterRefund
  <2>2. \A a : BalanceOf(acc, a) \in Nat
    BY <1>0 DEF BalanceOf
  <2>3. QED
    BY <1>1, <2>1, <2>2 DEF Moved
<1>2. CASE n # 0
  <2>1. r \in DOMAIN acc /\ n <= acc[r]
    BY <1>2 DEF BalanceOf
  <2>2. acc[r] - n \in Nat
    BY <1>0, <2>1
  <2>3. CASE s \in DOMAIN acc
    <3>1. after = [acc EXCEPT ![r] = acc[r] - n, ![s] = acc[s] + n]
      BY <1>2, <2>3 DEF AfterRefund
    <3>2. acc[s] + n \in Nat
      BY <1>0, <2>3
    <3>3. after \in [DOMAIN acc -> Nat]
      BY <1>0, <2>2, <3>1, <3>2
    <3>4. /\ after[r] = acc[r] - n
          /\ after[s] = acc[s] + n
          /\ \A a \in DOMAIN acc \ {s, r} : after[a] = acc[a]
      BY <1>0, <2>1, <2>3, <3>1
    <3>5. IsAccounts(after, Holders) /\ DOMAIN after = DOMAIN acc
      BY <1>0, <3>3, AccountsByDomain
    <3>6. /\ BalanceOf(after, r) = BalanceOf(acc, r) - n
          /\ BalanceOf(after, s) = BalanceOf(acc, s) + (IF s \in DOMAIN acc THEN n ELSE 0)
          /\ \A other \in Holders \ {s, r} : BalanceOf(after, other) = BalanceOf(acc, other)
      BY <2>1, <2>3, <3>4, <3>5 DEF BalanceOf
    <3>7. QED
      BY <3>5, <3>6 DEF Moved
  <2>4. CASE s \notin DOMAIN acc
    <3>1. after = Withdrawn(acc, r, n)
      BY <1>2, <2>4 DEF AfterRefund
    <3>2. /\ IsAccounts(after, Holders)
          /\ DOMAIN after = DOMAIN acc
          /\ after = [acc EXCEPT ![r] = acc[r] - n]
      BY <2>1, <3>1, WithdrawnAccounts
    <3>3. /\ BalanceOf(after, r) = BalanceOf(acc, r) - n
          /\ BalanceOf(after, s) = BalanceOf(acc, s) + (IF s \in DOMAIN acc THEN n ELSE 0)
          /\ \A other \in Holders \ {s, r} : BalanceOf(after, other) = BalanceOf(acc, other)
      BY <2>1, <2>4, <3>2 DEF BalanceOf
    <3>4. QED
      BY <3>2, <3>3 DEF Moved
  <2>5. QED
    BY <2>3, <2>4
<1>3. QED
  BY <1>1, <1>2

---------------------------------------------------------------------------
(***************************************************************************)
(* What the accounts hold together                                         *)
(***************************************************************************)

\* What they hold is the sum of the table of balances.
LEMMA HoldingsTotal == ASSUME NEW acc PROVE Holdings(acc) = Total(acc, DOMAIN acc)
BY DEF Holdings, Total

\* The balances add up.
LEMMA HoldingsSummable ==
  ASSUME NEW acc, IsAccounts(acc, Holders)
  PROVE  Summable(acc, DOMAIN acc) /\ Holdings(acc) \in Int
<1>1. Summable(acc, DOMAIN acc)
  BY AccountsType DEF Summable
<1>2. QED
  BY <1>1, TotalInt, HoldingsTotal

\* A deposit adds to what is held.
LEMMA DepositedHoldings ==
  ASSUME NEW acc, IsAccounts(acc, Holders), NEW a \in DOMAIN acc, NEW n \in Nat
  PROVE  Holdings(Deposited(acc, a, n)) = Holdings(acc) + n
<1> DEFINE after == Deposited(acc, a, n)
           S     == DOMAIN acc
<1>1. acc \in [S -> Nat] /\ Summable(acc, S) /\ Total(acc, S) \in Int
  BY AccountsType, HoldingsSummable, HoldingsTotal
<1>2. after = [acc EXCEPT ![a] = acc[a] + n] /\ DOMAIN after = S
  BY DepositedAccounts
<1>3. after[a] = acc[a] + n /\ \A b \in S \ {a} : after[b] = acc[b]
  BY <1>1, <1>2
<1>4. acc[a] \in Int /\ acc[a] + n \in Int
  BY <1>1
<1> HIDE DEF after
<1>5. Total(after, S) = Total(acc, S) + after[a] - acc[a]
  BY <1>1, <1>3, <1>4, TotalChanged
<1>6. Total(after, S) = Total(acc, S) + n
  BY <1>1, <1>3, <1>4, <1>5
<1>7. QED
  BY <1>2, <1>6, HoldingsTotal DEF after

\* A withdrawal takes from it.
LEMMA WithdrawnHoldings ==
  ASSUME NEW acc, IsAccounts(acc, Holders), NEW a \in DOMAIN acc, NEW n \in Nat, n <= acc[a]
  PROVE  Holdings(Withdrawn(acc, a, n)) = Holdings(acc) - n
<1> DEFINE after == Withdrawn(acc, a, n)
           S     == DOMAIN acc
<1>1. acc \in [S -> Nat] /\ Summable(acc, S) /\ Total(acc, S) \in Int
  BY AccountsType, HoldingsSummable, HoldingsTotal
<1>2. after = [acc EXCEPT ![a] = acc[a] - n] /\ DOMAIN after = S
  BY WithdrawnAccounts
<1>3. after[a] = acc[a] - n /\ \A b \in S \ {a} : after[b] = acc[b]
  BY <1>1, <1>2
<1>4. acc[a] \in Int /\ acc[a] - n \in Int
  BY <1>1
<1> HIDE DEF after
<1>5. Total(after, S) = Total(acc, S) + after[a] - acc[a]
  BY <1>1, <1>3, <1>4, TotalChanged
<1>6. Total(after, S) = Total(acc, S) - n
  BY <1>1, <1>3, <1>4, <1>5
<1>7. QED
  BY <1>2, <1>6, HoldingsTotal DEF after

\* A transfer leaves it as it is.
LEMMA TransferredHoldings ==
  ASSUME NEW acc, IsAccounts(acc, Holders), NEW s, NEW r, NEW n \in Nat,
         CanTransfer(acc, s, r, n)
  PROVE  Holdings(Transferred(acc, s, r, n)) = Holdings(acc)
<1> DEFINE paid == Withdrawn(acc, s, n)
<1>1. s \in DOMAIN acc /\ n <= acc[s] /\ r \in DOMAIN acc
  BY DEF CanTransfer, CanWithdraw, CanDeposit
<1>2. IsAccounts(paid, Holders) /\ DOMAIN paid = DOMAIN acc
  BY <1>1, WithdrawnAccounts
<1>3. Holdings(paid) = Holdings(acc) - n
  BY <1>1, WithdrawnHoldings
<1> HIDE DEF paid
<1>4. Holdings(Deposited(paid, r, n)) = Holdings(paid) + n
  BY <1>1, <1>2, DepositedHoldings
<1>5. Holdings(acc) \in Int
  BY HoldingsSummable
<1>6. QED
  BY <1>3, <1>4, <1>5 DEF Transferred, paid

\* A refund that finds its sender moves tokens; one that does not burns them.
LEMMA RefundedHoldings ==
  ASSUME NEW acc, IsAccounts(acc, Holders), NEW s, NEW r, s # r,
         NEW n \in Nat, n <= BalanceOf(acc, r),
         NEW after, after = AfterRefund(acc, s, r, n)
  PROVE  Holdings(after) = Holdings(acc) - Burned(acc, s, n)
<1>0. acc \in [DOMAIN acc -> Nat] /\ Holdings(acc) \in Int
  BY AccountsType, HoldingsSummable
<1>1. CASE n = 0
  BY <1>0, <1>1 DEF AfterRefund, Burned
<1>2. CASE n # 0
  <2>1. r \in DOMAIN acc /\ n <= acc[r]
    BY <1>2 DEF BalanceOf
  <2> DEFINE taken == Withdrawn(acc, r, n)
  <2>2. /\ IsAccounts(taken, Holders)
        /\ DOMAIN taken = DOMAIN acc
        /\ taken = [acc EXCEPT ![r] = acc[r] - n]
    BY <2>1, WithdrawnAccounts
  <2>3. Holdings(taken) = Holdings(acc) - n
    BY <2>1, WithdrawnHoldings
  <2>4. CASE s \in DOMAIN acc
    <3>1. after = [taken EXCEPT ![s] = taken[s] + n]
      <4>1. after = [acc EXCEPT ![r] = acc[r] - n, ![s] = acc[s] + n]
        BY <1>2, <2>4 DEF AfterRefund
      <4>2. taken[s] = acc[s]
        BY <1>0, <2>2, <2>4
      <4> HIDE DEF taken
      <4>3. QED
        BY <1>0, <2>2, <4>1, <4>2
    <3> HIDE DEF taken
    <3>2. /\ Deposited(taken, s, n) = after
          /\ Holdings(Deposited(taken, s, n)) = Holdings(taken) + n
      BY <2>2, <2>4, <3>1, DepositedHoldings DEF Deposited
    <3>3. QED
      BY <1>0, <2>3, <2>4, <3>2 DEF Burned
  <2>5. CASE s \notin DOMAIN acc
    BY <1>2, <2>3, <2>5 DEF AfterRefund, Burned
  <2>6. QED
    BY <2>4, <2>5
<1>3. QED
  BY <1>1, <1>2

\* Registering an account adds nothing to what is held.
LEMMA RegisteredHoldings ==
  ASSUME NEW acc, IsAccounts(acc, Holders), NEW a, a \notin DOMAIN acc
  PROVE  Holdings(Registered(acc, a)) = Holdings(acc)
<1> DEFINE after == Registered(acc, a)
           S     == DOMAIN acc
<1>1. Summable(acc, S) /\ Total(acc, S) \in Int
  BY HoldingsSummable, HoldingsTotal
<1>2. DOMAIN after = S \union {a} /\ after[a] = 0 /\ \A b \in S : after[b] = acc[b]
  BY DEF Registered
<1> HIDE DEF after, S
<1>3. Total(after, S \union {a}) = Total(acc, S) + after[a]
  <2>1. a \notin S /\ after[a] \in Int /\ \A b \in S : after[b] = acc[b]
    BY <1>2 DEF S
  <2>2. Summable(acc, S)
    BY <1>1
  <2>3. QED
    BY ONLY <2>1, <2>2, TotalAdded
<1>4. QED
  BY <1>1, <1>2, <1>3, HoldingsTotal DEF after, S

\* Nor does it lose anything with an account that holds nothing.
LEMMA UnregisteredHoldings ==
  ASSUME NEW acc, IsAccounts(acc, Holders), NEW a \in DOMAIN acc, acc[a] = 0
  PROVE  Holdings(Unregistered(acc, a)) = Holdings(acc)
<1> DEFINE after == Unregistered(acc, a)
           S     == DOMAIN acc
           rest  == S \ {a}
<1>1. Summable(acc, S)
  BY HoldingsSummable
<1>2. Summable(acc, rest)
  BY <1>1, FS_Subset DEF Summable
<1>3. DOMAIN after = rest /\ \A b \in rest : after[b] = acc[b]
  BY DEF Unregistered
<1>4. Total(acc, S) = acc[a] + Total(acc, rest) /\ Total(acc, rest) \in Int
  BY <1>1, <1>2, TotalWithout, TotalInt
<1> HIDE DEF after, rest
<1>5. Total(after, rest) = Total(acc, rest)
  BY <1>2, <1>3, TotalSame
<1>6. QED
  BY <1>3, <1>4, <1>5, HoldingsTotal DEF after

---------------------------------------------------------------------------
(***************************************************************************)
(* Steps                                                                   *)
(***************************************************************************)

\* What a step may do to the calls under way.
CallsSettled ==
  \A slot \in Slots : calls[slot] # Idle /\ calls'[slot] = Idle => SettledFairly(slot)

\* The NEAR owed to the registered accounts is a natural number.
LEMMA DepositsType ==
  ASSUME Inv
  PROVE  Deposits \in Nat
<1>1. Cardinality(DOMAIN accounts) \in Nat
  BY AccountsType DEF Inv, TypeOK
<1>2. QED
  BY <1>1, WrappedNearAssumption DEF Deposits

\* A step that registers nobody, makes no call and resolves none.
LEMMA SameCallsKeepInv ==
  ASSUME Inv, IsAccounts(accounts', Holders), DOMAIN accounts' = DOMAIN accounts,
         total_supply' \in Nat, reserve' \in Nat, UNCHANGED calls,
         reserve' >= total_supply' + Deposits, total_supply' = Holdings(accounts')
  PROVE  Inv' /\ CallsSettled
<1>1. Deposits' = Deposits
  BY DEF Deposits
<1>2. SupplyConserved'
  BY DEF SupplyConserved
<1>3. QED
  BY <1>1, <1>2 DEF Inv, TypeOK, Backed, Deposits, TwoParties, CallsSettled

\* The invariant says what the accounts hold.
LEMMA SupplyHeld ==
  ASSUME Inv
  PROVE  total_supply = Holdings(accounts) /\ IsAccounts(accounts, Holders)
BY DEF Inv, TypeOK, SupplyConserved

\* near_deposit adds the same to the supply and to the NEAR held for it.
LEMMA NearDepositKeepsInv ==
  ASSUME Inv, NEW account \in Holders, NEW amount \in Amounts, NearDeposit(account, amount)
  PROVE  Inv' /\ CallsSettled
<1>1. amount \in Nat /\ account \in DOMAIN accounts
  BY WrappedNearAssumption DEF NearDeposit, CanDeposit
<1>2. IsAccounts(accounts', Holders) /\ DOMAIN accounts' = DOMAIN accounts
  BY <1>1, DepositedAccounts DEF Inv, TypeOK, NearDeposit
<1>3. /\ total_supply \in Nat
      /\ reserve \in Nat
      /\ reserve >= total_supply + Deposits
      /\ Deposits \in Nat
      /\ total_supply' = total_supply + amount
      /\ reserve' = reserve + amount
  BY DepositsType DEF Inv, TypeOK, Backed, Deposits, NearDeposit
<1>4. total_supply' \in Nat /\ reserve' \in Nat /\ reserve' >= total_supply' + Deposits
  BY <1>1, <1>3
<1>5. total_supply' = Holdings(accounts')
  BY <1>1, <1>3, SupplyHeld, DepositedHoldings DEF NearDeposit
<1>6. QED
  BY <1>2, <1>4, <1>5, SameCallsKeepInv DEF NearDeposit

\* near_withdraw takes the same off both; the NEAR is there.
LEMMA NearWithdrawKeepsInv ==
  ASSUME Inv, NEW account \in Holders, NEW amount \in Amounts, NearWithdraw(account, amount)
  PROVE  Inv' /\ CallsSettled
<1>1. amount \in Nat /\ account \in DOMAIN accounts /\ amount <= accounts[account]
  BY WrappedNearAssumption DEF NearWithdraw, CanWithdraw
<1>2. IsAccounts(accounts', Holders) /\ DOMAIN accounts' = DOMAIN accounts
  BY <1>1, WithdrawnAccounts DEF Inv, TypeOK, NearWithdraw
<1>3. /\ total_supply \in Nat
      /\ reserve \in Nat
      /\ reserve >= total_supply + Deposits
      /\ Deposits \in Nat
      /\ amount <= total_supply
      /\ total_supply' = total_supply - amount
      /\ reserve' = reserve - amount
  BY DepositsType DEF Inv, TypeOK, Backed, Deposits, NearWithdraw, Unwrap
<1>4. total_supply' \in Nat /\ reserve' \in Nat
  BY <1>1, <1>3
<1>5. reserve' >= total_supply' + Deposits
  BY <1>1, <1>3
<1>6. total_supply' = Holdings(accounts')
  BY <1>1, <1>3, SupplyHeld, WithdrawnHoldings DEF NearWithdraw
<1>7. QED
  BY <1>2, <1>4, <1>5, <1>6, SameCallsKeepInv DEF NearWithdraw

\* ft_transfer touches neither the supply nor the NEAR.
LEMMA FtTransferKeepsInv ==
  ASSUME Inv, NEW sender \in Holders, NEW receiver \in Holders, NEW amount \in Amounts,
         FtTransfer(sender, receiver, amount)
  PROVE  Inv' /\ CallsSettled
<1>1. amount \in Nat
  BY WrappedNearAssumption
<1>2. IsAccounts(accounts', Holders) /\ DOMAIN accounts' = DOMAIN accounts
  BY <1>1, TransferredAccounts DEF Inv, TypeOK, FtTransfer
<1>3. total_supply' \in Nat /\ reserve' \in Nat /\ reserve' >= total_supply' + Deposits
  BY DEF Inv, TypeOK, Backed, Deposits, FtTransfer
<1>4. total_supply' = Holdings(accounts')
  BY <1>1, SupplyHeld, TransferredHoldings DEF FtTransfer
<1>5. QED
  BY <1>2, <1>3, <1>4, SameCallsKeepInv DEF FtTransfer

\* One slot changes: the call in it is well-formed, and between two parties.
LEMMA SlotKeepsInv ==
  ASSUME Inv, NEW slot \in Slots, NEW call,
         call \in Waiting \union Answered \union {Idle},
         call # Idle => call.sender # call.receiver,
         calls' = [calls EXCEPT ![slot] = call]
  PROVE  /\ calls' \in [Slots -> Waiting \union Answered \union {Idle}]
         /\ TwoParties'
         /\ \A other \in Slots \ {slot} : calls'[other] = calls[other]
<1> DEFINE Calls == Waiting \union Answered \union {Idle}
<1>1. calls \in [Slots -> Calls] /\ call \in Calls
  BY DEF Inv, TypeOK
<1> HIDE DEF Calls
<1>2. /\ calls' \in [Slots -> Calls]
      /\ calls'[slot] = call
      /\ \A other \in Slots \ {slot} : calls'[other] = calls[other]
  BY <1>1
<1>3. TwoParties'
  BY <1>2 DEF Inv, TwoParties
<1>4. QED
  BY <1>2, <1>3 DEF Calls

\* ft_transfer_call moves the tokens and remembers the call.
LEMMA FtTransferCallKeepsInv ==
  ASSUME Inv, NEW slot \in Slots, NEW sender \in Holders, NEW receiver \in Holders,
         NEW amount \in Amounts, FtTransferCall(slot, sender, receiver, amount)
  PROVE  Inv' /\ CallsSettled
<1> DEFINE call == [sender |-> sender, receiver |-> receiver, amount |-> amount]
<1>1. amount \in Nat /\ sender # receiver
  BY WrappedNearAssumption DEF FtTransferCall, CanTransfer
<1>2. IsAccounts(accounts', Holders) /\ DOMAIN accounts' = DOMAIN accounts
  BY <1>1, TransferredAccounts DEF Inv, TypeOK, FtTransferCall
<1>3. call \in Waiting /\ call.sender # call.receiver
  BY <1>1 DEF Waiting
<1>4. calls' = [calls EXCEPT ![slot] = call]
  BY DEF FtTransferCall
<1>5. calls[slot] = Idle
  BY DEF FtTransferCall
<1> HIDE DEF call
<1>6. /\ calls' \in [Slots -> Waiting \union Answered \union {Idle}]
      /\ TwoParties'
      /\ \A other \in Slots \ {slot} : calls'[other] = calls[other]
  BY <1>3, <1>4, SlotKeepsInv
<1>7. CallsSettled
  BY <1>5, <1>6 DEF CallsSettled
<1>8. UNCHANGED << total_supply, reserve, Deposits >>
  BY <1>2 DEF FtTransferCall, Deposits
<1>9. SupplyConserved'
  <2>1. total_supply' = Holdings(accounts')
    BY <1>1, SupplyHeld, TransferredHoldings DEF FtTransferCall
  <2>2. QED
    BY <2>1 DEF SupplyConserved
<1>10. QED
  BY <1>2, <1>6, <1>7, <1>8, <1>9 DEF Inv, TypeOK, Backed, Deposits

\* The receiver's answer is added to the call.
LEMMA FtOnTransferKeepsInv ==
  ASSUME Inv, NEW slot \in Slots, NEW result \in Results, FtOnTransfer(slot, result)
  PROVE  Inv' /\ CallsSettled
<1> DEFINE call     == calls[slot]
           answered == [sender |-> call.sender, receiver |-> call.receiver,
                        amount |-> call.amount, result |-> result]
<1>1. call \in Waiting /\ calls' = [calls EXCEPT ![slot] = answered]
  BY DEF FtOnTransfer
<1>2. result \in Nat \union {Failed}
  BY WrappedNearAssumption
<1>3. answered \in Answered
  BY <1>1, <1>2 DEF Answered, Waiting
<1>4. call # Idle
  BY <1>1, IdleAssumption
<1>5. answered.sender # answered.receiver
  BY <1>4 DEF Inv, TwoParties
<1> HIDE DEF answered
<1>6. /\ calls' \in [Slots -> Waiting \union Answered \union {Idle}]
      /\ TwoParties'
      /\ \A other \in Slots \ {slot} : calls'[other] = calls[other]
  BY <1>1, <1>3, <1>5, SlotKeepsInv
<1>7. calls'[slot] # Idle
  BY <1>1, <1>3, IdleAssumption DEF Inv, TypeOK
<1>8. CallsSettled
  BY <1>6, <1>7 DEF CallsSettled
<1>9. QED
  BY <1>6, <1>8 DEF FtOnTransfer, Inv, TypeOK, Backed, SupplyConserved

\* ft_resolve_transfer moves or burns the refund, and forgets the call.
LEMMA FtResolveTransferKeepsInv ==
  ASSUME Inv, NEW slot \in Slots, FtResolveTransfer(slot)
  PROVE  Inv' /\ CallsSettled
<1> DEFINE call   == calls[slot]
           refund == RefundOf(call)
           burned == Burned(accounts, call.sender, refund)
<1>1. /\ call \in Answered
      /\ accounts' = AfterRefund(accounts, call.sender, call.receiver, refund)
      /\ total_supply' = total_supply - burned
      /\ calls' = [calls EXCEPT ![slot] = Idle]
      /\ UNCHANGED reserve
      /\ RefundFits(accounts, total_supply, call.sender, refund)
  BY DEF FtResolveTransfer, Resolves
<1>2. /\ call.sender \in Holders
      /\ call.receiver \in Holders
      /\ call.amount \in Nat
      /\ call.result \in Nat \union {Failed}
  BY <1>1 DEF Answered
<1>3. call.sender # call.receiver
  BY <1>1, IdleAssumption DEF Inv, TwoParties
<1>4. IsAccounts(accounts, Holders) /\ total_supply \in Nat /\ reserve \in Nat
  BY DEF Inv, TypeOK
<1>5. /\ refund \in 0 .. call.amount
      /\ refund <= BalanceOf(accounts, call.receiver)
      /\ call.result = Failed /\ BalanceOf(accounts, call.receiver) >= call.amount
           => refund = call.amount
  BY <1>2, <1>4, RefundBounds DEF RefundOf
<1>6. \A a : BalanceOf(accounts, a) \in Nat
  BY <1>4, AccountsType DEF BalanceOf
<1>7. refund \in Nat
  BY <1>2, <1>5
<1>8. burned \in Nat /\ burned <= total_supply
  BY <1>1, <1>4, <1>7 DEF RefundFits, Burned
<1> HIDE DEF refund, burned, call
<1>9. Moved(accounts, accounts', call.sender, call.receiver, refund)
  <2>1. accounts' = AfterRefund(accounts, call.sender, call.receiver, refund)
    BY <1>1
  <2>2. refund <= BalanceOf(accounts, call.receiver)
    BY <1>5
  <2>3. QED
    BY <1>3, <1>4, <1>7, <2>1, <2>2, RefundMoves
<1>10. /\ calls' \in [Slots -> Waiting \union Answered \union {Idle}]
       /\ TwoParties'
       /\ \A other \in Slots \ {slot} : calls'[other] = calls[other]
  BY <1>1, SlotKeepsInv DEF call
<1>11. total_supply - total_supply' = IF call.sender \in DOMAIN accounts THEN 0 ELSE refund
  BY <1>1, <1>4, <1>7, <1>8 DEF Burned, burned
<1>12. SettledFairly(slot)
  <2> DEFINE taken == BalanceOf(accounts, call.receiver) - BalanceOf(accounts', call.receiver)
  <2>1. taken = refund
    BY <1>6, <1>7, <1>9 DEF Moved
  <2>2. BalanceOf(accounts', call.sender) - BalanceOf(accounts, call.sender)
          = IF call.sender \in DOMAIN accounts THEN refund ELSE 0
    BY <1>6, <1>7, <1>9 DEF Moved
  <2>3. QED
    BY <1>5, <1>9, <1>11, <2>1, <2>2 DEF SettledFairly, Moved, call
<1>13. CallsSettled
  BY <1>10, <1>12 DEF CallsSettled
<1>14. total_supply' \in Nat /\ total_supply' <= total_supply
  BY <1>1, <1>4, <1>8
<1>15. Deposits \in Nat /\ Deposits' = Deposits
  BY <1>9, DepositsType DEF Deposits, Moved
<1>16. reserve >= total_supply + Deposits
  BY DEF Inv, Backed, Deposits
<1>17. reserve' >= total_supply' + Deposits'
  BY <1>1, <1>4, <1>14, <1>15, <1>16
<1>18. SupplyConserved'
  <2>1. accounts' = AfterRefund(accounts, call.sender, call.receiver, refund)
    BY <1>1
  <2>2. refund <= BalanceOf(accounts, call.receiver)
    BY <1>5
  <2>3. Holdings(accounts') = Holdings(accounts) - Burned(accounts, call.sender, refund)
    BY <1>3, <1>4, <1>7, <2>1, <2>2, RefundedHoldings
  <2>4. total_supply' = Holdings(accounts')
    BY <1>1, <2>3, SupplyHeld DEF burned
  <2>5. QED
    BY <2>4 DEF SupplyConserved
<1>19. QED
  BY <1>1, <1>4, <1>9, <1>10, <1>13, <1>14, <1>17, <1>18
     DEF Moved, Inv, TypeOK, Backed, Deposits

\* storage_deposit registers one more account, with its deposit.
LEMMA StorageDepositKeepsInv ==
  ASSUME Inv, NEW account \in Holders, StorageDeposit(account)
  PROVE  Inv' /\ CallsSettled
<1> DEFINE registered == DOMAIN accounts
           n == Cardinality(registered)
<1>1. /\ accounts \in [registered -> Nat]
      /\ registered \in SUBSET Holders
      /\ IsFiniteSet(registered)
      /\ n \in Nat
  BY AccountsType DEF Inv, TypeOK
<1>2. account \notin registered
  BY DEF StorageDeposit, CanRegister
<1>3. accounts' = [a \in registered \union {account} |-> IF a = account THEN 0 ELSE accounts[a]]
  BY DEF StorageDeposit, Registered
<1>4. accounts' \in [registered \union {account} -> Nat]
  BY <1>1, <1>3
<1>5. registered \union {account} \in SUBSET Holders
  BY <1>1
<1>6. IsAccounts(accounts', Holders) /\ DOMAIN accounts' = registered \union {account}
  BY <1>4, <1>5, AccountsByDomain
<1>7. Cardinality(DOMAIN accounts') = n + 1
  BY <1>1, <1>2, <1>6, FS_AddElement
<1>8. /\ total_supply \in Nat
      /\ reserve \in Nat
      /\ reserve >= total_supply + StorageMinimum * n
      /\ StorageMinimum \in Nat
      /\ reserve' = reserve + StorageMinimum
      /\ total_supply' = total_supply
      /\ UNCHANGED calls
  BY WrappedNearAssumption DEF Inv, TypeOK, Backed, StorageDeposit
<1> HIDE DEF n
<1>9. StorageMinimum * (n + 1) = StorageMinimum * n + StorageMinimum
  BY <1>1, <1>8
<1>10. StorageMinimum * n \in Nat
  BY <1>1, <1>8
<1>11. reserve' \in Nat /\ reserve' >= total_supply' + StorageMinimum * (n + 1)
  BY <1>8, <1>9, <1>10
<1>12. SupplyConserved'
  <2>1. total_supply' = Holdings(accounts')
    BY <1>2, <1>8, SupplyHeld, RegisteredHoldings DEF StorageDeposit
  <2>2. QED
    BY <2>1 DEF SupplyConserved
<1>13. QED
  BY <1>6, <1>7, <1>8, <1>11, <1>12 DEF Inv, TypeOK, Backed, TwoParties, CallsSettled

\* storage_withdraw pays one deposit back; the NEAR for it is there.
LEMMA StorageWithdrawKeepsInv ==
  ASSUME Inv, NEW account \in Holders, StorageWithdraw(account)
  PROVE  Inv' /\ CallsSettled
<1> DEFINE registered == DOMAIN accounts
           n == Cardinality(registered \ {account})
<1>1. /\ accounts \in [registered -> Nat]
      /\ registered \in SUBSET Holders
      /\ IsFiniteSet(registered)
      /\ Cardinality(registered) \in Nat
  BY AccountsType DEF Inv, TypeOK
<1>2. account \in registered
  BY DEF StorageWithdraw, CanUnregister
<1>3. accounts' = [a \in registered \ {account} |-> accounts[a]]
  BY DEF StorageWithdraw, Unregistered
<1>4. accounts' \in [registered \ {account} -> Nat]
  BY <1>1, <1>3
<1>5. registered \ {account} \in SUBSET Holders
  BY <1>1
<1>6. IsAccounts(accounts', Holders) /\ DOMAIN accounts' = registered \ {account}
  BY <1>4, <1>5, AccountsByDomain
<1>7. IsFiniteSet(registered \ {account}) /\ n = Cardinality(registered) - 1
  BY <1>1, <1>2, FS_RemoveElement
<1>8. n \in Nat
  BY <1>7, FS_CardinalityType
<1>9. /\ total_supply \in Nat
      /\ reserve \in Nat
      /\ reserve >= total_supply + StorageMinimum * Cardinality(registered)
      /\ StorageMinimum \in Nat
      /\ reserve' = reserve - StorageMinimum
      /\ total_supply' = total_supply
      /\ UNCHANGED calls
  BY WrappedNearAssumption DEF Inv, TypeOK, Backed, StorageWithdraw
<1>10. Cardinality(registered) = n + 1
  BY <1>1, <1>7, <1>8
<1> HIDE DEF n
<1>11. StorageMinimum * (n + 1) = StorageMinimum * n + StorageMinimum
  BY <1>8, <1>9
<1>12. StorageMinimum * n \in Nat
  BY <1>8, <1>9
<1>13. reserve' \in Nat /\ reserve' >= total_supply' + StorageMinimum * n
  BY <1>9, <1>10, <1>11, <1>12
<1>14. Cardinality(DOMAIN accounts') = n
  BY <1>6 DEF n
<1>15. SupplyConserved'
  <2>1. accounts[account] = 0 /\ accounts' = Unregistered(accounts, account)
    BY DEF StorageWithdraw, CanUnregister
  <2>2. total_supply' = Holdings(accounts')
    BY <1>2, <1>9, <2>1, SupplyHeld, UnregisteredHoldings
  <2>3. QED
    BY <2>2 DEF SupplyConserved
<1>16. QED
  BY <1>6, <1>9, <1>13, <1>14, <1>15 DEF Inv, TypeOK, Backed, TwoParties, CallsSettled

---------------------------------------------------------------------------
(***************************************************************************)
(* Theorems                                                                *)
(***************************************************************************)

\* A token just deployed has no account and owes nothing.
LEMMA InitInv ==
  ASSUME Init
  PROVE  Inv
<1>1. accounts \in [{} -> Nat] /\ DOMAIN accounts = {}
  BY DEF Init
<1>2. IsAccounts(accounts, Holders) /\ Cardinality(DOMAIN accounts) = 0
  BY <1>1, AccountsByDomain, FS_EmptySet
<1>3. StorageMinimum * 0 = 0
  BY WrappedNearAssumption
<1>4. calls \in [Slots -> {Idle}]
  BY DEF Init
<1>5. calls \in [Slots -> Waiting \union Answered \union {Idle}] /\ TwoParties
  BY <1>4 DEF TwoParties
<1>6. total_supply = 0 /\ reserve = 0
  BY DEF Init
<1>7. SupplyConserved
  BY <1>1, <1>6, TotalEmpty, HoldingsTotal DEF SupplyConserved
<1>8. QED
  BY <1>2, <1>3, <1>5, <1>6, <1>7 DEF Inv, TypeOK, Backed

\* Every call keeps the invariant, and settles what it settles fairly.
LEMMA NextInv ==
  ASSUME Inv, [Next]_vars
  PROVE  Inv' /\ [CallsSettled]_vars
<1>1. CASE UNCHANGED vars
  BY <1>1 DEF vars, Inv, TypeOK, Backed, TwoParties, SupplyConserved
<1>2. CASE \E account \in Holders :
             \/ StorageDeposit(account)
             \/ StorageWithdraw(account)
             \/ \E amount \in Amounts :
                  NearDeposit(account, amount) \/ NearWithdraw(account, amount)
  BY <1>2, StorageDepositKeepsInv, StorageWithdrawKeepsInv, NearDepositKeepsInv,
     NearWithdrawKeepsInv
<1>3. CASE \E sender, receiver \in Holders, amount \in Amounts :
             \/ FtTransfer(sender, receiver, amount)
             \/ \E slot \in Slots : FtTransferCall(slot, sender, receiver, amount)
  BY <1>3, FtTransferKeepsInv, FtTransferCallKeepsInv
<1>4. CASE \E slot \in Slots :
             \/ \E result \in Results : FtOnTransfer(slot, result)
             \/ FtResolveTransfer(slot)
  BY <1>4, FtOnTransferKeepsInv, FtResolveTransferKeepsInv
<1>5. QED
  BY <1>1, <1>2, <1>3, <1>4 DEF Next

(***************************************************************************)
(* The inductive invariant holds in every behaviour.                       *)
(***************************************************************************)
THEOREM Invariance == Spec => []Inv
<1>1. Init => Inv
  BY InitInv
<1>2. Inv /\ [Next]_vars => Inv'
  BY NextInv
<1>3. QED
  BY <1>1, <1>2, PTL DEF Spec

(***************************************************************************)
(* Every variable keeps its type; no balance, and not the supply or the    *)
(* NEAR held for it, ever goes below 0.                                    *)
(***************************************************************************)
THEOREM TypeCorrect == Spec => []TypeOK
<1>1. Inv => TypeOK
  BY DEF Inv
<1>2. QED
  BY <1>1, Invariance, PTL

(***************************************************************************)
(* However wrapping, transfers, refunds, burns and registrations           *)
(* interleave, the supply is what the accounts hold together.              *)
(***************************************************************************)
THEOREM SupplyAlwaysConserved == Spec => []SupplyConserved
<1>1. Inv => SupplyConserved
  BY DEF Inv
<1>2. QED
  BY <1>1, Invariance, PTL

(***************************************************************************)
(* The contract always holds the NEAR of every token in the supply and of  *)
(* every registered account.                                               *)
(***************************************************************************)
THEOREM AlwaysBacked == Spec => []Backed
<1>1. Inv => Backed
  BY DEF Inv
<1>2. QED
  BY <1>1, Invariance, PTL

(***************************************************************************)
(* ft_resolve_transfer takes from the receiver no more than was sent, and  *)
(* gives all of it to the sender, or burns it, whatever ran in between.    *)
(***************************************************************************)
THEOREM RefundsAreFair == Spec => RefundsFair
<1>1. Inv /\ [Next]_vars => [CallsSettled]_vars
  BY NextInv
<1>2. QED
  BY <1>1, Invariance, PTL DEF Spec, RefundsFair, CallsSettled
=================================================================================
