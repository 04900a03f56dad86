---------------------------- MODULE OracleTokensProofs ----------------------------
(***************************************************************************)
(* The oracle behind its token contracts, for any tokens, holders and      *)
(* number of calls and payouts under way: it implements the oracle that    *)
(* takes and pays tokens in one step, so that all that is proved of that   *)
(* one holds whatever receipts are under way; its types; and that what the *)
(* oracle holds covers what is owed and under way, so refunds are whole.   *)
(***************************************************************************)
EXTENDS OracleTokens, OracleProofs

\* A call carries an amount that somebody sends.
AmountsSent == \A slot \in Slots : calls[slot] # Idle => calls[slot].amount \in StakeAmounts

CallsOK == calls \in [Slots -> Call \union {Idle}] /\ AmountsSent

AccountsOK ==
  /\ DOMAIN accounts = Tokens
  /\ \A t \in Tokens : Token!IsAccounts(accounts[t], Holders)

PayoutsOK == \A chain \in BagToSet(payouts) : chain \in Seq(Payout) /\ chain # << >>

TokensInv == Inv /\ CallsOK /\ AccountsOK /\ PayoutsOK

---------------------------------------------------------------------------
(***************************************************************************)
(* Accounts                                                                *)
(***************************************************************************)

\* A map of accounts, by its domain.
LEMMA AccountsByDomain ==
  ASSUME NEW acc, NEW S \in SUBSET Holders, acc \in [S -> Nat]
  PROVE  Token!IsAccounts(acc, Holders)
BY DEF Token!IsAccounts

\* A map of accounts gives each a balance.
LEMMA AccountsType ==
  ASSUME NEW acc, Token!IsAccounts(acc, Holders)
  PROVE  acc \in [DOMAIN acc -> Nat] /\ DOMAIN acc \in SUBSET Holders
BY DEF Token!IsAccounts

\* A transfer that the token accepts leaves a map of accounts.
LEMMA TransferredType ==
  ASSUME NEW acc, Token!IsAccounts(acc, Holders), NEW s, NEW r, NEW n \in Nat,
         Token!CanTransfer(acc, s, r, n)
  PROVE  Token!IsAccounts(Token!Transferred(acc, s, r, n), Holders)
<1> DEFINE paid == Token!Withdrawn(acc, s, n)
<1>1. /\ acc \in [DOMAIN acc -> Nat]
      /\ DOMAIN acc \in SUBSET Holders
  BY AccountsType
<1>2. s \in DOMAIN acc /\ n <= acc[s] /\ r \in DOMAIN acc
  BY DEF Token!CanTransfer, Token!CanWithdraw, Token!CanDeposit
<1>3. acc[s] - n \in Nat
  BY <1>1, <1>2
<1>4. paid \in [DOMAIN acc -> Nat]
  BY <1>1, <1>2, <1>3 DEF Token!Withdrawn
<1> HIDE DEF paid
<1>5. paid[r] + n \in Nat
  BY <1>2, <1>4
<1>6. Token!Deposited(paid, r, n) \in [DOMAIN acc -> Nat]
  BY <1>4, <1>5 DEF Token!Deposited
<1>7. QED
  BY <1>1, <1>6, AccountsByDomain DEF Token!Transferred, paid

\* What the receiver gives back is an amount it has.
LEMMA RefundBounds ==
  ASSUME NEW acc, Token!IsAccounts(acc, Holders), NEW r, NEW n \in Nat,
         NEW result \in Nat \union {Failed}
  PROVE  /\ Token!Refund(acc, r, n, result) \in Nat
         /\ Token!Refund(acc, r, n, result) <= Token!BalanceOf(acc, r)
<1> DEFINE balance_of == Token!BalanceOf(acc, r)
           unused     == Token!Unused(n, result)
<1>1. balance_of \in Nat
  BY AccountsType DEF Token!BalanceOf
<1>2. unused \in Nat
  BY DEF Token!Unused, Token!Smaller
<1> HIDE DEF balance_of, unused
<1>3. Token!Smaller(balance_of, unused) \in Nat /\ Token!Smaller(balance_of, unused) <= balance_of
  BY <1>1, <1>2 DEF Token!Smaller
<1>4. QED
  BY <1>3 DEF Token!Refund, balance_of, unused

\* A refund of it leaves a map of accounts.
LEMMA RefundedType ==
  ASSUME NEW acc, Token!IsAccounts(acc, Holders), NEW s, NEW r, s # r, NEW refund \in Nat,
         refund <= Token!BalanceOf(acc, r)
  PROVE  Token!IsAccounts(Token!AfterRefund(acc, s, r, refund), Holders)
<1> DEFINE after == Token!AfterRefund(acc, s, r, refund)
<1>1. /\ acc \in [DOMAIN acc -> Nat]
      /\ DOMAIN acc \in SUBSET Holders
  BY AccountsType
<1>2. CASE refund = 0
  BY <1>2 DEF Token!AfterRefund
<1>3. CASE refund # 0
  <2>1. r \in DOMAIN acc /\ refund <= acc[r]
    BY <1>3 DEF Token!BalanceOf
  <2>2. acc[r] - refund \in Nat
    BY <1>1, <2>1
  <2>3. CASE s \in DOMAIN acc
    <3>1. after = [acc EXCEPT ![r] = acc[r] - refund, ![s] = acc[s] + refund]
      BY <1>3, <2>3 DEF Token!AfterRefund
    <3>2. acc[s] + refund \in Nat
      BY <1>1, <2>3
    <3> HIDE DEF after
    <3>3. after \in [DOMAIN acc -> Nat]
      BY <1>1, <2>2, <3>1, <3>2
    <3>4. Token!IsAccounts(after, Holders)
      BY <1>1, <3>3, AccountsByDomain
    <3>5. QED
      BY <3>4 DEF after
  <2>4. CASE s \notin DOMAIN acc
    <3>1. after = [acc EXCEPT ![r] = @ - refund]
      BY <1>3, <2>4 DEF Token!AfterRefund, Token!Withdrawn
    <3> HIDE DEF after
    <3>2. after \in [DOMAIN acc -> Nat]
      BY <1>1, <2>2, <3>1
    <3>3. Token!IsAccounts(after, Holders)
      BY <1>1, <3>2, AccountsByDomain
    <3>4. QED
      BY <3>3 DEF after
  <2>5. QED
    BY <2>3, <2>4
<1>4. QED
  BY <1>2, <1>3

\* Registering and leaving give maps of accounts.
LEMMA RegisteredType ==
  ASSUME NEW acc, Token!IsAccounts(acc, Holders), NEW a \in Holders
  PROVE  /\ Token!IsAccounts(Token!Registered(acc, a), Holders)
         /\ Token!IsAccounts(Token!Unregistered(acc, a), Holders)
<1>1. /\ acc \in [DOMAIN acc -> Nat]
      /\ DOMAIN acc \in SUBSET Holders
  BY AccountsType
<1>2. /\ DOMAIN acc \union {a} \in SUBSET Holders
      /\ DOMAIN acc \ {a} \in SUBSET Holders
  BY <1>1
<1>3. Token!Registered(acc, a) \in [DOMAIN acc \union {a} -> Nat]
  BY <1>1 DEF Token!Registered
<1>4. Token!Unregistered(acc, a) \in [DOMAIN acc \ {a} -> Nat]
  BY <1>1 DEF Token!Unregistered
<1>5. QED
  BY <1>2, <1>3, <1>4, AccountsByDomain

\* One token's accounts change.
LEMMA AccountsReplaced ==
  ASSUME AccountsOK, NEW token \in Tokens, NEW acc, Token!IsAccounts(acc, Holders),
         accounts' = [accounts EXCEPT ![token] = acc]
  PROVE  AccountsOK'
<1>1. /\ DOMAIN accounts' = Tokens
      /\ \A t \in Tokens : accounts'[t] = IF t = token THEN acc ELSE accounts[t]
  BY DEF AccountsOK
<1>2. QED
  BY <1>1 DEF AccountsOK

---------------------------------------------------------------------------
(***************************************************************************)
(* Calls and payouts                                                       *)
(***************************************************************************)

\* A call under way.
LEMMA CallFields ==
  ASSUME TokensInv, NEW slot \in Slots, calls[slot] # Idle
  PROVE  /\ calls[slot] \in Call
         /\ calls[slot].token \in Tokens
         /\ calls[slot].sender \in Stakers
         /\ calls[slot].amount \in Nat
         /\ calls[slot].amount \in StakeAmounts
         /\ calls[slot].result \in Nat \union {Failed, Idle}
<1>1. calls[slot] \in Call
  BY DEF TokensInv, CallsOK
<1>2. calls[slot].amount \in StakeAmounts
  BY DEF TokensInv, CallsOK, AmountsSent
<1>3. QED
  BY <1>1, <1>2 DEF Call

\* One slot changes.
LEMMA CallsReplaced ==
  ASSUME CallsOK, NEW slot \in Slots, NEW call \in Call \union {Idle},
         call # Idle => call.amount \in StakeAmounts,
         calls' = [calls EXCEPT ![slot] = call]
  PROVE  CallsOK'
<1> DEFINE C == Call \union {Idle}
<1>1. calls \in [Slots -> C] /\ call \in C
  BY DEF CallsOK
<1> HIDE DEF C
<1>2. /\ calls' \in [Slots -> C]
      /\ \A other \in Slots : calls'[other] = IF other = slot THEN call ELSE calls[other]
  BY <1>1
<1>3. AmountsSent'
  BY <1>2 DEF CallsOK, AmountsSent
<1>4. QED
  BY <1>2, <1>3 DEF CallsOK, C

\* The oracle's answer is added to a call.
LEMMA AnswerKeepsCalls ==
  ASSUME TokensInv, NEW slot \in Slots, Waits(slot), NEW result \in Nat \union {Failed},
         Answer(slot, result)
  PROVE  CallsOK'
<1> DEFINE call == [calls[slot] EXCEPT !.result = result]
<1>1. calls[slot] \in Call /\ calls[slot].amount \in StakeAmounts
  BY CallFields DEF Waits
<1>2. call \in Call /\ call.amount = calls[slot].amount
  BY <1>1 DEF Call
<1>3. calls' = [calls EXCEPT ![slot] = call]
  BY DEF Answer
<1> HIDE DEF call
<1>4. QED
  BY <1>1, <1>2, <1>3, CallsReplaced DEF TokensInv

\* A chain of payouts is ordered.
LEMMA OrderKeeps ==
  ASSUME TokensInv, NEW chain \in Seq(Payout), Order(chain)
  PROVE  CallsOK' /\ AccountsOK' /\ PayoutsOK'
<1>1. PayoutsOK'
  <2>1. CASE chain = << >>
    BY <2>1 DEF Order, TokensInv, PayoutsOK
  <2>2. CASE chain # << >>
    <3>1. payouts' = payouts (+) SetToBag({chain})
      BY <2>2 DEF Order
    <3>2. BagToSet(payouts') = BagToSet(payouts) \union {chain}
      BY <3>1 DEF BagToSet, SetToBag, (+)
    <3>3. QED
      BY <2>2, <3>2 DEF TokensInv, PayoutsOK
  <2>3. QED
    BY <2>1, <2>2
<1>2. QED
  BY <1>1 DEF Order, TokensInv, CallsOK, AmountsSent, AccountsOK

---------------------------------------------------------------------------
(***************************************************************************)
(* Steps                                                                   *)
(***************************************************************************)

\* What a step has to show: it is one of the oracle's, and keeps the rest in order.
Fits == [Next]_vars /\ CallsOK' /\ AccountsOK' /\ PayoutsOK'

\* ft_transfer_call moves the tokens and remembers the call.
LEMMA FtTransferCallFits ==
  ASSUME TokensInv, NEW slot \in Slots, NEW token \in Tokens, NEW sender \in Stakers,
         NEW amount \in StakeAmounts, FtTransferCall(slot, token, sender, amount)
  PROVE  Fits
<1> DEFINE call == [token |-> token, sender |-> sender, amount |-> amount, result |-> Idle]
           acc  == Token!Transferred(accounts[token], sender, OracleAccount, amount)
<1>1. amount \in Nat
  BY OracleAssumption
<1>2. call \in Call /\ call.amount = amount
  BY <1>1 DEF Call
<1>3. calls' = [calls EXCEPT ![slot] = call]
  BY DEF FtTransferCall
<1>4. Token!IsAccounts(acc, Holders)
  BY <1>1, TransferredType DEF FtTransferCall, TokensInv, AccountsOK
<1>5. accounts' = [accounts EXCEPT ![token] = acc]
  BY DEF FtTransferCall
<1> HIDE DEF call, acc
<1>6. CallsOK'
  BY <1>2, <1>3, CallsReplaced DEF TokensInv
<1>7. AccountsOK'
  BY <1>4, <1>5, AccountsReplaced DEF TokensInv
<1>8. UNCHANGED vars /\ PayoutsOK'
  BY DEF FtTransferCall, TokensInv, PayoutsOK
<1>9. QED
  BY <1>6, <1>7, <1>8 DEF Fits

\* An answer touches neither accounts nor payouts.
LEMMA AnswerFits ==
  ASSUME TokensInv, NEW slot \in Slots, Waits(slot), NEW result \in Nat \union {Failed},
         Answer(slot, result), [Next]_vars
  PROVE  Fits
<1>1. CallsOK'
  BY AnswerKeepsCalls
<1>2. AccountsOK' /\ PayoutsOK'
  BY DEF Answer, TokensInv, AccountsOK, PayoutsOK
<1>3. QED
  BY <1>1, <1>2 DEF Fits

\* A request is made with what a call carries.
LEMMA OnTransferNewFits ==
  ASSUME TokensInv, NEW slot \in Slots, NEW payload \in Payloads, OnTransferNew(slot, payload)
  PROVE  Fits
<1>1. /\ Waits(slot)
      /\ DrNew(calls[slot].token, calls[slot].sender, calls[slot].amount, payload)
      /\ Answer(slot, 0)
  BY DEF OnTransferNew
<1>2. /\ calls[slot].token \in Tokens
      /\ calls[slot].sender \in Requesters
      /\ calls[slot].amount \in Payments
  BY <1>1, CallFields, OracleTokensAssumption DEF Waits
<1>3. Next
  BY <1>1, <1>2 DEF Next
<1>4. QED
  BY <1>1, <1>3, AnswerFits

\* What a stake reports as unused is an amount.
LEMMA ReportsAmount ==
  ASSUME TokensInv, NEW slot \in Slots, NEW id \in DOMAIN data_requests, NEW outcome \in Outcomes,
         OnTransferStake(slot, id, outcome)
  PROVE  ReportsUnused(id, outcome, calls[slot].amount) \in Nat
<1> DEFINE amount == calls[slot].amount
<1>1. amount \in Nat
  BY CallFields DEF OnTransferStake, Waits
<1>2. /\ data_requests[id] \in Request
      /\ Ladder(data_requests[id])
      /\ now \in Nat
  BY RequestFacts DEF TokensInv
<1>3. ~data_requests[id].final_arbitrator_triggered
  BY DEF OnTransferStake, DrStake
<1> HIDE DEF amount
<1>4. ReportsUnused(id, outcome, amount) \in 0 .. amount
  BY <1>1, <1>2, <1>3, UnspentBounds DEF ReportsUnused
<1>5. QED
  BY <1>1, <1>4 DEF amount

\* So is a stake made with what a call carries.
LEMMA OnTransferStakeFits ==
  ASSUME TokensInv, NEW slot \in Slots, NEW id \in DOMAIN data_requests, NEW outcome \in Outcomes,
         OnTransferStake(slot, id, outcome)
  PROVE  Fits
<1> DEFINE amount == calls[slot].amount
           unused == ReportsUnused(id, outcome, amount)
<1>1. /\ Waits(slot)
      /\ DrStake(calls[slot].token, calls[slot].sender, amount, id, outcome)
      /\ Answer(slot, unused)
  BY DEF OnTransferStake
<1>2. /\ calls[slot].token \in Tokens
      /\ calls[slot].sender \in Stakers
      /\ amount \in StakeAmounts
  BY <1>1, CallFields DEF Waits
<1>3. Next
  BY <1>1, <1>2 DEF Next, RequestNext
<1>4. unused \in Nat
  BY ReportsAmount
<1> HIDE DEF unused
<1>5. QED
  BY <1>1, <1>3, <1>4, AnswerFits

\* A panic changes nothing in the oracle.
LEMMA OnTransferPanicsFits ==
  ASSUME TokensInv, NEW slot \in Slots, OnTransferPanics(slot)
  PROVE  Fits
BY AnswerFits DEF OnTransferPanics

\* ft_resolve_transfer returns what was not used, and forgets the call.
LEMMA FtResolveTransferFits ==
  ASSUME TokensInv, NEW slot \in Slots, FtResolveTransfer(slot)
  PROVE  Fits
<1> DEFINE call   == calls[slot]
           held   == accounts[call.token]
           refund == RefundOf(call)
           acc    == Token!AfterRefund(held, call.sender, OracleAccount, refund)
<1>1. call # Idle /\ call.result # Idle
  BY DEF FtResolveTransfer
<1>2. /\ call.token \in Tokens
      /\ call.sender \in Stakers
      /\ call.amount \in Nat
      /\ call.result \in Nat \union {Failed}
  BY <1>1, CallFields
<1>3. Token!IsAccounts(held, Holders)
  BY <1>2 DEF TokensInv, AccountsOK
<1>4. refund \in Nat /\ refund <= Token!BalanceOf(held, OracleAccount)
  BY <1>2, <1>3, RefundBounds DEF RefundOf
<1>5. call.sender # OracleAccount
  BY <1>2, RequestAssumption, OracleTokensAssumption
<1>6. accounts' = [accounts EXCEPT ![call.token] = acc]
  BY DEF FtResolveTransfer
<1>7. calls' = [calls EXCEPT ![slot] = Idle]
  BY DEF FtResolveTransfer
<1>8. UNCHANGED << vars, payouts >>
  BY DEF FtResolveTransfer
<1> HIDE DEF refund, held
<1>9. Token!IsAccounts(acc, Holders)
  BY <1>3, <1>4, <1>5, RefundedType
<1> HIDE DEF acc
<1>10. AccountsOK'
  BY <1>2, <1>6, <1>9, AccountsReplaced DEF TokensInv
<1>11. CallsOK'
  BY <1>7, CallsReplaced DEF TokensInv
<1>12. QED
  BY <1>8, <1>10, <1>11 DEF Fits, TokensInv, PayoutsOK

\* The first payout of a chain runs, or fails; the rest of the chain waits.
LEMMA FtTransferFits ==
  ASSUME TokensInv, NEW chain \in BagToSet(payouts), FtTransfer(chain)
  PROVE  Fits
<1> DEFINE transfer == Head(chain)
           held     == accounts[transfer.token]
           acc      == Token!Transferred(held, OracleAccount, transfer.receiver, transfer.amount)
           rest     == IF Tail(chain) = << >> THEN EmptyBag ELSE SetToBag({Tail(chain)})
<1>1. chain \in Seq(Payout) /\ chain # << >>
  BY DEF TokensInv, PayoutsOK
<1>2. transfer \in Payout /\ Tail(chain) \in Seq(Payout)
  BY <1>1
<1>3. transfer.token \in Tokens /\ transfer.amount \in Nat
  BY <1>2 DEF Payout
<1>4. Token!IsAccounts(held, Holders)
  BY <1>3 DEF TokensInv, AccountsOK
<1>5. UNCHANGED << vars, calls >>
  BY DEF FtTransfer
<1>6. AccountsOK'
  <2>1. CASE Token!CanTransfer(held, OracleAccount, transfer.receiver, transfer.amount)
    <3>1. accounts' = [accounts EXCEPT ![transfer.token] = acc]
      BY <2>1 DEF FtTransfer
    <3>2. Token!IsAccounts(acc, Holders)
      BY <1>3, <1>4, <2>1, TransferredType
    <3> HIDE DEF acc, transfer
    <3>3. QED
      BY <1>3, <3>1, <3>2, AccountsReplaced DEF TokensInv
  <2>2. CASE ~Token!CanTransfer(held, OracleAccount, transfer.receiver, transfer.amount)
    <3>1. accounts' = accounts
      BY <2>2 DEF FtTransfer
    <3>2. QED
      BY <3>1 DEF TokensInv, AccountsOK
  <2>3. QED
    BY <2>1, <2>2
<1>7. PayoutsOK'
  <2>1. payouts' = (payouts (-) SetToBag({chain})) (+) rest
    BY DEF FtTransfer
  <2>2. BagToSet(payouts (-) SetToBag({chain})) \subseteq BagToSet(payouts)
    BY DEF BagToSet, (-)
  <2>3. BagToSet(rest) \subseteq IF Tail(chain) = << >> THEN {} ELSE {Tail(chain)}
    BY DEF BagToSet, SetToBag, EmptyBag
  <2> HIDE DEF rest
  <2>4. BagToSet(payouts')
          = BagToSet(payouts (-) SetToBag({chain})) \union BagToSet(rest)
    BY <2>1 DEF BagToSet, (+)
  <2>5. QED
    BY <1>2, <2>2, <2>3, <2>4 DEF TokensInv, PayoutsOK
<1>8. QED
  BY <1>5, <1>6, <1>7 DEF Fits, TokensInv, CallsOK, AmountsSent

\* Registering and leaving touch one token's accounts only.
LEMMA RegisterFits ==
  ASSUME TokensInv, NEW token \in Tokens, NEW user \in Stakers,
         Register(token, user) \/ Unregister(token, user)
  PROVE  Fits
<1> DEFINE joined == Token!Registered(accounts[token], user)
           left   == Token!Unregistered(accounts[token], user)
<1>1. Token!IsAccounts(joined, Holders) /\ Token!IsAccounts(left, Holders)
  BY RegisteredType DEF TokensInv, AccountsOK, Holders
<1>2. \/ accounts' = [accounts EXCEPT ![token] = joined]
      \/ accounts' = [accounts EXCEPT ![token] = left]
  BY DEF Register, Unregister
<1> HIDE DEF joined, left
<1>3. AccountsOK'
  BY <1>1, <1>2, AccountsReplaced DEF TokensInv
<1>4. UNCHANGED << vars, calls, payouts >>
  BY DEF Register, Unregister
<1>5. QED
  BY <1>3, <1>4 DEF Fits, TokensInv, CallsOK, AmountsSent, PayoutsOK

---------------------------------------------------------------------------
(***************************************************************************)
(* The oracle's handlers, with the payouts they order                      *)
(***************************************************************************)

\* A handler that orders payouts.
LEMMA OrderFits ==
  ASSUME TokensInv, NEW chain \in Seq(Payout), Order(chain), [Next]_vars
  PROVE  Fits
<1>1. CallsOK' /\ AccountsOK' /\ PayoutsOK'
  BY OrderKeeps
<1>2. QED
  BY <1>1 DEF Fits

\* A transfer is a payout, and a chain of one of them a chain of payouts.
LEMMA TransferType ==
  ASSUME NEW token \in Tokens, NEW receiver \in Accounts, NEW amount \in Nat
  PROVE  /\ << Transfer(token, receiver, amount) >> \in Seq(Payout)
         /\ IfAny(Transfer(token, receiver, amount)) \in Seq(Payout)
<1> DEFINE transfer == Transfer(token, receiver, amount)
<1>1. transfer \in Payout
  BY DEF Transfer, Payout
<1> HIDE DEF transfer
<1>2. << transfer >> \in Seq(Payout) /\ << >> \in Seq(Payout)
  BY <1>1
<1>3. IfAny(transfer) \in Seq(Payout)
  BY <1>2 DEF IfAny
<1>4. QED
  BY <1>2, <1>3 DEF transfer

\* Whom the oracle pays for a request, and in which tokens.
LEMMA PayeeFacts ==
  ASSUME TokensInv, NEW id \in DOMAIN data_requests
  PROVE  /\ data_requests[id].requester \in Accounts
         /\ data_requests[id].request_config.validity_bond \in Nat
         /\ ConfigOf(data_requests[id]).stake_token \in Tokens
         /\ ConfigOf(data_requests[id]).payment_token \in Tokens
<1>1. data_requests[id] \in Request
  BY RequestFacts DEF TokensInv
<1>2. QED
  BY <1>1, RequestFacts DEF TokensInv, Request

\* The bond of a request goes back to its requester.
LEMMA BondTransfersType ==
  ASSUME TokensInv, NEW id \in DOMAIN data_requests, NEW outcome
  PROVE  BondTransfers(data_requests[id], outcome) \in Seq(Payout)
<1>1. << >> \in Seq(Payout)
  OBVIOUS
<1>2. QED
  BY <1>1, PayeeFacts, TransferType DEF BondTransfers

\* An unstake orders one payout.
LEMMA OrderUnstakeFits ==
  ASSUME TokensInv, NEW id \in DOMAIN data_requests, NEW sender \in Stakers,
         NEW round \in DOMAIN data_requests[id].resolution_windows,
         NEW outcome \in Outcomes, NEW amount \in StakeAmounts,
         OrderUnstake(sender, id, round, outcome, amount)
  PROVE  Fits
<1> DEFINE chain == << Transfer(ConfigOf(data_requests[id]).stake_token, sender, amount) >>
<1>1. amount \in Nat /\ sender \in Accounts
  BY OracleAssumption, RequestAssumption
<1>2. chain \in Seq(Payout)
  BY <1>1, PayeeFacts, TransferType
<1>3. DrUnstake(sender, id, round, outcome, amount, TRUE) /\ Order(chain)
  BY DEF OrderUnstake
<1>4. Next
  BY <1>3, OracleTokensAssumption DEF Next, RequestNext
<1> HIDE DEF chain
<1>5. QED
  BY <1>2, <1>3, <1>4, OrderFits

\* A verdict by the ladder orders the bond.
LEMMA OrderFinalizeFits ==
  ASSUME TokensInv, NEW id \in DOMAIN data_requests, OrderFinalize(id)
  PROVE  Fits
<1> DEFINE chain == BondTransfers(data_requests[id], FinalOutcome(data_requests[id]))
<1>1. chain \in Seq(Payout)
  BY BondTransfersType
<1>2. DrFinalize(id, TRUE) /\ Order(chain)
  BY DEF OrderFinalize
<1>3. Next
  BY <1>2, OracleTokensAssumption DEF Next, RequestNext
<1> HIDE DEF chain
<1>4. QED
  BY <1>1, <1>2, <1>3, OrderFits

\* So does the arbitrator's.
LEMMA OrderArbitratorFinalizeFits ==
  ASSUME TokensInv, NEW id \in DOMAIN data_requests, NEW caller \in Accounts,
         NEW outcome \in Outcomes, OrderArbitratorFinalize(caller, id, outcome)
  PROVE  Fits
<1> DEFINE chain == BondTransfers(data_requests[id], outcome)
<1>1. chain \in Seq(Payout)
  BY BondTransfersType
<1>2. DrFinalArbitratorFinalize(caller, id, outcome, TRUE) /\ Order(chain)
  BY DEF OrderArbitratorFinalize
<1>3. Next
  BY <1>2, OracleTokensAssumption DEF Next, RequestNext
<1> HIDE DEF chain
<1>4. QED
  BY <1>1, <1>2, <1>3, OrderFits

\* A claim orders the stake and then the fee, each if there is any.
LEMMA OrderClaimFits ==
  ASSUME TokensInv, NEW id \in DOMAIN data_requests, NEW account \in Stakers,
         OrderClaim(account, id)
  PROVE  Fits
<1> DEFINE dr      == data_requests[id]
           stake   == StakePayout(dr, account)
           payment == PaymentPayout(dr, account)
           first   == IfAny(Transfer(ConfigOf(dr).stake_token, account, stake))
           second  == IfAny(Transfer(ConfigOf(dr).payment_token, account, payment))
<1>1. DrClaim(account, id, TRUE, TRUE) /\ Order(ClaimTransfers(dr, account))
  BY DEF OrderClaim
<1>2. stake \in Nat /\ payment \in Nat
  <2>1. stake \in 0 .. MaxBalance /\ payment \in 0 .. MaxBalance
    BY <1>1 DEF DrClaim
  <2>2. QED
    BY <2>1, WindowAssumption
<1>3. account \in Accounts
  BY RequestAssumption
<1>4. Next
  BY <1>1, OracleTokensAssumption DEF Next, RequestNext
<1>5. ClaimTransfers(dr, account) = first \o second
  BY DEF ClaimTransfers
<1> HIDE DEF stake, payment
<1>6. first \in Seq(Payout) /\ second \in Seq(Payout)
  BY <1>2, <1>3, PayeeFacts, TransferType
<1> HIDE DEF first, second
<1>7. ClaimTransfers(dr, account) \in Seq(Payout)
  BY <1>5, <1>6
<1>8. QED
  BY <1>1, <1>4, <1>7, OrderFits

---------------------------------------------------------------------------
(***************************************************************************)
(* The invariant                                                           *)
(***************************************************************************)

\* Each step fits.
LEMMA TokensStepFits ==
  ASSUME TokensInv, TokensNext
  PROVE  Fits
<1>1. CASE CallsNext
  BY <1>1, FtTransferCallFits, OnTransferNewFits, OnTransferStakeFits, OnTransferPanicsFits,
     FtResolveTransferFits DEF CallsNext
<1>2. CASE HandlersNext
  <2>1. << >> \in Seq(Payout)
    OBVIOUS
  <2>2. ASSUME NEW id \in DOMAIN data_requests, NEW caller \in Accounts, NEW outcome \in Outcomes,
               DrFinalizeByProvider(caller, id, outcome), Order(<< >>)
        PROVE  Fits
    <3>1. Next
      BY <2>2 DEF Next, RequestNext
    <3>2. QED
      BY <2>1, <2>2, <3>1, OrderFits
  <2>3. CASE Tick /\ Order(<< >>)
    <3>1. Next
      BY <2>3 DEF Next
    <3>2. QED
      BY <2>1, <2>3, <3>1, OrderFits
  <2>4. QED
    BY <1>2, <2>2, <2>3, OrderUnstakeFits, OrderFinalizeFits, OrderArbitratorFinalizeFits,
       OrderClaimFits DEF HandlersNext
<1>3. CASE \E chain \in BagToSet(payouts) : FtTransfer(chain)
  BY <1>3, FtTransferFits
<1>4. CASE \E token \in Tokens, user \in Stakers : Register(token, user) \/ Unregister(token, user)
  BY <1>4, RegisterFits
<1>5. QED
  BY <1>1, <1>2, <1>3, <1>4 DEF TokensNext

LEMMA TokensStep ==
  ASSUME TokensInv, [TokensNext]_allVars
  PROVE  TokensInv' /\ [Next]_vars
<1>1. CASE TokensNext
  <2>1. [Next]_vars /\ CallsOK' /\ AccountsOK' /\ PayoutsOK'
    BY <1>1, TokensStepFits DEF Fits
  <2>2. Inv'
    BY <2>1, NextInv DEF TokensInv
  <2>3. QED
    BY <2>1, <2>2 DEF TokensInv
<1>2. CASE UNCHANGED allVars
  <2>1. UNCHANGED vars /\ UNCHANGED tokenVars
    BY <1>2 DEF allVars
  <2>2. Inv'
    BY <2>1, NextInv DEF TokensInv
  <2>3. CallsOK' /\ AccountsOK' /\ PayoutsOK'
    BY <2>1 DEF tokenVars, TokensInv, CallsOK, AmountsSent, AccountsOK, PayoutsOK
  <2>4. QED
    BY <2>1, <2>2, <2>3 DEF TokensInv
<1>3. QED
  BY <1>1, <1>2

\* No call and no payout is under way at first.
LEMMA TokensStart ==
  ASSUME Init, TokensInit
  PROVE  TokensInv
<1>1. Inv
  BY InitInv
<1>2. CallsOK
  BY DEF TokensInit, CallsOK, AmountsSent
<1>3. PayoutsOK
  BY DEF TokensInit, PayoutsOK, EmptyBag, SetToBag, BagToSet
<1>4. AccountsOK
  <2>1. PICK held \in InitialBalances :
          accounts = [t \in Tokens |->
                       [a \in Holders |-> IF a = OracleAccount THEN 0 ELSE held[a]]]
    BY DEF TokensInit
  <2> DEFINE acc == [a \in Holders |-> IF a = OracleAccount THEN 0 ELSE held[a]]
  <2>2. \A a \in Holders : (IF a = OracleAccount THEN 0 ELSE held[a]) \in Nat
    BY OracleTokensAssumption DEF Holders
  <2>3. acc \in [Holders -> Nat]
    BY <2>2
  <2> HIDE DEF acc
  <2>4. Token!IsAccounts(acc, Holders)
    BY <2>3, AccountsByDomain
  <2>5. DOMAIN accounts = Tokens /\ \A t \in Tokens : accounts[t] = acc
    BY <2>1 DEF acc
  <2>6. QED
    BY <2>4, <2>5 DEF AccountsOK
<1>5. QED
  BY <1>1, <1>2, <1>3, <1>4 DEF TokensInv

---------------------------------------------------------------------------
(***************************************************************************)
(* What receipts under way carry                                           *)
(***************************************************************************)

\* What a slot may have to give back of a token.
Carried(call, t) == IF call = Idle THEN 0 ELSE InToken(t, call.token, Returnable(call))

InUse(cs)          == {slot \in Slots : cs[slot] # Idle}
InUseFor(cs, t)    == {slot \in Slots : cs[slot] # Idle /\ cs[slot].token = t}
HeldTable(cs, t)   == [slot \in Slots |-> Carried(cs[slot], t)]
ReturnTable(cs, t) == [slot \in Slots |-> Returnable(cs[slot])]
HeldInSlots(cs, t) == Total(ReturnTable(cs, t), InUseFor(cs, t))

\* What may be returned of a call is an amount, and so is what a slot holds.
LEMMA CarriedType ==
  ASSUME NEW call \in Call \union {Idle}, NEW t
  PROVE  /\ Carried(call, t) \in Nat
         /\ call # Idle => Returnable(call) \in Nat
<1>1. CASE call = Idle
  BY <1>1 DEF Carried
<1>2. CASE call \in Call
  <2>1. call.amount \in Nat /\ call.result \in Nat \union {Failed, Idle}
    BY <1>2 DEF Call
  <2>2. Returnable(call) \in Nat
    BY <2>1, OracleTokensAssumption DEF Returnable, Token!Unused, Token!Smaller
  <2>3. QED
    BY <2>2 DEF Carried, InToken
<1>3. QED
  BY <1>1, <1>2

\* The sum over the slots of a token, as one over all slots in use.
LEMMA HeldInAll ==
  ASSUME NEW cs \in [Slots -> Call \union {Idle}], NEW t, NEW S \in SUBSET Slots,
         IsFiniteSet(S), InUse(cs) \subseteq S
  PROVE  /\ Summable(HeldTable(cs, t), S)
         /\ HeldInSlots(cs, t) = Total(HeldTable(cs, t), S)
         /\ HeldInSlots(cs, t) \in Nat
<1> DEFINE f == ReturnTable(cs, t)
           g == HeldTable(cs, t)
           R == InUseFor(cs, t)
<1>1. R \in SUBSET S
  BY DEF InUse, InUseFor
<1>2. ASSUME NEW slot \in R
      PROVE  f[slot] \in Nat /\ g[slot] = f[slot]
  <2>1. /\ slot \in Slots /\ cs[slot] \in Call \union {Idle}
        /\ cs[slot] # Idle /\ cs[slot].token = t
    BY DEF InUseFor
  <2>2. Returnable(cs[slot]) \in Nat
    BY <2>1, CarriedType
  <2>3. QED
    BY <2>1, <2>2 DEF HeldTable, ReturnTable, Carried, InToken
<1>3. ASSUME NEW slot \in S \ R
      PROVE  g[slot] = 0
  BY <1>3 DEF HeldTable, Carried, InToken, InUseFor
<1>4. ASSUME NEW slot \in S
      PROVE  g[slot] \in Nat
  <2>1. slot \in Slots /\ cs[slot] \in Call \union {Idle}
    OBVIOUS
  <2>2. QED
    BY <2>1, CarriedType DEF HeldTable
<1> HIDE DEF f, g, R
<1>5. /\ \A x \in R : f[x] \in Int /\ g[x] = f[x]
      /\ \A x \in S \ R : g[x] = 0
  BY <1>2, <1>3
<1>6. Summable(g, S) /\ Total(g, S) = Total(f, R)
  BY ONLY <1>1, <1>5, IsFiniteSet(S), TotalPart
<1>7. Total(g, S) \in Nat
  BY <1>4, TotalNat
<1>8. QED
  BY <1>6, <1>7 DEF HeldInSlots, f, g, R

\* One slot changes.
LEMMA HeldChanged ==
  ASSUME NEW cs \in [Slots -> Call \union {Idle}], NEW slot \in Slots,
         NEW call \in Call \union {Idle}, IsFiniteSet(InUse(cs)), NEW t
  PROVE  LET after == [cs EXCEPT ![slot] = call]
         IN  /\ IsFiniteSet(InUse(after))
             /\ HeldInSlots(after, t)
                  = HeldInSlots(cs, t) + Carried(call, t) - Carried(cs[slot], t)
             /\ HeldInSlots(after, t) \in Nat
             /\ HeldInSlots(cs, t) \in Nat
             /\ Carried(cs[slot], t) <= HeldInSlots(cs, t)
<1> DEFINE after == [cs EXCEPT ![slot] = call]
           C     == Call \union {Idle}
           S     == InUse(cs) \union {slot}
           f     == HeldTable(cs, t)
           g     == HeldTable(after, t)
<1>1. /\ after \in [Slots -> C]
      /\ after[slot] = call
      /\ \A x \in Slots : x # slot => after[x] = cs[x]
  <2> HIDE DEF C
  <2>1. cs \in [Slots -> C] /\ call \in C
    BY DEF C
  <2>2. QED
    BY <2>1
<1> HIDE DEF after, C
<1>2. S \in SUBSET Slots /\ InUse(cs) \subseteq S /\ InUse(after) \subseteq S
  BY <1>1 DEF InUse
<1>3. IsFiniteSet(S) /\ IsFiniteSet(InUse(after))
  <2>1. IsFiniteSet(S)
    BY FS_AddElement
  <2>2. QED
    BY <1>2, <2>1, FS_Subset
<1>4. slot \in S
  OBVIOUS
<1> HIDE DEF S
<1>5. /\ Summable(f, S) /\ HeldInSlots(cs, t) = Total(f, S) /\ HeldInSlots(cs, t) \in Nat
      /\ Summable(g, S) /\ HeldInSlots(after, t) = Total(g, S) /\ HeldInSlots(after, t) \in Nat
  BY <1>1, <1>2, <1>3, HeldInAll DEF C
<1>6. /\ f[slot] = Carried(cs[slot], t) /\ g[slot] = Carried(call, t)
      /\ \A x \in S \ {slot} : g[x] = f[x]
  BY <1>1, <1>2 DEF HeldTable
<1>7. g[slot] \in Int /\ \A x \in S : f[x] \in Nat
  <2>1. \A x \in Slots : cs[x] \in Call \union {Idle}
    OBVIOUS
  <2>2. \A x \in Slots : Carried(cs[x], t) \in Nat
    BY <2>1, CarriedType
  <2>3. Carried(call, t) \in Nat
    BY CarriedType
  <2>4. QED
    BY <1>2, <1>6, <2>2, <2>3 DEF HeldTable
<1> HIDE DEF f, g
<1>8. Total(g, S) = Total(f, S) + g[slot] - f[slot]
  BY ONLY <1>4, <1>5, <1>6, <1>7, TotalChanged
<1>9. f[slot] <= Total(f, S)
  BY ONLY <1>3, <1>4, <1>7, TotalBoundsSummand
<1>10. QED
  BY <1>3, <1>5, <1>6, <1>8, <1>9 DEF after

\* The sums of a state, before and after a step.
LEMMA HeldInState ==
  ASSUME NEW t
  PROVE  /\ InSlots(t, Returnable) = HeldInSlots(calls, t)
         /\ InSlots(t, Returnable)' = HeldInSlots(calls', t)
<1>1. InSlots(t, Returnable) = HeldInSlots(calls, t)
  BY DEF InSlots, HeldInSlots, ReturnTable, InUseFor, Total, MapThenSumSet, MapThenFoldSet
<1>2. InSlots(t, Returnable)' = HeldInSlots(calls', t)
  BY DEF InSlots, HeldInSlots, ReturnTable, InUseFor, Total, MapThenSumSet, MapThenFoldSet
<1>3. QED
  BY <1>1, <1>2


\* The chains that are ordered: of one transfer, or of two.
IsChain(chain) ==
  \/ \E a \in Payout : chain = << a >>
  \/ \E a, b \in Payout : chain = << a, b >>

IsChainBag(B) ==
  /\ B = [chain \in DOMAIN B |-> B[chain]]
  /\ IsFiniteSet(DOMAIN B)
  /\ \A chain \in DOMAIN B : IsChain(chain) /\ B[chain] \in Nat \ {0}

ChainTable(B, t) == [chain \in DOMAIN B |-> B[chain] * InChain(t, chain)]
InChains(B, t)   == Total(ChainTable(B, t), DOMAIN B)

\* The parts of a payout.
LEMMA PayoutFields ==
  ASSUME NEW payout \in Payout, NEW t
  PROVE  payout.token \in Tokens /\ payout.amount \in Nat
         /\ InToken(t, payout.token, payout.amount) \in Nat
BY DEF Payout, InToken

\* What a chain of one or two transfers moves.
LEMMA InChainSum ==
  ASSUME NEW t
  PROVE  /\ \A a \in Payout :
              /\ IsChain(<< a >>)
              /\ InChain(t, << a >>) = InToken(t, a.token, a.amount)
         /\ \A a \in Payout, b \in Payout :
              /\ IsChain(<< a, b >>)
              /\ InChain(t, << a, b >>)
                   = InToken(t, a.token, a.amount) + InToken(t, b.token, b.amount)
<1> DEFINE moved(chain) ==
             [i \in DOMAIN chain |-> InToken(t, chain[i].token, chain[i].amount)]
<1>1. \A chain : InChain(t, chain) = Total(moved(chain), DOMAIN chain)
  BY DEF InChain, Total, MapThenSumSet, MapThenFoldSet
<1>2. ASSUME NEW a \in Payout
      PROVE  /\ IsChain(<< a >>)
             /\ InChain(t, << a >>) = InToken(t, a.token, a.amount)
  <2> DEFINE m == moved(<< a >>)
  <2>1. DOMAIN << a >> = {1} /\ m[1] = InToken(t, a.token, a.amount)
    OBVIOUS
  <2>2. m[1] \in Int
    BY <2>1, PayoutFields
  <2>3. IsChain(<< a >>)
    BY DEF IsChain
  <2>4. InChain(t, << a >>) = Total(m, {1})
    BY <1>1, <2>1
  <2> HIDE DEF m
  <2>5. QED
    BY <2>1, <2>2, <2>3, <2>4, TotalOne
<1>3. ASSUME NEW a \in Payout, NEW b \in Payout
      PROVE  /\ IsChain(<< a, b >>)
             /\ InChain(t, << a, b >>)
                  = InToken(t, a.token, a.amount) + InToken(t, b.token, b.amount)
  <2> DEFINE m == moved(<< a, b >>)
  <2>1. /\ DOMAIN << a, b >> = {1, 2}
        /\ m[1] = InToken(t, a.token, a.amount)
        /\ m[2] = InToken(t, b.token, b.amount)
    OBVIOUS
  <2>2. m[1] \in Int /\ m[2] \in Int
    BY <2>1, PayoutFields
  <2>3. IsChain(<< a, b >>)
    BY DEF IsChain
  <2>4. InChain(t, << a, b >>) = Total(m, {1, 2})
    BY <1>1, <2>1
  <2> HIDE DEF m
  <2>5. Total(m, {1, 2}) = m[1] + m[2]
    BY ONLY <2>2, 1 # 2, TotalTwo
  <2>6. QED
    BY <2>1, <2>3, <2>4, <2>5
<1>4. QED
  BY <1>2, <1>3

\* A chain is one of the two, and what it moves is an amount.
LEMMA ChainCases ==
  ASSUME NEW chain, IsChain(chain), NEW t
  PROVE  /\ Head(chain) \in Payout
         /\ \/ chain = << Head(chain) >> /\ Tail(chain) = << >>
            \/ /\ chain = << Head(chain), Head(Tail(chain)) >>
               /\ Tail(chain) = << Head(Tail(chain)) >>
               /\ Head(Tail(chain)) \in Payout
         /\ InChain(t, chain) \in Nat
<1>1. CASE \E a \in Payout : chain = << a >>
  <2>1. PICK a \in Payout : chain = << a >>
    BY <1>1
  <2>2. Head(chain) = a /\ Tail(chain) = << >>
    BY <2>1
  <2>3. InChain(t, chain) = InToken(t, a.token, a.amount)
    BY <2>1, InChainSum
  <2>4. InToken(t, a.token, a.amount) \in Nat
    BY PayoutFields
  <2>5. QED
    BY <2>1, <2>2, <2>3, <2>4
<1>2. CASE \E a, b \in Payout : chain = << a, b >>
  <2>1. PICK a \in Payout, b \in Payout : chain = << a, b >>
    BY <1>2
  <2>2. Head(chain) = a /\ Tail(chain) = << b >> /\ Head(Tail(chain)) = b
    BY <2>1
  <2>3. InChain(t, chain) = InToken(t, a.token, a.amount) + InToken(t, b.token, b.amount)
    BY <2>1, InChainSum
  <2>4. InToken(t, a.token, a.amount) \in Nat /\ InToken(t, b.token, b.amount) \in Nat
    BY PayoutFields
  <2>5. QED
    BY <2>1, <2>2, <2>3, <2>4
<1>3. QED
  BY <1>1, <1>2 DEF IsChain

\* A bag of chains sums up to an amount.
LEMMA InChainsType ==
  ASSUME NEW B, IsChainBag(B), NEW t
  PROVE  /\ Summable(ChainTable(B, t), DOMAIN B)
         /\ InChains(B, t) \in Nat
<1>1. \A chain \in DOMAIN B : ChainTable(B, t)[chain] \in Nat
  <2>1. ASSUME NEW chain \in DOMAIN B
        PROVE  ChainTable(B, t)[chain] \in Nat
    <3>1. InChain(t, chain) \in Nat /\ B[chain] \in Nat
      BY ChainCases DEF IsChainBag
    <3>2. B[chain] * InChain(t, chain) \in Nat
      BY <3>1
    <3>3. QED
      BY <3>2 DEF ChainTable
  <2>2. QED
    BY <2>1
<1>2. QED
  BY <1>1, TotalNat DEF IsChainBag, InChains, Summable

\* One chain more.
LEMMA ChainOrdered ==
  ASSUME NEW B, IsChainBag(B), NEW chain, IsChain(chain)
  PROVE  LET after == B (+) SetToBag({chain})
         IN  /\ IsChainBag(after)
             /\ \A t : InChains(after, t) = InChains(B, t) + InChain(t, chain)
<1> DEFINE after == B (+) SetToBag({chain})
           D     == DOMAIN B
<1>1. /\ DOMAIN after = D \union {chain}
      /\ after = [c \in DOMAIN after |-> after[c]]
      /\ \A c \in D : c # chain => after[c] = B[c]
      /\ after[chain] = IF chain \in D THEN B[chain] + 1 ELSE 1
  BY DEF IsChainBag, (+), SetToBag
<1> HIDE DEF after
<1>2. IsChainBag(after)
  <2>1. IsFiniteSet(DOMAIN after)
    BY <1>1, FS_AddElement DEF IsChainBag
  <2>2. \A c \in DOMAIN after : IsChain(c) /\ after[c] \in Nat \ {0}
    BY <1>1 DEF IsChainBag
  <2>3. QED
    BY <1>1, <2>1, <2>2 DEF IsChainBag
<1>3. ASSUME NEW t
      PROVE  InChains(after, t) = InChains(B, t) + InChain(t, chain)
  <2> DEFINE f == ChainTable(B, t)
             g == ChainTable(after, t)
  <2>1. /\ Summable(f, D) /\ InChains(B, t) = Total(f, D)
        /\ Summable(g, D \union {chain}) /\ InChains(after, t) = Total(g, D \union {chain})
        /\ Total(f, D) \in Nat
    BY <1>1, <1>2, InChainsType DEF InChains
  <2>2. InChain(t, chain) \in Nat
    BY ChainCases
  <2>3. \A c \in D \ {chain} : g[c] = f[c]
    BY <1>1 DEF ChainTable
  <2>4. CASE chain \in D
    <3>1. B[chain] \in Nat
      BY <2>4 DEF IsChainBag
    <3>2. f[chain] = B[chain] * InChain(t, chain)
      BY <2>4 DEF ChainTable
    <3>3. g[chain] = (B[chain] + 1) * InChain(t, chain)
      BY <1>1, <2>4 DEF ChainTable
    <3>4. /\ g[chain] = f[chain] + InChain(t, chain)
          /\ f[chain] \in Int
      BY <2>2, <3>1, <3>2, <3>3
    <3>5. g[chain] \in Int /\ D \union {chain} = D
      BY <2>2, <2>4, <3>4
    <3> HIDE DEF f, g, D
    <3>6. Total(g, D) = Total(f, D) + g[chain] - f[chain]
      BY ONLY <2>1, <2>3, <2>4, <3>5, TotalChanged
    <3>7. InChains(after, t) = Total(g, D)
      BY <2>1, <3>5
    <3>8. QED
      BY ONLY <2>1, <2>2, <3>4, <3>6, <3>7
  <2>5. CASE chain \notin D
    <3>1. g[chain] = InChain(t, chain)
      BY <1>1, <2>2, <2>5 DEF ChainTable
    <3>2. \A c \in D : g[c] = f[c]
      BY <2>3, <2>5
    <3> HIDE DEF f, g, D
    <3>3. Total(g, D \union {chain}) = g[chain] + Total(g, D)
      <4>1. chain \in D \union {chain} /\ (D \union {chain}) \ {chain} = D
        BY <2>5
      <4>2. QED
        BY <2>1, <4>1, TotalWithout
    <3>4. Total(g, D) = Total(f, D)
      BY ONLY <2>1, <3>2, TotalSame
    <3>5. QED
      BY <2>1, <2>2, <3>1, <3>3, <3>4
  <2>6. QED
    BY <2>4, <2>5
<1>4. QED
  BY <1>2, <1>3 DEF after

\* One chain less.
LEMMA ChainTaken ==
  ASSUME NEW B, IsChainBag(B), NEW chain \in DOMAIN B
  PROVE  LET after == B (-) SetToBag({chain})
         IN  /\ IsChainBag(after)
             /\ \A t : InChains(B, t) = InChains(after, t) + InChain(t, chain)
<1> DEFINE after == B (-) SetToBag({chain})
           D     == DOMAIN B
<1>1. /\ DOMAIN after \subseteq D
      /\ after = [c \in DOMAIN after |-> after[c]]
      /\ \A c \in D : c # chain => c \in DOMAIN after /\ after[c] = B[c]
      /\ chain \in DOMAIN after <=> B[chain] > 1
      /\ chain \in DOMAIN after => after[chain] = B[chain] - 1
  BY DEF IsChainBag, (-), SetToBag
<1>2. IsChain(chain) /\ B[chain] \in Nat \ {0}
  BY DEF IsChainBag
<1> HIDE DEF after
<1>3. IsChainBag(after)
  <2>1. IsFiniteSet(DOMAIN after)
    BY <1>1, FS_Subset DEF IsChainBag
  <2>2. \A c \in DOMAIN after : IsChain(c) /\ after[c] \in Nat \ {0}
    BY <1>1, <1>2 DEF IsChainBag
  <2>3. QED
    BY <1>1, <2>1, <2>2 DEF IsChainBag
<1>4. after (+) SetToBag({chain}) = B
  <2> DEFINE back == after (+) SetToBag({chain})
  <2>1. /\ DOMAIN back = DOMAIN after \union {chain}
        /\ back = [c \in DOMAIN back |-> back[c]]
        /\ \A c \in DOMAIN after : c # chain => back[c] = after[c]
        /\ back[chain] = IF chain \in DOMAIN after THEN after[chain] + 1 ELSE 1
    BY <1>3 DEF (+), SetToBag, IsChainBag
  <2> HIDE DEF back
  <2>2. DOMAIN back = D
    BY <1>1, <2>1
  <2>3. \A c \in D : back[c] = B[c]
    BY <1>1, <1>2, <2>1
  <2>4. B = [c \in D |-> B[c]]
    BY DEF IsChainBag
  <2>5. back = B
    BY <2>1, <2>2, <2>3, <2>4
  <2>6. QED
    BY <2>5 DEF back
<1>5. QED
  BY <1>2, <1>3, <1>4, ChainOrdered DEF after

\* The sums of a state, before and after a step.
LEMMA OrderedInState ==
  ASSUME NEW t
  PROVE  /\ Ordered(t) = InChains(payouts, t)
         /\ Ordered(t)' = InChains(payouts', t)
<1>1. Ordered(t) = InChains(payouts, t)
  BY DEF Ordered, InChains, ChainTable, BagToSet, Total, MapThenSumSet, MapThenFoldSet
<1>2. Ordered(t)' = InChains(payouts', t)
  BY DEF Ordered, InChains, ChainTable, BagToSet, Total, MapThenSumSet, MapThenFoldSet
<1>3. QED
  BY <1>1, <1>2


---------------------------------------------------------------------------
(***************************************************************************)
(* Everything under way is covered                                         *)
(***************************************************************************)

(***************************************************************************)
(* What the oracle counts on, the payouts it has ordered and what it may   *)
(* have to return are all there in its account.                            *)
(***************************************************************************)
Covered ==
  \A t \in Tokens :
    balance[t] + Ordered(t) + InSlots(t, Returnable) <= accounts[t][OracleAccount]

(***************************************************************************)
(* The invariant of the receipts.  The number of calls and payouts under   *)
(* way is not bounded, but finite; the oracle never leaves a token.        *)
(***************************************************************************)
FlowInv ==
  /\ \A t \in Tokens : OracleAccount \in DOMAIN accounts[t]
  /\ IsFiniteSet(InUse(calls))
  /\ IsChainBag(payouts)
  /\ Covered

\* The amounts of a state.
LEMMA FlowTypes ==
  ASSUME TokensInv, FlowInv, NEW t \in Tokens
  PROVE  /\ balance[t] \in Nat
         /\ accounts[t][OracleAccount] \in Nat
         /\ InChains(payouts, t) \in Nat
         /\ HeldInSlots(calls, t) \in Nat
         /\ balance[t] + InChains(payouts, t) + HeldInSlots(calls, t)
              <= accounts[t][OracleAccount]
<1>1. balance[t] \in Nat
  BY DEF TokensInv, Inv, TypeOK
<1>2. accounts[t][OracleAccount] \in Nat
  BY AccountsType DEF TokensInv, AccountsOK, FlowInv
<1>3. InChains(payouts, t) \in Nat
  BY InChainsType DEF FlowInv
<1>4. HeldInSlots(calls, t) \in Nat
  <2>1. /\ calls \in [Slots -> Call \union {Idle}]
        /\ IsFiniteSet(InUse(calls))
        /\ InUse(calls) \in SUBSET Slots
        /\ InUse(calls) \subseteq InUse(calls)
    BY DEF TokensInv, CallsOK, FlowInv, InUse
  <2>2. QED
    BY ONLY <2>1, HeldInAll
<1>5. Ordered(t) = InChains(payouts, t) /\ InSlots(t, Returnable) = HeldInSlots(calls, t)
  BY OrderedInState, HeldInState
<1>6. QED
  BY <1>1, <1>2, <1>3, <1>4, <1>5 DEF FlowInv, Covered

\* What a step has to show: the account gains what is under way more, or more.
LEMMA FlowKept ==
  ASSUME TokensInv, FlowInv,
         \A t \in Tokens : OracleAccount \in DOMAIN accounts'[t],
         IsFiniteSet(InUse(calls')),
         IsChainBag(payouts'),
         \A t \in Tokens :
           /\ accounts'[t][OracleAccount] \in Nat
           /\ balance'[t] \in Nat
           /\ InChains(payouts', t) \in Nat
           /\ HeldInSlots(calls', t) \in Nat
           /\ balance'[t] + InChains(payouts', t) + HeldInSlots(calls', t)
                + accounts[t][OracleAccount]
                <= accounts'[t][OracleAccount]
                     + balance[t] + InChains(payouts, t) + HeldInSlots(calls, t)
  PROVE  FlowInv'
<1>1. ASSUME NEW t \in Tokens
      PROVE  balance'[t] + Ordered(t)' + InSlots(t, Returnable)' <= accounts'[t][OracleAccount]
  <2>1. /\ balance[t] \in Nat
        /\ accounts[t][OracleAccount] \in Nat
        /\ InChains(payouts, t) \in Nat
        /\ HeldInSlots(calls, t) \in Nat
        /\ balance[t] + InChains(payouts, t) + HeldInSlots(calls, t)
             <= accounts[t][OracleAccount]
    BY FlowTypes
  <2>2. /\ accounts'[t][OracleAccount] \in Nat
        /\ balance'[t] \in Nat
        /\ InChains(payouts', t) \in Nat
        /\ HeldInSlots(calls', t) \in Nat
        /\ balance'[t] + InChains(payouts', t) + HeldInSlots(calls', t)
             + accounts[t][OracleAccount]
             <= accounts'[t][OracleAccount]
                  + balance[t] + InChains(payouts, t) + HeldInSlots(calls, t)
    OBVIOUS
  <2>3. Ordered(t)' = InChains(payouts', t) /\ InSlots(t, Returnable)' = HeldInSlots(calls', t)
    BY OrderedInState, HeldInState
  <2>4. balance'[t] + InChains(payouts', t) + HeldInSlots(calls', t)
          <= accounts'[t][OracleAccount]
    BY ONLY <2>1, <2>2
  <2>5. QED
    BY <2>3, <2>4
<1>2. Covered'
  BY <1>1 DEF Covered
<1>3. QED
  BY <1>2 DEF FlowInv

\* A step that leaves what is under way alone, and adds nothing to the balance.
LEMMA FlowSame ==
  ASSUME TokensInv, FlowInv, UNCHANGED << calls, payouts >>,
         \A t \in Tokens :
           /\ OracleAccount \in DOMAIN accounts'[t]
           /\ accounts'[t][OracleAccount] = accounts[t][OracleAccount]
           /\ balance'[t] = balance[t]
  PROVE  FlowInv'
<1>1. \A t \in Tokens :
        /\ balance[t] \in Nat
        /\ accounts[t][OracleAccount] \in Nat
        /\ InChains(payouts, t) \in Nat
        /\ HeldInSlots(calls, t) \in Nat
  BY FlowTypes
<1>2. IsFiniteSet(InUse(calls')) /\ IsChainBag(payouts')
  BY DEF FlowInv
<1>3. \A t \in Tokens :
        /\ accounts'[t][OracleAccount] \in Nat
        /\ balance'[t] \in Nat
        /\ InChains(payouts', t) \in Nat
        /\ HeldInSlots(calls', t) \in Nat
        /\ balance'[t] + InChains(payouts', t) + HeldInSlots(calls', t)
             + accounts[t][OracleAccount]
             <= accounts'[t][OracleAccount]
                  + balance[t] + InChains(payouts, t) + HeldInSlots(calls, t)
  BY <1>1
<1>4. QED
  BY ONLY <1>2, <1>3, FlowKept, TokensInv, FlowInv,
          \A t \in Tokens : OracleAccount \in DOMAIN accounts'[t]


\* What a transfer moves, at both ends.
LEMMA TransferMoves ==
  ASSUME NEW acc, Token!IsAccounts(acc, Holders), NEW s, NEW r, NEW n \in Nat,
         Token!CanTransfer(acc, s, r, n)
  PROVE  LET after == Token!Transferred(acc, s, r, n)
         IN  /\ DOMAIN after = DOMAIN acc
             /\ s \in DOMAIN acc /\ r \in DOMAIN acc /\ s # r
             /\ after[s] = acc[s] - n
             /\ after[r] = acc[r] + n
             /\ n <= acc[s] /\ acc[s] \in Nat /\ acc[r] \in Nat
<1>1. acc \in [DOMAIN acc -> Nat]
  BY AccountsType
<1>2. s \in DOMAIN acc /\ n <= acc[s] /\ r \in DOMAIN acc /\ s # r
  BY DEF Token!CanTransfer, Token!CanWithdraw, Token!CanDeposit
<1>3. QED
  BY <1>1, <1>2 DEF Token!Transferred, Token!Withdrawn, Token!Deposited

\* What a refund moves, also if its receiver has left.
LEMMA RefundMoves ==
  ASSUME NEW acc, Token!IsAccounts(acc, Holders), NEW s, NEW r \in DOMAIN acc, s # r,
         NEW refund \in Nat, refund <= acc[r]
  PROVE  LET after == Token!AfterRefund(acc, s, r, refund)
         IN  /\ DOMAIN after = DOMAIN acc
             /\ after[r] = acc[r] - refund
             /\ s \in DOMAIN acc => after[s] = acc[s] + refund
             /\ acc[r] \in Nat
<1> DEFINE after == Token!AfterRefund(acc, s, r, refund)
<1>1. acc \in [DOMAIN acc -> Nat] /\ acc[r] \in Nat
  BY AccountsType
<1>2. CASE refund = 0
  <2>1. after = acc
    BY <1>2 DEF Token!AfterRefund
  <2>2. s \in DOMAIN acc => acc[s] \in Nat
    BY <1>1
  <2>3. QED
    BY <1>1, <1>2, <2>1, <2>2
<1>3. CASE refund # 0
  BY <1>1, <1>3 DEF Token!AfterRefund, Token!Withdrawn
<1>4. QED
  BY <1>2, <1>3

\* ft_transfer_call: the tokens arrive, and are all to be returned so far.
LEMMA FtTransferCallCovered ==
  ASSUME TokensInv, FlowInv, NEW slot \in Slots, NEW token \in Tokens, NEW sender \in Stakers,
         NEW amount \in StakeAmounts, FtTransferCall(slot, token, sender, amount)
  PROVE  FlowInv'
<1> DEFINE call == [token |-> token, sender |-> sender, amount |-> amount, result |-> Idle]
           acc  == Token!Transferred(accounts[token], sender, OracleAccount, amount)
<1>1. amount \in Nat
  BY OracleAssumption
<1>2. /\ call \in Call
      /\ \A t : Carried(call, t) = InToken(t, token, amount)
      /\ \A t : Carried(Idle, t) = 0
  BY <1>1, OracleTokensAssumption DEF Call, Carried, Returnable
<1>3. /\ calls[slot] = Idle
      /\ calls' = [calls EXCEPT ![slot] = call]
      /\ accounts' = [accounts EXCEPT ![token] = acc]
      /\ UNCHANGED << balance, payouts >>
  BY DEF FtTransferCall, vars
<1>4. /\ DOMAIN acc = DOMAIN accounts[token]
      /\ acc[OracleAccount] = accounts[token][OracleAccount] + amount
  BY <1>1, TransferMoves DEF FtTransferCall, TokensInv, AccountsOK
<1> HIDE DEF call, acc
<1>5. /\ calls \in [Slots -> Call \union {Idle}]
      /\ call \in Call \union {Idle}
      /\ IsFiniteSet(InUse(calls))
  BY <1>2 DEF TokensInv, CallsOK, FlowInv
<1>6. IsFiniteSet(InUse(calls')) /\ IsChainBag(payouts')
  BY <1>3, <1>5, HeldChanged DEF FlowInv
<1>7. \A t \in Tokens : accounts'[t] = IF t = token THEN acc ELSE accounts[t]
  BY <1>3 DEF TokensInv, AccountsOK
<1>8. \A t \in Tokens : OracleAccount \in DOMAIN accounts'[t]
  BY <1>4, <1>7 DEF FlowInv
<1>9. ASSUME NEW t \in Tokens
      PROVE  /\ accounts'[t][OracleAccount] \in Nat
             /\ balance'[t] \in Nat
             /\ InChains(payouts', t) \in Nat
             /\ HeldInSlots(calls', t) \in Nat
             /\ balance'[t] + InChains(payouts', t) + HeldInSlots(calls', t)
                  + accounts[t][OracleAccount]
                  <= accounts'[t][OracleAccount]
                       + balance[t] + InChains(payouts, t) + HeldInSlots(calls, t)
  <2>1. /\ HeldInSlots(calls', t) = HeldInSlots(calls, t) + Carried(call, t) - Carried(Idle, t)
        /\ HeldInSlots(calls', t) \in Nat
    BY <1>3, <1>5, HeldChanged
  <2>2. HeldInSlots(calls', t) = HeldInSlots(calls, t) + InToken(t, token, amount)
    <3>1. InToken(t, token, amount) \in Nat
      BY <1>1 DEF InToken
    <3>2. QED
      BY <1>2, <2>1, <3>1, FlowTypes
  <2>3. accounts'[t][OracleAccount] = accounts[t][OracleAccount] + InToken(t, token, amount)
    BY <1>4, <1>7, FlowTypes DEF InToken
  <2>4. InToken(t, token, amount) \in Nat
    BY <1>1 DEF InToken
  <2>5. /\ balance[t] \in Nat
        /\ accounts[t][OracleAccount] \in Nat
        /\ InChains(payouts, t) \in Nat
        /\ HeldInSlots(calls, t) \in Nat
    BY FlowTypes
  <2>6. balance' = balance /\ payouts' = payouts
    BY <1>3
  <2>7. QED
    BY ONLY <2>1, <2>2, <2>3, <2>4, <2>5, <2>6
<1>10. QED
  BY ONLY <1>6, <1>8, <1>9, FlowKept, TokensInv, FlowInv

\* An answer: what is no longer to be returned is counted on.
LEMMA AnswerCovered ==
  ASSUME TokensInv, FlowInv, NEW slot \in Slots, Waits(slot), NEW result \in Nat \union {Failed},
         Answer(slot, result),
         \A t \in Tokens :
           LET call == calls[slot]
           IN  /\ balance'[t] \in Nat
               /\ balance'[t] + InToken(t, call.token, Token!Unused(call.amount, result))
                    <= balance[t] + InToken(t, call.token, call.amount)
  PROVE  FlowInv'
<1> DEFINE call == calls[slot]
           next == [call EXCEPT !.result = result]
           back == Token!Unused(call.amount, result)
<1>1. call \in Call /\ call # Idle /\ call.result = Idle
  BY CallFields DEF Waits
<1>2. call.amount \in Nat /\ back \in Nat /\ result # Idle
  BY <1>1, OracleTokensAssumption DEF Call, Token!Unused, Token!Smaller
<1>3. /\ next \in Call
      /\ next.token = call.token /\ next.amount = call.amount /\ next.result = result
  BY <1>1 DEF Call
<1>4. next # Idle
  BY <1>3, OracleTokensAssumption
<1>5. /\ calls' = [calls EXCEPT ![slot] = next]
      /\ UNCHANGED << accounts, payouts >>
  BY DEF Answer
<1> HIDE DEF next
<1>6. \A t : /\ Carried(next, t) = InToken(t, call.token, back)
             /\ Carried(call, t) = InToken(t, call.token, call.amount)
  BY <1>1, <1>2, <1>3, <1>4 DEF Carried, Returnable
<1>7. /\ calls \in [Slots -> Call \union {Idle}]
      /\ next \in Call \union {Idle}
      /\ IsFiniteSet(InUse(calls))
  BY <1>3 DEF TokensInv, CallsOK, FlowInv
<1>8. IsFiniteSet(InUse(calls')) /\ IsChainBag(payouts')
  BY <1>5, <1>7, HeldChanged DEF FlowInv
<1>9. \A t \in Tokens : OracleAccount \in DOMAIN accounts'[t]
  BY <1>5 DEF FlowInv
<1> HIDE DEF back
<1>10. ASSUME NEW t \in Tokens
       PROVE  /\ accounts'[t][OracleAccount] \in Nat
              /\ balance'[t] \in Nat
              /\ InChains(payouts', t) \in Nat
              /\ HeldInSlots(calls', t) \in Nat
              /\ balance'[t] + InChains(payouts', t) + HeldInSlots(calls', t)
                   + accounts[t][OracleAccount]
                   <= accounts'[t][OracleAccount]
                        + balance[t] + InChains(payouts, t) + HeldInSlots(calls, t)
  <2>1. /\ HeldInSlots(calls', t) = HeldInSlots(calls, t) + Carried(next, t) - Carried(call, t)
        /\ HeldInSlots(calls', t) \in Nat
    BY <1>5, <1>7, HeldChanged
  <2>2. /\ InToken(t, call.token, back) \in Nat
        /\ InToken(t, call.token, call.amount) \in Nat
    BY <1>2 DEF InToken
  <2>3. /\ balance'[t] \in Nat
        /\ balance'[t] + InToken(t, call.token, back)
             <= balance[t] + InToken(t, call.token, call.amount)
    BY DEF back
  <2>4. /\ Carried(next, t) = InToken(t, call.token, back)
        /\ Carried(call, t) = InToken(t, call.token, call.amount)
    BY <1>6
  <2>5. /\ balance[t] \in Nat
        /\ accounts[t][OracleAccount] \in Nat
        /\ InChains(payouts, t) \in Nat
        /\ HeldInSlots(calls, t) \in Nat
    BY FlowTypes
  <2>6. accounts' = accounts /\ payouts' = payouts
    BY <1>5
  <2> HIDE DEF call
  <2>7. QED
    BY ONLY <2>1, <2>2, <2>3, <2>4, <2>5, <2>6
<1>11. QED
  BY ONLY <1>8, <1>9, <1>10, FlowKept, TokensInv, FlowInv


\* A request is made: the oracle counts on all that was sent.
LEMMA OnTransferNewCovered ==
  ASSUME TokensInv, FlowInv, NEW slot \in Slots, NEW payload \in Payloads,
         OnTransferNew(slot, payload)
  PROVE  FlowInv'
<1> DEFINE call == calls[slot]
<1>1. /\ Waits(slot)
      /\ balance' = [balance EXCEPT ![call.token] = @ + call.amount]
      /\ Answer(slot, 0)
  BY DEF OnTransferNew, DrNew
<1>2. /\ call.token \in Tokens /\ call.amount \in Nat
      /\ balance \in [Tokens -> Nat]
  BY <1>1, CallFields DEF Waits, TokensInv, Inv, TypeOK
<1>3. Token!Unused(call.amount, 0) = 0
  BY <1>2, OracleTokensAssumption DEF Token!Unused, Token!Smaller
<1> HIDE DEF call
<1>4. \A t \in Tokens :
        /\ balance'[t] \in Nat
        /\ balance'[t] + InToken(t, call.token, 0) <= balance[t] + InToken(t, call.token, call.amount)
  BY <1>1, <1>2 DEF InToken
<1>5. QED
  BY <1>1, <1>3, <1>4, AnswerCovered DEF call

\* A stake: the oracle counts on what it does not report as unused.
LEMMA OnTransferStakeCovered ==
  ASSUME TokensInv, FlowInv, NEW slot \in Slots, NEW id \in DOMAIN data_requests,
         NEW outcome \in Outcomes, OnTransferStake(slot, id, outcome)
  PROVE  FlowInv'
<1> DEFINE call   == calls[slot]
           unused == ReportsUnused(id, outcome, call.amount)
<1>1. /\ Waits(slot)
      /\ DrStake(call.token, call.sender, call.amount, id, outcome)
      /\ Answer(slot, unused)
      /\ ~data_requests[id].final_arbitrator_triggered
      /\ balance' = [balance EXCEPT ![call.token] = @ + call.amount - unused]
  BY DEF OnTransferStake, DrStake, ReportsUnused
<1>2. /\ call.token \in Tokens /\ call.amount \in Nat
      /\ balance \in [Tokens -> Nat]
  BY <1>1, CallFields DEF Waits, TokensInv, Inv, TypeOK
<1>3. unused \in Nat /\ unused <= call.amount
  <2>1. /\ data_requests[id] \in Request
        /\ Ladder(data_requests[id])
        /\ now \in Nat
    BY RequestFacts DEF TokensInv
  <2>2. unused \in 0 .. call.amount
    BY <1>1, <1>2, <2>1, UnspentBounds DEF ReportsUnused
  <2>3. QED
    BY <1>2, <2>2
<1> HIDE DEF call, unused
<1>4. Token!Unused(call.amount, unused) = unused
  BY <1>2, <1>3, OracleTokensAssumption DEF Token!Unused, Token!Smaller
<1>5. \A t \in Tokens :
        /\ balance'[t] \in Nat
        /\ balance'[t] + InToken(t, call.token, unused)
             <= balance[t] + InToken(t, call.token, call.amount)
  BY <1>1, <1>2, <1>3 DEF InToken
<1>6. QED
  BY <1>1, <1>3, <1>4, <1>5, AnswerCovered DEF call

\* A panic: all that was sent is still to be returned.
LEMMA OnTransferPanicsCovered ==
  ASSUME TokensInv, FlowInv, NEW slot \in Slots, OnTransferPanics(slot)
  PROVE  FlowInv'
<1> DEFINE call == calls[slot]
<1>1. Waits(slot) /\ Answer(slot, Failed) /\ balance' = balance
  BY DEF OnTransferPanics, vars
<1>2. call.amount \in Nat /\ balance \in [Tokens -> Nat]
  BY <1>1, CallFields DEF Waits, TokensInv, Inv, TypeOK
<1>3. Token!Unused(call.amount, Failed) = call.amount
  BY DEF Token!Unused
<1>4. \A t \in Tokens :
        /\ balance'[t] \in Nat
        /\ InToken(t, call.token, call.amount) \in Nat
  BY <1>1, <1>2 DEF InToken
<1> HIDE DEF call
<1>5. \A t \in Tokens :
        /\ balance'[t] \in Nat
        /\ balance'[t] + InToken(t, call.token, call.amount)
             <= balance[t] + InToken(t, call.token, call.amount)
  BY <1>1, <1>4
<1>6. QED
  BY <1>1, <1>3, <1>5, AnswerCovered DEF call

\* What a call is to be returned is still in the oracle's account.
LEMMA RefundIsThere ==
  ASSUME TokensInv, FlowInv, NEW slot \in Slots, calls[slot] # Idle, calls[slot].result # Idle
  PROVE  LET call == calls[slot]
             back == Token!Unused(call.amount, call.result)
             held == accounts[call.token]
         IN  /\ back \in Nat
             /\ back <= held[OracleAccount]
             /\ RefundOf(call) = back
             /\ \A t : Carried(call, t) = InToken(t, call.token, back)
<1> DEFINE call == calls[slot]
           back == Token!Unused(call.amount, call.result)
           held == accounts[call.token]
<1>1. /\ call \in Call /\ call.token \in Tokens /\ call.amount \in Nat
      /\ call.result \in Nat \union {Failed}
  BY CallFields
<1>2. back \in Nat
  BY <1>1 DEF Token!Unused, Token!Smaller
<1>3. \A t : Carried(call, t) = InToken(t, call.token, back)
  BY DEF Carried, Returnable
<1>4. back <= HeldInSlots(calls, call.token)
  <2>1. /\ calls \in [Slots -> Call \union {Idle}]
        /\ call \in Call \union {Idle}
        /\ IsFiniteSet(InUse(calls))
    BY <1>1 DEF TokensInv, CallsOK, FlowInv
  <2>2. Carried(call, call.token) <= HeldInSlots(calls, call.token)
    BY <2>1, HeldChanged
  <2>3. Carried(call, call.token) = back
    BY <1>3 DEF InToken
  <2>4. QED
    BY <2>2, <2>3
<1>5. back <= held[OracleAccount] /\ held[OracleAccount] \in Nat
  <2>1. /\ balance[call.token] \in Nat
        /\ held[OracleAccount] \in Nat
        /\ InChains(payouts, call.token) \in Nat
        /\ HeldInSlots(calls, call.token) \in Nat
        /\ balance[call.token] + InChains(payouts, call.token) + HeldInSlots(calls, call.token)
             <= held[OracleAccount]
    BY <1>1, FlowTypes
  <2> HIDE DEF call, back, held
  <2>2. QED
    BY ONLY <1>2, <1>4, <2>1
<1>6. OracleAccount \in DOMAIN held
  BY <1>1 DEF FlowInv
<1>7. RefundOf(call) = back
  <2> HIDE DEF back, held
  <2>1. RefundOf(call) = Token!Smaller(held[OracleAccount], back)
    BY <1>6 DEF RefundOf, Token!Refund, Token!BalanceOf, back, held
  <2>2. Token!Smaller(held[OracleAccount], back) = back
    BY <1>2, <1>5 DEF Token!Smaller
  <2>3. QED
    BY <2>1, <2>2
<1>8. QED
  BY <1>2, <1>3, <1>5, <1>7

\* ft_resolve_transfer: no more leaves the account than was to be returned.
LEMMA FtResolveTransferCovered ==
  ASSUME TokensInv, FlowInv, NEW slot \in Slots, FtResolveTransfer(slot)
  PROVE  FlowInv'
<1> DEFINE call == calls[slot]
           back == Token!Unused(call.amount, call.result)
           held == accounts[call.token]
           acc  == Token!AfterRefund(held, call.sender, OracleAccount, back)
<1>1. /\ call # Idle /\ call.result # Idle
      /\ RefundOf(call) = back /\ back \in Nat /\ back <= held[OracleAccount]
      /\ \A t : Carried(call, t) = InToken(t, call.token, back)
      /\ \A t : Carried(Idle, t) = 0
  BY RefundIsThere DEF FtResolveTransfer, Carried
<1>2. /\ accounts' = [accounts EXCEPT ![call.token] = acc]
      /\ calls' = [calls EXCEPT ![slot] = Idle]
      /\ UNCHANGED << balance, payouts >>
  BY <1>1 DEF FtResolveTransfer, vars
<1>3. /\ call.token \in Tokens /\ call.sender # OracleAccount
      /\ OracleAccount \in DOMAIN held /\ Token!IsAccounts(held, Holders)
  BY <1>1, CallFields, RequestAssumption, OracleTokensAssumption
     DEF FlowInv, TokensInv, AccountsOK
<1> HIDE DEF held, back
<1>4. /\ DOMAIN acc = DOMAIN held
      /\ acc[OracleAccount] = held[OracleAccount] - back
      /\ held[OracleAccount] \in Nat
  <2> HIDE DEF call
  <2>1. /\ OracleAccount \in DOMAIN held /\ Token!IsAccounts(held, Holders)
        /\ call.sender # OracleAccount /\ back \in Nat /\ back <= held[OracleAccount]
    BY <1>1, <1>3
  <2> DEFINE sender == call.sender
  <2> HIDE DEF sender
  <2>2. /\ DOMAIN Token!AfterRefund(held, sender, OracleAccount, back) = DOMAIN held
        /\ Token!AfterRefund(held, sender, OracleAccount, back)[OracleAccount]
             = held[OracleAccount] - back
        /\ sender \in DOMAIN held =>
             Token!AfterRefund(held, sender, OracleAccount, back)[sender] = held[sender] + back
        /\ held[OracleAccount] \in Nat
    BY ONLY <2>1, RefundMoves DEF sender
  <2>3. QED
    BY <2>2 DEF sender
<1> HIDE DEF acc
<1>5. /\ calls \in [Slots -> Call \union {Idle}]
      /\ Idle \in Call \union {Idle}
      /\ IsFiniteSet(InUse(calls))
  BY DEF TokensInv, CallsOK, FlowInv
<1>6. IsFiniteSet(InUse(calls')) /\ IsChainBag(payouts')
  BY <1>2, <1>5, HeldChanged DEF FlowInv
<1>7. \A t \in Tokens : accounts'[t] = IF t = call.token THEN acc ELSE accounts[t]
  BY <1>2 DEF TokensInv, AccountsOK
<1>8. \A t \in Tokens : OracleAccount \in DOMAIN accounts'[t]
  BY <1>3, <1>4, <1>7 DEF FlowInv
<1>9. ASSUME NEW t \in Tokens
      PROVE  /\ accounts'[t][OracleAccount] \in Nat
             /\ balance'[t] \in Nat
             /\ InChains(payouts', t) \in Nat
             /\ HeldInSlots(calls', t) \in Nat
             /\ balance'[t] + InChains(payouts', t) + HeldInSlots(calls', t)
                  + accounts[t][OracleAccount]
                  <= accounts'[t][OracleAccount]
                       + balance[t] + InChains(payouts, t) + HeldInSlots(calls, t)
  <2>1. /\ HeldInSlots(calls', t) = HeldInSlots(calls, t) + Carried(Idle, t) - Carried(call, t)
        /\ HeldInSlots(calls', t) \in Nat
    BY <1>2, <1>5, HeldChanged
  <2>2. InToken(t, call.token, back) \in Nat
    BY <1>1 DEF InToken
  <2>3. Carried(Idle, t) = 0 /\ Carried(call, t) = InToken(t, call.token, back)
    BY <1>1
  <2>4. /\ balance[t] \in Nat
        /\ accounts[t][OracleAccount] \in Nat
        /\ InChains(payouts, t) \in Nat
        /\ HeldInSlots(calls, t) \in Nat
    BY FlowTypes
  <2>5. /\ accounts'[t][OracleAccount] = accounts[t][OracleAccount] - InToken(t, call.token, back)
        /\ accounts'[t][OracleAccount] \in Nat
    BY <1>1, <1>4, <1>7, <2>4 DEF InToken, held
  <2>6. balance' = balance /\ payouts' = payouts
    BY <1>2
  <2> HIDE DEF call
  <2>7. QED
    BY ONLY <2>1, <2>2, <2>3, <2>4, <2>5, <2>6
<1>10. QED
  BY ONLY <1>6, <1>8, <1>9, FlowKept, TokensInv, FlowInv


\* A chain of nothing moves nothing.
LEMMA InNoChain == ASSUME NEW t PROVE InChain(t, << >>) = 0
<1> DEFINE m == [i \in DOMAIN << >> |-> InToken(t, << >>[i].token, << >>[i].amount)]
<1>1. InChain(t, << >>) = Total(m, DOMAIN << >>)
  BY DEF InChain, Total, MapThenSumSet, MapThenFoldSet
<1>2. DOMAIN << >> = {}
  OBVIOUS
<1> HIDE DEF m
<1>3. QED
  BY <1>1, <1>2, TotalEmpty

\* An order: what it moves is no longer counted on.
LEMMA OrderCovered ==
  ASSUME TokensInv, FlowInv, NEW chain, chain = << >> \/ IsChain(chain), Order(chain),
         \A t \in Tokens : balance'[t] \in Nat /\ balance'[t] + InChain(t, chain) = balance[t]
  PROVE  FlowInv'
<1>1. UNCHANGED << accounts, calls >>
  BY DEF Order
<1>2. /\ IsChainBag(payouts')
      /\ \A t : InChain(t, chain) \in Nat
      /\ \A t \in Tokens : InChains(payouts', t) = InChains(payouts, t) + InChain(t, chain)
  <2>1. CASE chain = << >>
    <3>1. payouts' = payouts
      BY <2>1 DEF Order
    <3>2. \A t : InChain(t, chain) = 0
      BY <2>1, InNoChain
    <3>3. \A t \in Tokens : InChains(payouts, t) \in Nat
      BY FlowTypes
    <3>4. QED
      BY <3>1, <3>2, <3>3 DEF FlowInv
  <2>2. CASE IsChain(chain) /\ chain # << >>
    <3>1. payouts' = payouts (+) SetToBag({chain})
      BY <2>2 DEF Order
    <3>2. IsChainBag(payouts)
      BY DEF FlowInv
    <3>3. QED
      BY <2>2, <3>1, <3>2, ChainOrdered, ChainCases
  <2>3. QED
    BY <2>1, <2>2
<1>3. IsFiniteSet(InUse(calls')) /\ \A t \in Tokens : OracleAccount \in DOMAIN accounts'[t]
  BY <1>1 DEF FlowInv
<1>4. ASSUME NEW t \in Tokens
      PROVE  /\ accounts'[t][OracleAccount] \in Nat
             /\ balance'[t] \in Nat
             /\ InChains(payouts', t) \in Nat
             /\ HeldInSlots(calls', t) \in Nat
             /\ balance'[t] + InChains(payouts', t) + HeldInSlots(calls', t)
                  + accounts[t][OracleAccount]
                  <= accounts'[t][OracleAccount]
                       + balance[t] + InChains(payouts, t) + HeldInSlots(calls, t)
  <2>1. /\ InChain(t, chain) \in Nat
        /\ InChains(payouts', t) = InChains(payouts, t) + InChain(t, chain)
        /\ balance'[t] \in Nat /\ balance'[t] + InChain(t, chain) = balance[t]
    BY <1>2
  <2>2. /\ balance[t] \in Nat
        /\ accounts[t][OracleAccount] \in Nat
        /\ InChains(payouts, t) \in Nat
        /\ HeldInSlots(calls, t) \in Nat
    BY FlowTypes
  <2>3. accounts' = accounts /\ calls' = calls
    BY <1>1
  <2>4. QED
    BY ONLY <2>1, <2>2, <2>3
<1>5. QED
  BY ONLY <1>2, <1>3, <1>4, FlowKept, TokensInv, FlowInv

\* A handler that orders nothing and counts on nothing else.
LEMMA NoOrderCovered ==
  ASSUME TokensInv, FlowInv, Order(<< >>), balance' = balance
  PROVE  FlowInv'
<1>1. \A t \in Tokens :
        balance'[t] \in Nat /\ balance'[t] + InChain(t, << >>) = balance[t]
  BY InNoChain, FlowTypes
<1>2. QED
  BY <1>1, OrderCovered

\* dr_unstake
LEMMA OrderUnstakeCovered ==
  ASSUME TokensInv, FlowInv, StakesAddUp, Solvent, TokensInv',
         NEW id \in DOMAIN data_requests, NEW sender \in Stakers,
         NEW round \in DOMAIN data_requests[id].resolution_windows,
         NEW outcome \in Outcomes, NEW amount \in StakeAmounts,
         OrderUnstake(sender, id, round, outcome, amount)
  PROVE  FlowInv'
<1> DEFINE st       == ConfigOf(data_requests[id]).stake_token
           transfer == Transfer(st, sender, amount)
<1>1. DrUnstake(sender, id, round, outcome, amount, TRUE) /\ Order(<< transfer >>)
  BY DEF OrderUnstake
<1>2. st \in Tokens /\ sender \in Accounts /\ amount \in Nat
  BY PayeeFacts, RequestAssumption, OracleAssumption
<1>3. \A t \in Tokens : balance'[t] + InToken(t, st, amount) = balance[t]
  <2>1. PICK succeeds \in TransferResults : succeeds = TRUE
    BY OracleTokensAssumption
  <2>2. DrUnstake(sender, id, round, outcome, amount, succeeds)
    BY <1>1, <2>1
  <2>3. Inv
    BY DEF TokensInv
  <2>4. QED
    BY <2>1, <2>2, <2>3, DrUnstakeKeepsMoney
<1>4. /\ transfer \in Payout /\ transfer.token = st /\ transfer.amount = amount
  BY <1>2 DEF Transfer, Payout
<1> HIDE DEF transfer
<1>5. IsChain(<< transfer >>) /\ \A t : InChain(t, << transfer >>) = InToken(t, st, amount)
  BY <1>4, InChainSum
<1>6. \A t \in Tokens : balance'[t] \in Nat
  BY DEF TokensInv, Inv, TypeOK
<1>7. \A t \in Tokens : balance'[t] + InChain(t, << transfer >>) = balance[t]
  BY <1>3, <1>5
<1>8. QED
  BY <1>1, <1>5, <1>6, <1>7, OrderCovered

\* return_validity_bond, in dr_finalize and dr_final_arbitrator_finalize.
LEMMA OrderBondCovered ==
  ASSUME TokensInv, FlowInv, Solvent, TokensInv', NEW id \in DOMAIN data_requests,
         IsActive(data_requests[id]), NEW outcome \in Outcomes,
         balance' = BondReturned(data_requests[id], outcome, TRUE),
         Order(BondTransfers(data_requests[id], outcome))
  PROVE  FlowInv'
<1> DEFINE dr       == data_requests[id]
           bond     == dr.request_config.validity_bond
           pt       == ConfigOf(dr).payment_token
           transfer == Transfer(pt, dr.requester, bond)
<1>1. CASE outcome = Invalid
  BY <1>1, NoOrderCovered DEF BondTransfers, BondReturned, ReturnsValidityBond
<1>2. CASE outcome # Invalid
  <2>1. Order(<< transfer >>) /\ balance' = Paid(balance, pt, bond, TRUE)
    BY <1>2 DEF BondTransfers, BondReturned, ReturnsValidityBond
  <2>2. pt \in Tokens /\ dr.requester \in Accounts /\ bond \in Nat /\ balance \in [Tokens -> Nat]
    BY PayeeFacts DEF TokensInv, Inv, TypeOK
  <2>3. bond <= balance[pt]
    BY BondIsThere DEF TokensInv
  <2>4. \A t \in Tokens : balance'[t] + InToken(t, pt, bond) = balance[t]
    <3> HIDE DEF dr, bond, pt
    <3>1. PICK succeeds \in BOOLEAN : succeeds = TRUE
      OBVIOUS
    <3>2. balance' = Paid(balance, pt, bond, succeeds)
      BY <2>1, <3>1
    <3>3. ASSUME NEW t \in Tokens
          PROVE  /\ balance[t] <= Paid(balance, pt, bond, succeeds)[t] + InToken(t, pt, bond)
                 /\ succeeds /\ bond <= balance[pt] =>
                      Paid(balance, pt, bond, succeeds)[t] + InToken(t, pt, bond) = balance[t]
      BY ONLY <2>2, PaidBounds
    <3>4. QED
      BY <2>3, <3>1, <3>2, <3>3
  <2>5. transfer \in Payout /\ transfer.token = pt /\ transfer.amount = bond
    BY <2>2 DEF Transfer, Payout
  <2> HIDE DEF transfer
  <2>6. IsChain(<< transfer >>) /\ \A t : InChain(t, << transfer >>) = InToken(t, pt, bond)
    BY <2>5, InChainSum
  <2>7. \A t \in Tokens : balance'[t] \in Nat
    BY DEF TokensInv, Inv, TypeOK
  <2>8. \A t \in Tokens : balance'[t] + InChain(t, << transfer >>) = balance[t]
    BY <2>4, <2>6
  <2>9. QED
    BY <2>1, <2>6, <2>7, <2>8, OrderCovered
<1>3. QED
  BY <1>1, <1>2


\* A transfer of something is ordered, one of nothing is not.
LEMMA ClaimChain ==
  ASSUME NEW a \in Payout, NEW b \in Payout, a.amount > 0 \/ b.amount > 0
  PROVE  /\ IsChain(IfAny(a) \o IfAny(b))
         /\ \A t : InChain(t, IfAny(a) \o IfAny(b))
                     = InToken(t, a.token, a.amount) + InToken(t, b.token, b.amount)
<1>1. /\ \A t : InToken(t, a.token, 0) = 0 /\ InToken(t, b.token, 0) = 0
      /\ \A t : InToken(t, a.token, a.amount) \in Nat /\ InToken(t, b.token, b.amount) \in Nat
      /\ a.amount \in Nat /\ b.amount \in Nat
  BY PayoutFields DEF InToken
<1>2. CASE a.amount > 0 /\ b.amount > 0
  <2>1. IfAny(a) \o IfAny(b) = << a, b >>
    <3>1. IfAny(a) = << a >> /\ IfAny(b) = << b >>
      BY <1>2 DEF IfAny
    <3>2. << a >> \o << b >> = << a, b >>
      <4> DEFINE c == << a >> \o << b >>
      <4>1. << a >> \in Seq({a, b}) /\ << b >> \in Seq({a, b})
        OBVIOUS
      <4>2. c \in Seq({a, b}) /\ Len(c) = 2 /\ c[1] = a /\ c[2] = b
        BY <4>1
      <4> HIDE DEF c
      <4>3. c = << a, b >>
        BY <4>2
      <4>4. QED
        BY <4>3 DEF c
    <3>3. QED
      BY <3>1, <3>2
  <2>2. QED
    BY <2>1, InChainSum
<1>3. CASE a.amount > 0 /\ b.amount = 0
  <2>1. IfAny(a) \o IfAny(b) = << a >>
    BY <1>3 DEF IfAny
  <2>2. \A t : InToken(t, b.token, b.amount) = 0
    BY <1>1, <1>3
  <2>3. QED
    BY <1>1, <2>1, <2>2, InChainSum
<1>4. CASE a.amount = 0 /\ b.amount > 0
  <2>1. IfAny(a) \o IfAny(b) = << b >>
    BY <1>4 DEF IfAny
  <2>2. \A t : InToken(t, a.token, a.amount) = 0
    BY <1>1, <1>4
  <2>3. QED
    BY <1>1, <2>1, <2>2, InChainSum
<1>5. QED
  BY <1>1, <1>2, <1>3, <1>4

\* dr_claim: both transfers of its chain are covered, also of one token.
LEMMA OrderClaimCovered ==
  ASSUME TokensInv, FlowInv, StakesAddUp, Solvent, TokensInv',
         NEW id \in DOMAIN data_requests, NEW account \in Stakers, OrderClaim(account, id)
  PROVE  FlowInv'
<1> DEFINE dr      == data_requests[id]
           st      == ConfigOf(dr).stake_token
           pt      == ConfigOf(dr).payment_token
           stake   == StakePayout(dr, account)
           payment == PaymentPayout(dr, account)
           first   == Transfer(st, account, stake)
           second  == Transfer(pt, account, payment)
           chain   == ClaimTransfers(dr, account)
<1>1. DrClaim(account, id, TRUE, TRUE) /\ Order(chain)
  BY DEF OrderClaim
<1>2. stake \in Nat /\ payment \in Nat /\ (stake > 0 \/ payment > 0)
  <2>1. stake \in 0 .. MaxBalance /\ payment \in 0 .. MaxBalance
    BY <1>1 DEF DrClaim
  <2>2. stake > 0 \/ payment > 0
    BY <1>1 DEF DrClaim
  <2>3. QED
    BY <2>1, <2>2, WindowAssumption
<1>3. st \in Tokens /\ pt \in Tokens /\ account \in Accounts
  BY PayeeFacts, RequestAssumption
<1>4. \A t \in Tokens :
        balance'[t] + InToken(t, st, stake) + InToken(t, pt, payment) = balance[t]
  <2>1. PICK succeeds \in TransferResults : succeeds = TRUE
    BY OracleTokensAssumption
  <2>2. DrClaim(account, id, succeeds, succeeds)
    BY <1>1, <2>1
  <2>3. Inv
    BY DEF TokensInv
  <2>4. QED
    BY <2>1, <2>2, <2>3, DrClaimKeepsMoney
<1>5. chain = IfAny(first) \o IfAny(second)
  BY DEF ClaimTransfers
<1> HIDE DEF stake, payment
<1>6. /\ first \in Payout /\ first.token = st /\ first.amount = stake
      /\ second \in Payout /\ second.token = pt /\ second.amount = payment
  BY <1>2, <1>3 DEF Transfer, Payout
<1> HIDE DEF first, second, chain
<1>7. /\ IsChain(chain)
      /\ \A t : InChain(t, chain) = InToken(t, st, stake) + InToken(t, pt, payment)
  BY <1>2, <1>5, <1>6, ClaimChain
<1>8. \A t \in Tokens : balance'[t] \in Nat
  BY DEF TokensInv, Inv, TypeOK
<1>9. \A t \in Tokens : balance'[t] + InChain(t, chain) = balance[t]
  <2>1. \A t \in Tokens : InToken(t, st, stake) \in Nat /\ InToken(t, pt, payment) \in Nat
    BY <1>2 DEF InToken
  <2> HIDE DEF dr, st, pt
  <2>2. QED
    BY <1>4, <1>7, <1>8, <2>1
<1>10. QED
  BY <1>1, <1>7, <1>8, <1>9, OrderCovered

\* A chain without its first transfer.
LEMMA FirstOfChain ==
  ASSUME NEW chain, IsChain(chain)
  PROVE  /\ Head(chain) \in Payout
         /\ Tail(chain) # << >> => IsChain(Tail(chain))
         /\ \A t : InChain(t, chain)
                     = InToken(t, Head(chain).token, Head(chain).amount) + InChain(t, Tail(chain))
<1>1. ASSUME NEW a \in Payout, chain = << a >>
      PROVE  Head(chain) = a /\ Tail(chain) = << >>
  BY <1>1
<1>2. ASSUME NEW a \in Payout, NEW b \in Payout, chain = << a, b >>
      PROVE  Head(chain) = a /\ Tail(chain) = << b >>
  BY <1>2
<1>3. ASSUME NEW a \in Payout, chain = << a >>, NEW t
      PROVE  InChain(t, chain) = InToken(t, a.token, a.amount) + InChain(t, << >>)
  <2>1. InChain(t, << a >>) = InToken(t, a.token, a.amount)
    BY InChainSum
  <2>2. InToken(t, a.token, a.amount) \in Nat /\ InChain(t, << >>) = 0
    BY PayoutFields, InNoChain
  <2>3. QED
    BY <1>3, <2>1, <2>2
<1>4. ASSUME NEW a \in Payout, NEW b \in Payout, chain = << a, b >>, NEW t
      PROVE  InChain(t, chain) = InToken(t, a.token, a.amount) + InChain(t, << b >>)
  BY <1>4, InChainSum
<1>5. \A b \in Payout : IsChain(<< b >>)
  BY InChainSum
<1>6. CASE \E a \in Payout : chain = << a >>
  <2>1. PICK a \in Payout : chain = << a >>
    BY <1>6
  <2>2. Head(chain) = a /\ Tail(chain) = << >>
    BY <1>1, <2>1
  <2>3. \A t : InChain(t, chain) = InToken(t, a.token, a.amount) + InChain(t, << >>)
    BY <1>3, <2>1
  <2>4. QED
    BY <2>2, <2>3
<1>7. CASE \E a, b \in Payout : chain = << a, b >>
  <2>1. PICK a \in Payout, b \in Payout : chain = << a, b >>
    BY <1>7
  <2>2. Head(chain) = a /\ Tail(chain) = << b >>
    BY <1>2, <2>1
  <2>3. \A t : InChain(t, chain) = InToken(t, a.token, a.amount) + InChain(t, << b >>)
    BY <1>4, <2>1
  <2>4. QED
    BY <1>5, <2>2, <2>3
<1>8. QED
  BY <1>6, <1>7 DEF IsChain

\* ft_transfer runs: what leaves the account had been ordered.
LEMMA FtTransferCovered ==
  ASSUME TokensInv, FlowInv, NEW chain \in BagToSet(payouts), FtTransfer(chain)
  PROVE  FlowInv'
<1> DEFINE transfer == Head(chain)
           tok      == transfer.token
           n        == transfer.amount
           held     == accounts[tok]
           acc      == Token!Transferred(held, OracleAccount, transfer.receiver, n)
           taken    == payouts (-) SetToBag({chain})
           rest     == IF Tail(chain) = << >> THEN EmptyBag ELSE SetToBag({Tail(chain)})
<1>1. IsChainBag(payouts) /\ chain \in DOMAIN payouts
  BY DEF FlowInv, BagToSet
<1>2. IsChain(chain)
  BY <1>1 DEF IsChainBag
<1>3. /\ transfer \in Payout
      /\ Tail(chain) # << >> => IsChain(Tail(chain))
      /\ \A t : InChain(t, chain) = InToken(t, tok, n) + InChain(t, Tail(chain))
  BY <1>2, FirstOfChain
<1>4. tok \in Tokens /\ n \in Nat /\ \A t : InToken(t, tok, n) \in Nat
  BY <1>3, PayoutFields
<1>5. /\ payouts' = taken (+) rest
      /\ UNCHANGED << balance, calls >>
      /\ accounts' = IF Token!CanTransfer(held, OracleAccount, transfer.receiver, n)
                       THEN [accounts EXCEPT ![tok] = acc] ELSE accounts
  BY DEF FtTransfer, vars
<1>6. /\ IsChainBag(taken)
      /\ \A t : InChains(payouts, t) = InChains(taken, t) + InChain(t, chain)
  BY <1>1, ChainTaken
<1> HIDE DEF taken
<1>7. /\ IsChainBag(payouts')
      /\ \A t : InChains(payouts', t) = InChains(taken, t) + InChain(t, Tail(chain))
  <2>1. CASE Tail(chain) = << >>
    <3>1. payouts' = taken
      BY <1>5, <1>6, <2>1 DEF (+), EmptyBag, SetToBag, IsChainBag
    <3>2. \A t : InChain(t, Tail(chain)) = 0 /\ InChains(taken, t) \in Nat
      BY <1>6, <2>1, InNoChain, InChainsType
    <3>3. QED
      BY <1>6, <3>1, <3>2
  <2>2. CASE Tail(chain) # << >>
    <3>1. payouts' = taken (+) SetToBag({Tail(chain)})
      BY <1>5, <2>2
    <3>2. QED
      BY <1>3, <1>6, <2>2, <3>1, ChainOrdered
  <2>3. QED
    BY <2>1, <2>2
<1>8. IsFiniteSet(InUse(calls'))
  BY <1>5 DEF FlowInv
<1>9. Token!IsAccounts(held, Holders) /\ OracleAccount \in DOMAIN held
  BY <1>4 DEF TokensInv, AccountsOK, FlowInv
<1> HIDE DEF transfer, rest
<1>10. \A t \in Tokens :
         /\ OracleAccount \in DOMAIN accounts'[t]
         /\ accounts'[t][OracleAccount] \in Nat
         /\ accounts[t][OracleAccount] <= accounts'[t][OracleAccount] + InToken(t, tok, n)
  <2>1. \A t \in Tokens : /\ OracleAccount \in DOMAIN accounts[t]
                          /\ accounts[t][OracleAccount] \in Nat
    BY FlowTypes DEF FlowInv
  <2>2. CASE Token!CanTransfer(held, OracleAccount, transfer.receiver, n)
    <3>1. /\ DOMAIN acc = DOMAIN held
          /\ acc[OracleAccount] = held[OracleAccount] - n
          /\ n <= held[OracleAccount]
      BY <1>4, <1>9, <2>2, TransferMoves
    <3> HIDE DEF acc
    <3>2. \A t \in Tokens : accounts'[t] = IF t = tok THEN acc ELSE accounts[t]
      BY <1>5, <2>2 DEF TokensInv, AccountsOK
    <3>3. QED
      BY <1>4, <1>9, <2>1, <3>1, <3>2 DEF InToken
  <2>3. CASE ~Token!CanTransfer(held, OracleAccount, transfer.receiver, n)
    <3>1. accounts' = accounts
      BY <1>5, <2>3
    <3>2. QED
      BY <1>4, <2>1, <3>1
  <2>4. QED
    BY <2>2, <2>3
<1>11. ASSUME NEW t \in Tokens
       PROVE  /\ accounts'[t][OracleAccount] \in Nat
              /\ balance'[t] \in Nat
              /\ InChains(payouts', t) \in Nat
              /\ HeldInSlots(calls', t) \in Nat
              /\ balance'[t] + InChains(payouts', t) + HeldInSlots(calls', t)
                   + accounts[t][OracleAccount]
                   <= accounts'[t][OracleAccount]
                        + balance[t] + InChains(payouts, t) + HeldInSlots(calls, t)
  <2>1. InChains(payouts', t) \in Nat /\ InChains(taken, t) \in Nat
    BY <1>6, <1>7, InChainsType
  <2>2. InChain(t, Tail(chain)) \in Nat
    <3>1. CASE Tail(chain) = << >>
      <4>1. \A last : last = << >> => InChain(t, last) = 0
        BY ONLY InNoChain
      <4>2. InChain(t, Tail(chain)) = 0
        BY ONLY <3>1, <4>1
      <4>3. QED
        BY ONLY <4>2
    <3>2. CASE Tail(chain) # << >>
      <4>1. IsChain(Tail(chain))
        BY <1>3, <3>2
      <4>2. QED
        BY ONLY <4>1, ChainCases
    <3>3. QED
      BY <3>1, <3>2
  <2>3. InChains(payouts, t) = InChains(payouts', t) + InToken(t, tok, n)
    <3>1. /\ InChains(payouts, t) = InChains(taken, t) + InChain(t, chain)
          /\ InChains(payouts', t) = InChains(taken, t) + InChain(t, Tail(chain))
          /\ InChain(t, chain) = InToken(t, tok, n) + InChain(t, Tail(chain))
          /\ InToken(t, tok, n) \in Nat
      BY <1>3, <1>4, <1>6, <1>7
    <3>2. QED
      BY ONLY <2>1, <2>2, <3>1
  <2>4. /\ accounts'[t][OracleAccount] \in Nat
        /\ accounts[t][OracleAccount] <= accounts'[t][OracleAccount] + InToken(t, tok, n)
        /\ InToken(t, tok, n) \in Nat
    BY <1>4, <1>10
  <2>5. /\ balance[t] \in Nat
        /\ accounts[t][OracleAccount] \in Nat
        /\ InChains(payouts, t) \in Nat
        /\ HeldInSlots(calls, t) \in Nat
    BY FlowTypes
  <2>6. balance' = balance /\ calls' = calls
    BY <1>5
  <2>7. QED
    BY ONLY <2>1, <2>3, <2>4, <2>5, <2>6
<1>12. \A t \in Tokens : OracleAccount \in DOMAIN accounts'[t]
  BY <1>10
<1>13. QED
  BY ONLY <1>7, <1>8, <1>11, <1>12, FlowKept, TokensInv, FlowInv


\* storage_deposit and storage_withdraw of another account.
LEMMA RegisterCovered ==
  ASSUME TokensInv, FlowInv, NEW token \in Tokens, NEW user \in Stakers,
         Register(token, user) \/ Unregister(token, user)
  PROVE  FlowInv'
<1> DEFINE acc == accounts[token]
<1>1. user # OracleAccount
  BY RequestAssumption, OracleTokensAssumption
<1>2. UNCHANGED << balance, calls, payouts >>
  BY DEF Register, Unregister, vars
<1>3. /\ OracleAccount \in DOMAIN acc
      /\ DOMAIN accounts = Tokens
  BY DEF FlowInv, TokensInv, AccountsOK
<1>4. /\ OracleAccount \in DOMAIN accounts'[token]
      /\ accounts'[token][OracleAccount] = acc[OracleAccount]
      /\ \A t \in Tokens \ {token} : accounts'[t] = accounts[t]
  <2>1. CASE Register(token, user)
    <3>1. accounts' = [accounts EXCEPT ![token] = Token!Registered(acc, user)]
      BY <2>1 DEF Register
    <3>2. QED
      BY <1>1, <1>3, <3>1 DEF Token!Registered
  <2>2. CASE Unregister(token, user)
    <3>1. accounts' = [accounts EXCEPT ![token] = Token!Unregistered(acc, user)]
      BY <2>2 DEF Unregister
    <3>2. QED
      BY <1>1, <1>3, <3>1 DEF Token!Unregistered
  <2>3. QED
    BY <2>1, <2>2
<1>5. \A t \in Tokens :
        /\ OracleAccount \in DOMAIN accounts'[t]
        /\ accounts'[t][OracleAccount] = accounts[t][OracleAccount]
        /\ balance'[t] = balance[t]
  BY <1>2, <1>4 DEF FlowInv
<1>6. QED
  BY <1>2, <1>5, FlowSame

\* Each step keeps the receipts covered.
LEMMA FlowStep ==
  ASSUME TokensInv, FlowInv, StakesAddUp, Solvent, TokensInv', [TokensNext]_allVars
  PROVE  FlowInv'
<1>1. CASE CallsNext
  BY <1>1, FtTransferCallCovered, OnTransferNewCovered, OnTransferStakeCovered,
     OnTransferPanicsCovered, FtResolveTransferCovered DEF CallsNext
<1>2. CASE HandlersNext
  <2>1. ASSUME NEW id \in DOMAIN data_requests, OrderFinalize(id)
        PROVE  FlowInv'
    <3> DEFINE outcome == FinalOutcome(data_requests[id])
    <3>1. DrFinalize(id, TRUE) /\ Order(BondTransfers(data_requests[id], outcome))
      BY <2>1 DEF OrderFinalize
    <3>2. outcome \in Outcomes
      <4>1. Inv
        BY DEF TokensInv
      <4>2. PICK succeeds \in TransferResults : succeeds = TRUE
        BY OracleTokensAssumption
      <4>3. DrFinalize(id, succeeds)
        BY <3>1, <4>2
      <4>4. QED
        BY <4>1, <4>3, FinalOutcomeIsOutcome
    <3>3. IsActive(data_requests[id]) /\ balance' = BondReturned(data_requests[id], outcome, TRUE)
      BY <3>1 DEF DrFinalize, Decide
    <3> HIDE DEF outcome
    <3>4. QED
      BY <3>1, <3>2, <3>3, OrderBondCovered
  <2>2. ASSUME NEW id \in DOMAIN data_requests, NEW caller \in Accounts, NEW outcome \in Outcomes,
               OrderArbitratorFinalize(caller, id, outcome)
        PROVE  FlowInv'
    <3>1. /\ DrFinalArbitratorFinalize(caller, id, outcome, TRUE)
          /\ Order(BondTransfers(data_requests[id], outcome))
      BY <2>2 DEF OrderArbitratorFinalize
    <3>2. IsActive(data_requests[id]) /\ balance' = BondReturned(data_requests[id], outcome, TRUE)
      BY <3>1 DEF DrFinalArbitratorFinalize, Decide
    <3>3. QED
      BY <3>1, <3>2, OrderBondCovered
  <2>3. ASSUME NEW id \in DOMAIN data_requests, NEW caller \in Accounts, NEW outcome \in Outcomes,
               DrFinalizeByProvider(caller, id, outcome), Order(<< >>)
        PROVE  FlowInv'
    BY <2>3, NoOrderCovered DEF DrFinalizeByProvider
  <2>4. CASE Tick /\ Order(<< >>)
    BY <2>4, NoOrderCovered DEF Tick
  <2>5. QED
    BY <1>2, <2>1, <2>2, <2>3, <2>4, OrderUnstakeCovered, OrderClaimCovered DEF HandlersNext
<1>3. CASE \E chain \in BagToSet(payouts) : FtTransfer(chain)
  BY <1>3, FtTransferCovered
<1>4. CASE \E token \in Tokens, user \in Stakers : Register(token, user) \/ Unregister(token, user)
  BY <1>4, RegisterCovered
<1>5. CASE UNCHANGED allVars
  <2>1. UNCHANGED << balance, accounts, calls, payouts >>
    BY <1>5 DEF allVars, vars, tokenVars
  <2>2. QED
    BY <2>1, FlowSame DEF FlowInv
<1>6. QED
  BY <1>1, <1>2, <1>3, <1>4, <1>5 DEF TokensNext

\* At first nothing is under way, and the oracle has joined every token.
LEMMA FlowStart ==
  ASSUME Init, TokensInit
  PROVE  FlowInv
<1>1. PICK held \in InitialBalances :
        accounts = [t \in Tokens |-> [a \in Holders |-> IF a = OracleAccount THEN 0 ELSE held[a]]]
  BY DEF TokensInit
<1>2. \A t \in Tokens : OracleAccount \in DOMAIN accounts[t] /\ accounts[t][OracleAccount] = 0
  BY <1>1 DEF Holders
<1>3. InUse(calls) = {} /\ \A t : InUseFor(calls, t) = {}
  BY DEF TokensInit, InUse, InUseFor
<1>4. payouts = EmptyBag /\ DOMAIN payouts = {}
  BY DEF TokensInit, EmptyBag, SetToBag
<1>5. IsChainBag(payouts)
  BY <1>4, FS_EmptySet DEF IsChainBag, EmptyBag, SetToBag
<1>6. ASSUME NEW t \in Tokens
      PROVE  balance[t] + Ordered(t) + InSlots(t, Returnable) <= accounts[t][OracleAccount]
  <2>1. InChains(payouts, t) = 0 /\ HeldInSlots(calls, t) = 0
    BY <1>3, <1>4, TotalEmpty DEF InChains, HeldInSlots
  <2>2. Ordered(t) = 0 /\ InSlots(t, Returnable) = 0
    BY <2>1, OrderedInState, HeldInState
  <2>3. balance[t] = 0
    BY DEF Init
  <2>4. QED
    BY <1>2, <2>2, <2>3
<1>7. QED
  BY <1>2, <1>3, <1>5, <1>6, FS_EmptySet DEF FlowInv, Covered

---------------------------------------------------------------------------
(***************************************************************************)
(* What senders get back                                                   *)
(***************************************************************************)

\* A call that is answered stays under way.
LEMMA AnswerKeepsCall ==
  ASSUME TokensInv, NEW slot \in Slots, Waits(slot), NEW result \in Nat \union {Failed},
         Answer(slot, result), NEW other \in Slots, calls[other] # Idle
  PROVE  calls'[other] # Idle
<1> DEFINE call == [calls[slot] EXCEPT !.result = result]
<1>1. calls[slot] \in Call
  BY CallFields DEF Waits
<1>2. call \in Call
  BY <1>1 DEF Call
<1>3. call # Idle
  BY <1>2, OracleTokensAssumption
<1>4. calls' = [calls EXCEPT ![slot] = call] /\ DOMAIN calls = Slots
  BY DEF Answer, TokensInv, CallsOK
<1> HIDE DEF call
<1>5. QED
  BY <1>3, <1>4

\* Only ft_resolve_transfer ends a call.
LEMMA CallEnds ==
  ASSUME TokensInv, [TokensNext]_allVars, NEW slot \in Slots, calls[slot] # Idle,
         calls'[slot] = Idle
  PROVE  FtResolveTransfer(slot)
<1>1. calls' # calls
  OBVIOUS
<1>2. CallsNext
  <2>1. ASSUME NEW chain, Order(chain)
        PROVE  FALSE
    BY <1>1, <2>1 DEF Order
  <2>2. ~HandlersNext
    BY <2>1 DEF HandlersNext, OrderUnstake, OrderFinalize, OrderArbitratorFinalize, OrderClaim
  <2>3. ~ \E chain \in BagToSet(payouts) : FtTransfer(chain)
    BY <1>1 DEF FtTransfer
  <2>4. ~ \E token \in Tokens, user \in Stakers : Register(token, user) \/ Unregister(token, user)
    BY <1>1 DEF Register, Unregister
  <2>5. ~ UNCHANGED allVars
    BY <1>1 DEF allVars, tokenVars
  <2>6. QED
    BY <2>2, <2>3, <2>4, <2>5 DEF TokensNext
<1>3. PICK used \in Slots :
        \/ \E token \in Tokens, sender \in Stakers, amount \in StakeAmounts :
             FtTransferCall(used, token, sender, amount)
        \/ \E payload \in Payloads : OnTransferNew(used, payload)
        \/ \E id \in DOMAIN data_requests, outcome \in Outcomes : OnTransferStake(used, id, outcome)
        \/ OnTransferPanics(used)
        \/ FtResolveTransfer(used)
  BY <1>2 DEF CallsNext
<1>4. ASSUME NEW token \in Tokens, NEW sender \in Stakers, NEW amount \in StakeAmounts,
             FtTransferCall(used, token, sender, amount)
      PROVE  FALSE
  <2>1. used # slot
    BY <1>4 DEF FtTransferCall
  <2>2. calls'[slot] = calls[slot]
    BY <1>4, <2>1 DEF FtTransferCall, TokensInv, CallsOK
  <2>3. QED
    BY <2>2
<1>5. ASSUME NEW payload \in Payloads, OnTransferNew(used, payload)
      PROVE  FALSE
  BY <1>5, AnswerKeepsCall DEF OnTransferNew
<1>6. ASSUME NEW id \in DOMAIN data_requests, NEW outcome \in Outcomes,
             OnTransferStake(used, id, outcome)
      PROVE  FALSE
  <2>1. ReportsUnused(id, outcome, calls[used].amount) \in Nat
    BY <1>6, ReportsAmount
  <2>2. QED
    BY <1>6, <2>1, AnswerKeepsCall DEF OnTransferStake
<1>7. ~OnTransferPanics(used)
  BY AnswerKeepsCall DEF OnTransferPanics
<1>8. FtResolveTransfer(used)
  BY <1>3, <1>4, <1>5, <1>6, <1>7
<1>9. used = slot
  BY <1>8 DEF FtResolveTransfer, TokensInv, CallsOK
<1>10. QED
  BY <1>8, <1>9

\* And it returns all of what was not used.
LEMMA ResolvedInFull ==
  ASSUME TokensInv, FlowInv, NEW slot \in Slots, FtResolveTransfer(slot)
  PROVE  ReturnsInFull(slot)
<1> DEFINE call   == calls[slot]
           sender == calls[slot].sender
           back   == Token!Unused(call.amount, call.result)
           held   == accounts[call.token]
           acc    == Token!AfterRefund(held, sender, OracleAccount, back)
<1>1. /\ call # Idle /\ call.result # Idle
      /\ RefundOf(call) = back /\ back \in Nat /\ back <= held[OracleAccount]
  BY RefundIsThere DEF FtResolveTransfer
<1>2. /\ call.token \in Tokens /\ sender # OracleAccount
      /\ OracleAccount \in DOMAIN held /\ Token!IsAccounts(held, Holders)
  BY <1>1, CallFields, RequestAssumption, OracleTokensAssumption
     DEF FlowInv, TokensInv, AccountsOK
<1>3. accounts' = [accounts EXCEPT ![call.token] = acc]
  BY <1>1 DEF FtResolveTransfer
<1>4. accounts'[call.token] = acc
  BY <1>2, <1>3 DEF TokensInv, AccountsOK
<1> HIDE DEF held, back, sender
<1>5. sender \in DOMAIN held => acc[sender] = held[sender] + back
  BY <1>1, <1>2, RefundMoves
<1>6. QED
  BY <1>4, <1>5 DEF ReturnsInFull, held, back, sender

---------------------------------------------------------------------------
(***************************************************************************)
(* Theorems                                                                *)
(***************************************************************************)

\* The invariant holds whatever receipts are under way.
THEOREM TokensInvariance == TokensSpec => []TokensInv
<1>1. Init /\ TokensInit => TokensInv
  BY TokensStart
<1>2. TokensInv /\ [TokensNext]_allVars => TokensInv'
  BY TokensStep
<1>3. QED
  BY <1>1, <1>2, PTL DEF TokensSpec

(***************************************************************************)
(* With its deposits in three receipts and its payouts in receipts of      *)
(* their own (ft_transfer_call, ft_on_transfer, ft_resolve_transfer and    *)
(* fungible_token_transfer), the oracle still takes the steps of the one   *)
(* that settles within a call, and no others.                              *)
(***************************************************************************)
THEOREM TokensImplementOracle == TokensSpec => Spec
<1>1. TokensInv /\ [TokensNext]_allVars => [Next]_vars
  BY TokensStep
<1>2. QED
  BY <1>1, TokensInvariance, PTL DEF TokensSpec, Spec

(***************************************************************************)
(* No receipt leaves a negative balance behind, at the oracle or at a      *)
(* token, and each carries amounts that were there to be moved.            *)
(***************************************************************************)
THEOREM TokensTypeCorrect == TokensSpec => []TokensTypeOK
<1>1. TokensInv => TokensTypeOK
  BY DEF TokensInv, Inv, CallsOK, AccountsOK, PayoutsOK, TokensTypeOK
<1>2. QED
  BY <1>1, TokensInvariance, PTL

(***************************************************************************)
(* The ladder of windows and the single answer to the requester are as     *)
(* they are without receipts between the contracts.                        *)
(***************************************************************************)
THEOREM TokensKeepLadder == TokensSpec => [](DisputeLadder /\ AnsweredOnce)
<1>1. TokensInv => DisputeLadder /\ AnsweredOnce
  BY DEF TokensInv, Inv
<1>2. QED
  BY <1>1, TokensInvariance, PTL

(***************************************************************************)
(* The oracle's account holds what it counts on, what it has ordered and   *)
(* what it may have to return, however the receipts interleave.            *)
(***************************************************************************)
THEOREM FlowInvariance == TokensSpec => []FlowInv
<1>1. Init /\ TokensInit => FlowInv
  BY FlowStart
<1>2. /\ TokensInv /\ StakesAddUp /\ Solvent /\ [TokensNext]_allVars /\ FlowInv /\ TokensInv'
      => FlowInv'
  BY FlowStep
<1>3. TokensSpec => []StakesAddUp /\ []Solvent
  BY TokensImplementOracle, StakesAlwaysAddUp, AlwaysSolvent
<1>4. QED
  BY <1>1, <1>2, <1>3, TokensInvariance, PTL DEF TokensSpec

(***************************************************************************)
(* The oracle's account covers at once what all requests are owed, every   *)
(* payout ordered and not yet run, and all that may go back to senders.    *)
(***************************************************************************)
THEOREM EverythingAlwaysCovered == TokensSpec => []EverythingCovered
<1>1. TokensInv /\ FlowInv /\ Solvent => EverythingCovered
  <2> SUFFICES ASSUME TokensInv, FlowInv, Solvent, NEW t \in Tokens
               PROVE  Owed(t) + Ordered(t) + InSlots(t, Returnable) <= accounts[t][OracleAccount]
    BY DEF EverythingCovered
  <2>1. Owed(t) \in Nat
    <3>1. AreRequests(data_requests)
      BY DEF TokensInv, Inv, TypeOK, AreRequests
    <3>2. OwedOfAll(configs, data_requests, t) \in Nat
      BY <3>1, SumsType
    <3>3. QED
      BY <3>2, SumsOfRequests
  <2>2. Owed(t) <= balance[t]
    BY DEF Solvent
  <2>3. /\ balance[t] \in Nat
        /\ accounts[t][OracleAccount] \in Nat
        /\ InChains(payouts, t) \in Nat
        /\ HeldInSlots(calls, t) \in Nat
        /\ balance[t] + InChains(payouts, t) + HeldInSlots(calls, t)
             <= accounts[t][OracleAccount]
    BY FlowTypes
  <2>4. Ordered(t) = InChains(payouts, t) /\ InSlots(t, Returnable) = HeldInSlots(calls, t)
    BY OrderedInState, HeldInState
  <2>5. Owed(t) + InChains(payouts, t) + HeldInSlots(calls, t) <= accounts[t][OracleAccount]
    BY ONLY <2>1, <2>2, <2>3
  <2>6. QED
    BY <2>4, <2>5
<1>2. TokensSpec => []Solvent
  BY TokensImplementOracle, AlwaysSolvent
<1>3. QED
  BY <1>1, <1>2, TokensInvariance, FlowInvariance, PTL

(***************************************************************************)
(* ft_resolve_transfer returns all that the oracle left unused or refused, *)
(* although it takes no more than the balance it finds, and nothing else   *)
(* ends a transfer call.                                                   *)
(***************************************************************************)
THEOREM RefundsInFull == TokensSpec => RefundedInFull
<1>1. TokensInv /\ FlowInv /\ [TokensNext]_allVars
      => [\A slot \in Slots : calls[slot] # Idle /\ calls'[slot] = Idle => ReturnsInFull(slot)]_allVars
  BY CallEnds, ResolvedInFull
<1>2. QED
  BY <1>1, TokensInvariance, FlowInvariance, PTL DEF TokensSpec, RefundedInFull
=================================================================================
