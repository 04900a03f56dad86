------------------------------- MODULE OracleTokens -------------------------------
(***************************************************************************)
(* The oracle together with the token contracts: the receipts between them,*)
(* and every interleaving of the handlers with receipts under way.         *)
(*                                                                         *)
(* Tokens come in by ft_transfer_call: the token moves them, the oracle's  *)
(* ft_on_transfer answers in a later block with what it leaves unused, and *)
(* ft_resolve_transfer returns that in a block after.  Tokens go out by    *)
(* promises to call ft_transfer, which the oracle does not await: each is  *)
(* a receipt of its own, and the second transfer of a claim runs after the *)
(* first has run.                                                          *)
(*                                                                         *)
(* Here Oracle's balance is what the oracle counts on: no deposit before   *)
(* ft_on_transfer has taken it, nothing unused, and no payout once it has  *)
(* been ordered (TransferResults is {TRUE}).                               *)
(***************************************************************************)
EXTENDS OracleProperties, Bags

CONSTANTS
  OracleAccount,    \* the oracle's own account
  InitialBalances,  \* the balances the stakers may start with, of each token
  Failed,           \* the result of a call that panics
  Slots,            \* bound: transfer calls under way at a time, one in each slot
  Idle              \* a slot without a call

VARIABLES
  accounts,         \* TokenContract.accounts of each token
  calls,            \* the transfer calls to the oracle under way
  payouts           \* the bag of chains of transfers ordered and not yet run

tokenVars == << accounts, calls, payouts >>
allVars   == << vars, tokenVars >>

Token == INSTANCE FungibleToken

Holders == Stakers \union {OracleAccount}

\* result is Idle until the oracle has answered.
Call   == [token : Tokens, sender : Stakers, amount : Nat, result : Nat \union {Failed, Idle}]
Payout == [token : Tokens, receiver : Accounts, amount : Nat]

ASSUME OracleTokensAssumption ==
  /\ TransferResults = {TRUE}
  /\ Requesters = Stakers
  /\ Payments = StakeAmounts
  /\ OracleAccount \notin Accounts
  /\ InitialBalances \subseteq [Stakers -> Nat]
  /\ Failed \notin Nat
  /\ Idle \notin Nat \union {Failed} \union Call

---------------------------------------------------------------------------
(***************************************************************************)
(* Calls to the oracle                                                     *)
(***************************************************************************)

\* ft_transfer_call to the oracle; its message is chosen when it arrives.
FtTransferCall(slot, token, sender, amount) ==
  /\ calls[slot] = Idle
  /\ Token!CanTransfer(accounts[token], sender, OracleAccount, amount)
  /\ accounts' = [accounts EXCEPT ![token] =
       Token!Transferred(@, sender, OracleAccount, amount)]
  /\ calls' = [calls EXCEPT ![slot] =
       [token |-> token, sender |-> sender, amount |-> amount, result |-> Idle]]
  /\ UNCHANGED << vars, payouts >>

Waits(slot) == calls[slot] # Idle /\ calls[slot].result = Idle

Answer(slot, result) ==
  /\ calls' = [calls EXCEPT ![slot].result = result]
  /\ UNCHANGED << accounts, payouts >>

\* ft_on_transfer with a NewDataRequest
OnTransferNew(slot, payload) ==
  /\ Waits(slot)
  /\ DrNew(calls[slot].token, calls[slot].sender, calls[slot].amount, payload)
  /\ Answer(slot, 0)

\* Mutated form: the oracle reports everything as unused.
ReportsAll(id, outcome, amount) == amount

ReportsUnused(id, outcome, amount) == Unspent(data_requests[id], outcome, amount, now)

\* ft_on_transfer with a StakeDataRequest
OnTransferStake(slot, id, outcome) ==
  /\ Waits(slot)
  /\ DrStake(calls[slot].token, calls[slot].sender, calls[slot].amount, id, outcome)
  /\ Answer(slot, ReportsUnused(id, outcome, calls[slot].amount))

\* A call may always fail: for want of gas or of a storage deposit, or because
\* the message is none of the two.
OnTransferPanics(slot) ==
  /\ Waits(slot)
  /\ Answer(slot, Failed)
  /\ UNCHANGED vars

RefundOf(call) ==
  Token!Refund(accounts[call.token], OracleAccount, call.amount, call.result)

FtResolveTransfer(slot) ==
  LET call == calls[slot]
  IN  /\ call # Idle /\ call.result # Idle
      /\ accounts' = [accounts EXCEPT ![call.token] =
           Token!AfterRefund(@, call.sender, OracleAccount, RefundOf(call))]
      /\ calls' = [calls EXCEPT ![slot] = Idle]
      /\ UNCHANGED << vars, payouts >>

---------------------------------------------------------------------------
(***************************************************************************)
(* Payouts                                                                 *)
(***************************************************************************)

\* fungible_token_transfer, a promise.
Transfer(token, receiver, amount) ==
  [token |-> token, receiver |-> receiver, amount |-> amount]

Order(chain) ==
  /\ payouts' = IF chain = << >> THEN payouts ELSE payouts (+) SetToBag({chain})
  /\ UNCHANGED << accounts, calls >>

OrderUnstake(sender, id, round, outcome, amount) ==
  /\ DrUnstake(sender, id, round, outcome, amount, TRUE)
  /\ Order(<< Transfer(ConfigOf(data_requests[id]).stake_token, sender, amount) >>)

BondTransfers(dr, outcome) ==
  IF ReturnsValidityBond(outcome)
    THEN << Transfer(ConfigOf(dr).payment_token, dr.requester,
                     dr.request_config.validity_bond) >>
    ELSE << >>

OrderFinalize(id) ==
  /\ DrFinalize(id, TRUE)
  /\ Order(BondTransfers(data_requests[id], FinalOutcome(data_requests[id])))

OrderArbitratorFinalize(caller, id, outcome) ==
  /\ DrFinalArbitratorFinalize(caller, id, outcome, TRUE)
  /\ Order(BondTransfers(data_requests[id], outcome))

\* A transfer of nothing is not ordered.
IfAny(transfer) == IF transfer.amount > 0 THEN << transfer >> ELSE << >>

ClaimTransfers(dr, account) ==
  IfAny(Transfer(ConfigOf(dr).stake_token, account, StakePayout(dr, account)))
    \o IfAny(Transfer(ConfigOf(dr).payment_token, account, PaymentPayout(dr, account)))

OrderClaim(account, id) ==
  /\ DrClaim(account, id, TRUE, TRUE)
  /\ Order(ClaimTransfers(data_requests[id], account))

\* The first transfer of a chain runs.  If it fails, the tokens stay where they
\* are; in either case the next one is let go.
FtTransfer(chain) ==
  LET transfer == Head(chain)
      held     == accounts[transfer.token]
      rest     == IF Tail(chain) = << >> THEN EmptyBag ELSE SetToBag({Tail(chain)})
  IN  /\ accounts' =
           IF Token!CanTransfer(held, OracleAccount, transfer.receiver, transfer.amount)
             THEN [accounts EXCEPT ![transfer.token] =
                    Token!Transferred(@, OracleAccount, transfer.receiver, transfer.amount)]
             ELSE accounts
      /\ payouts' = (payouts (-) SetToBag({chain})) (+) rest
      /\ UNCHANGED << vars, calls >>

---------------------------------------------------------------------------
(***************************************************************************)
(* Everything else                                                         *)
(***************************************************************************)

\* storage_deposit and storage_withdraw of the token
Register(token, user) ==
  /\ Token!CanRegister(accounts[token], user)
  /\ accounts' = [accounts EXCEPT ![token] = Token!Registered(@, user)]
  /\ UNCHANGED << vars, calls, payouts >>

Unregister(token, user) ==
  /\ Token!CanUnregister(accounts[token], user)
  /\ accounts' = [accounts EXCEPT ![token] = Token!Unregistered(@, user)]
  /\ UNCHANGED << vars, calls, payouts >>

TokensInit ==
  /\ \E held \in InitialBalances :
       accounts = [t \in Tokens |-> [a \in Holders |-> IF a = OracleAccount THEN 0 ELSE held[a]]]
  /\ calls = [slot \in Slots |-> Idle]
  /\ payouts = EmptyBag

CallsNext ==
  \E slot \in Slots :
    \/ \E token \in Tokens, sender \in Stakers, amount \in StakeAmounts :
         FtTransferCall(slot, token, sender, amount)
    \/ \E payload \in Payloads : OnTransferNew(slot, payload)
    \/ \E id \in DOMAIN data_requests, outcome \in Outcomes : OnTransferStake(slot, id, outcome)
    \/ OnTransferPanics(slot)
    \/ FtResolveTransfer(slot)

\* Governance is left out: a pause or a new configuration does nothing to a
\* receipt under way but make it panic.
HandlersNext ==
  \/ \E id \in DOMAIN data_requests :
       \/ \E sender \in Stakers, round \in DOMAIN data_requests[id].resolution_windows,
             outcome \in Outcomes, amount \in StakeAmounts :
            OrderUnstake(sender, id, round, outcome, amount)
       \/ OrderFinalize(id)
       \/ \E caller \in Accounts, outcome \in Outcomes :
            OrderArbitratorFinalize(caller, id, outcome)
       \/ \E account \in Stakers : OrderClaim(account, id)
       \/ /\ \E caller \in Accounts, outcome \in Outcomes :
               DrFinalizeByProvider(caller, id, outcome)
          /\ Order(<< >>)
  \/ Tick /\ Order(<< >>)

TokensNext ==
  \/ CallsNext
  \/ HandlersNext
  \/ \E chain \in BagToSet(payouts) : FtTransfer(chain)
  \/ \E token \in Tokens, user \in Stakers : Register(token, user) \/ Unregister(token, user)

TokensSpec == Init /\ TokensInit /\ [][TokensNext]_allVars

---------------------------------------------------------------------------
(***************************************************************************)
(* Every variable has the type its declaration in the code gives it.       *)
(***************************************************************************)
TokensTypeOK ==
  /\ TypeOK
  /\ \A t \in Tokens : Token!IsAccounts(accounts[t], Holders)
  /\ calls \in [Slots -> Call \union {Idle}]
  /\ \A chain \in BagToSet(payouts) : chain \in Seq(Payout) /\ chain # << >>

InSlots(token, Amount(_)) ==
  MapThenSumSet(LAMBDA slot : Amount(calls[slot]),
                {slot \in Slots : calls[slot] # Idle /\ calls[slot].token = token})

\* Sent to the oracle and not answered yet, or answered and to be returned.
Returnable(call) ==
  IF call.result = Idle THEN call.amount ELSE Token!Unused(call.amount, call.result)

\* What a chain of transfers moves of a token.
InChain(token, chain) ==
  MapThenSumSet(LAMBDA i : InToken(token, chain[i].token, chain[i].amount), DOMAIN chain)

\* Ordered by the oracle and not yet run.
Ordered(token) ==
  MapThenSumSet(LAMBDA chain : payouts[chain] * InChain(token, chain), BagToSet(payouts))

(***************************************************************************)
(* At every moment the oracle holds enough of each token for all at once:  *)
(* what it owes on its requests, the payouts it has ordered, and whatever  *)
(* part of the transfers under way it has to give back.  So none of them   *)
(* can be paid with tokens another was counting on, although all share one *)
(* balance and run blocks after the state they belong to was written       *)
(* (ft_on_transfer, fungible_token_transfer, ft_resolve_transfer).         *)
(***************************************************************************)
EverythingCovered ==
  \A t \in Tokens :
    Owed(t) + Ordered(t) + InSlots(t, Returnable) <= accounts[t][OracleAccount]

(***************************************************************************)
(* Whoever sends tokens to the oracle gets back all that it did not use or *)
(* that a panic refused, unless they have left the token meanwhile: the    *)
(* callback never finds the oracle's balance spent by the payouts that ran *)
(* since (ft_resolve_transfer takes at most the balance that is left).     *)
(***************************************************************************)
ReturnsInFull(slot) ==
  LET call == calls[slot]
      held == accounts[call.token]
  IN  call.sender \in DOMAIN held =>
        accounts'[call.token][call.sender]
          = held[call.sender] + Token!Unused(call.amount, call.result)

RefundedInFull ==
  [][\A slot \in Slots : calls[slot] # Idle /\ calls'[slot] = Idle => ReturnsInFull(slot)]_allVars
=================================================================================
