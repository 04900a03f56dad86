------------------------------- MODULE OracleStorage -------------------------------
(***************************************************************************)
(* What the oracle charges for storage (oracle/src/storage_manager.rs and  *)
(* refund_storage): every handler of Oracle again, with the entries it     *)
(* writes or frees and the NEAR it takes or pays for them.                 *)
(*                                                                         *)
(* Calls through ft_on_transfer are charged to what the sender deposited.  *)
(* The other handlers measure the storage twice and settle with the caller:*)
(* who must attach what the call adds, and is paid what it frees.          *)
(*                                                                         *)
(* NEAR is counted in units of the price of one byte, and an entry of each *)
(* kind has one size.  The yoctoNEAR attached to a call, and the contract's*)
(* own record, which is written when the handler has returned, are left    *)
(* out.                                                                    *)
(***************************************************************************)
EXTENDS Oracle

CONSTANTS
  Bytes,           \* the size of an entry of each kind
  Deposits,        \* the amounts deposited for storage
  Withdrawals,     \* the amounts withdrawn
  StorageMinimum,  \* STORAGE_MINIMUM_BALANCE
  MaxDeposited     \* bound: what an account has in deposit at a time

VARIABLES
  accounts,        \* Contract.accounts, the storage accounts
  keys,            \* the keys that the LookupMaps of the windows hold
  near             \* the NEAR the contract holds

storageVars == << accounts, keys, near >>
allVars     == << vars, storageVars >>

\* Account ids are of bounded length, so there are finitely many.
ASSUME OracleStorageAssumption ==
  /\ IsFiniteSet(Requesters)
  /\ Bytes \in
       [ request : Nat, final : [Outcomes -> Nat], window : Nat, bonded : Nat,
         outcome : Nat, user : Nat, stake : Nat, config : Nat, requester : Nat ]
  /\ Deposits \subseteq Nat
  /\ Withdrawals \subseteq Nat
  /\ StorageMinimum \in Nat
  /\ MaxDeposited \in Nat

---------------------------------------------------------------------------
(***************************************************************************)
(* env::storage_usage(), but for the storage accounts themselves, whose    *)
(* entries are charged to nobody                                           *)
(***************************************************************************)

WindowBytes(w) == Bytes.window + (IF IsBonded(w) THEN Bytes.bonded ELSE 0)

RequestBytes(dr) ==
  (IF IsActive(dr) THEN Bytes.request ELSE Bytes.final[dr.finalized_outcome])
    + MapThenSumSet(LAMBDA r : WindowBytes(dr.resolution_windows[r]),
                    DOMAIN dr.resolution_windows)

WhitelistBytes ==
  IF whitelist = NoWhitelist THEN 0 ELSE Bytes.requester * Cardinality(DOMAIN whitelist)

Usage ==
  Bytes.config * Len(configs) + WhitelistBytes
    + MapThenSumSet(LAMBDA id : RequestBytes(data_requests[id]), DOMAIN data_requests)
    + Bytes.outcome * Cardinality(keys.outcomes)
    + Bytes.user * Cardinality(keys.users)
    + Bytes.stake * Cardinality(keys.stakes)

\* What a step adds; less than 0 if it frees some.
Growth == Usage' - Usage

---------------------------------------------------------------------------
(***************************************************************************)
(* Settling for it                                                         *)
(***************************************************************************)

NoAccount == [total |-> 0, available |-> 0]

\* get_storage_account
StorageAccount(a) == IF a \in DOMAIN accounts THEN accounts[a] ELSE NoAccount

WithAccount(a, account) ==
  [x \in DOMAIN accounts \union {a} |-> IF x = a THEN account ELSE accounts[x]]

\* Mutated form: the charge is not subtracted.
NotCharged(account, cost) == account

Charged(account, cost) == [account EXCEPT !.available = @ - cost]

\* use_storage
UseStorage(sender) ==
  /\ Growth <= StorageAccount(sender).available
  /\ accounts' = WithAccount(sender, Charged(StorageAccount(sender), Growth))
  /\ UNCHANGED near

\* Mutated form: the caller is not paid for what a call frees.
KeepsWhatIsFreed(growth) == IF growth > 0 THEN near + growth ELSE near

\* What the contract holds after a caller attached enough and was paid the rest.
Settled(growth) == near + growth

\* refund_storage at the end of a payable handler
RefundStorage ==
  /\ near' = Settled(Growth)
  /\ UNCHANGED accounts

\* refund_storage at the end of a handler that takes no deposit
RefundFreed ==
  /\ Growth <= 0
  /\ RefundStorage

---------------------------------------------------------------------------
(***************************************************************************)
(* The handlers                                                            *)
(***************************************************************************)

StorageDeposit(account, amount) ==
  LET held == StorageAccount(account)
  IN  /\ amount >= StorageMinimum
      /\ held.total + amount <= MaxDeposited
      /\ accounts' = WithAccount(account,
           [total |-> held.total + amount, available |-> held.available + amount])
      /\ near' = near + amount
      /\ UNCHANGED << vars, keys >>

\* Mutated form: what is available stays.
WithdrawnFromTotal(account, amount) == [account EXCEPT !.total = @ - amount]

Withdrawn(account, amount) ==
  [total |-> account.total - amount, available |-> account.available - amount]

\* The last conjunct is the checked subtraction from the total.
StorageWithdraw(account, amount) ==
  LET held == StorageAccount(account)
  IN  /\ amount <= held.available
      /\ amount <= held.total
      /\ accounts' = WithAccount(account, Withdrawn(held, amount))
      /\ near' = near - amount
      /\ UNCHANGED << vars, keys >>

\* stake and unstake insert what they update, whether it was there or not.
KeysWritten(id, round, user, outcome) ==
  keys' = [ outcomes |-> keys.outcomes \union {<< id, round, outcome >>},
            users    |-> keys.users \union {<< id, round, user >>},
            stakes   |-> keys.stakes \union {<< id, round, user, outcome >>} ]

\* ft_on_transfer with a NewDataRequest
NewRequestCharged(token, sender, amount, payload) ==
  /\ DrNew(token, sender, amount, payload)
  /\ UNCHANGED keys
  /\ UseStorage(sender)

\* The window a stake goes to, the first of a request if it has none.
StakedRound(dr) == IF dr.resolution_windows = << >> THEN 1 ELSE Rounds(dr)

\* ft_on_transfer with a StakeDataRequest
StakeCharged(token, sender, amount, id, outcome) ==
  /\ DrStake(token, sender, amount, id, outcome)
  /\ KeysWritten(id, StakedRound(data_requests[id]), sender, outcome)
  /\ UseStorage(sender)

UnstakeSettled(sender, id, round, outcome, amount, succeeds) ==
  /\ DrUnstake(sender, id, round, outcome, amount, succeeds)
  /\ KeysWritten(id, round, sender, outcome)
  /\ RefundStorage

\* dr_finalize settles before it replaces the request by the trimmed one, which
\* nobody pays or is paid for.
FinalizeUnsettled(id, succeeds) ==
  /\ DrFinalize(id, succeeds)
  /\ UNCHANGED storageVars

ProviderFinalizeSettled(caller, id, outcome) ==
  /\ DrFinalizeByProvider(caller, id, outcome)
  /\ UNCHANGED keys
  /\ RefundFreed

ArbitratorFinalizeSettled(caller, id, outcome, succeeds) ==
  /\ DrFinalArbitratorFinalize(caller, id, outcome, succeeds)
  /\ UNCHANGED keys
  /\ RefundFreed

\* Mutated form: all stakes of the account are removed.
AllStakesOf(account, id) == {k \in keys.stakes : k[1] = id /\ k[3] = account}

\* What claim_for removes: the stakes it pays, behind the final outcome.
PaidStakesOf(account, id) ==
  {<< id, r, account, data_requests[id].finalized_outcome >> :
     r \in CorrectRounds(data_requests[id])}

ClaimSettled(account, id, stake_succeeds, payment_succeeds) ==
  /\ DrClaim(account, id, stake_succeeds, payment_succeeds)
  /\ keys' = [keys EXCEPT !.stakes = @ \ PaidStakesOf(account, id)]
  /\ RefundStorage

GovernanceSettled ==
  /\ GovernanceNext
  /\ UNCHANGED keys
  /\ RefundStorage

---------------------------------------------------------------------------
\* The contract is deployed with the NEAR for its first configuration and whitelist.
StorageInit ==
  /\ Init
  /\ accounts = << >>
  /\ keys = [outcomes |-> {}, users |-> {}, stakes |-> {}]
  /\ near = Usage

RequestSettledNext(id) ==
  \/ \E token \in Tokens, sender \in Stakers, amount \in StakeAmounts, outcome \in Outcomes :
       StakeCharged(token, sender, amount, id, outcome)
  \/ \E sender \in Stakers, round \in DOMAIN data_requests[id].resolution_windows,
        outcome \in Outcomes, amount \in StakeAmounts, succeeds \in TransferResults :
       UnstakeSettled(sender, id, round, outcome, amount, succeeds)
  \/ \E succeeds \in TransferResults : FinalizeUnsettled(id, succeeds)
  \/ \E caller \in Accounts, outcome \in Outcomes : ProviderFinalizeSettled(caller, id, outcome)
  \/ \E caller \in Accounts, outcome \in Outcomes, succeeds \in TransferResults :
       ArbitratorFinalizeSettled(caller, id, outcome, succeeds)
  \/ \E account \in Stakers, stake_succeeds, payment_succeeds \in TransferResults :
       ClaimSettled(account, id, stake_succeeds, payment_succeeds)

StorageNext ==
  \/ \E token \in Tokens, sender \in Requesters, amount \in Payments, payload \in Payloads :
       NewRequestCharged(token, sender, amount, payload)
  \/ \E id \in DOMAIN data_requests : RequestSettledNext(id)
  \/ \E account \in Stakers \union Requesters :
       \/ \E amount \in Deposits : StorageDeposit(account, amount)
       \/ \E amount \in Withdrawals : StorageWithdraw(account, amount)
  \/ GovernanceSettled
  \/ Tick /\ UNCHANGED storageVars

StorageSpec == StorageInit /\ [][StorageNext]_allVars

---------------------------------------------------------------------------
(***************************************************************************)
(* Every variable has the type its declaration in the code gives it; and no*)
(* account has more available than it has in deposit, so that no checked   *)
(* subtraction of storage_withdraw, which takes the same amount from both, *)
(* can stop an account from withdrawing what it is shown as available.     *)
(***************************************************************************)
StorageTypeOK ==
  /\ \E S \in SUBSET (Stakers \union Requesters) :
       accounts \in [S -> [total : Nat, available : Nat]]
  /\ \A a \in DOMAIN accounts : accounts[a].available <= accounts[a].total
  /\ keys.outcomes \subseteq Nat \X Nat \X Outcomes
  /\ keys.users \subseteq Nat \X Nat \X Stakers
  /\ keys.stakes \subseteq Nat \X Nat \X Stakers \X Outcomes
  /\ near \in Nat

\* Every stake in window r of a request has its entries.
HasKeys(held, id, r, w) ==
  \A u \in Stakers, o \in Outcomes :
    w.user_to_outcome_to_stake[u][o] > 0 =>
      /\ << id, r, u, o >> \in held.stakes
      /\ << id, r, u >> \in held.users
      /\ << id, r, o >> \in held.outcomes

(***************************************************************************)
(* The LookupMaps hold an entry for every stake that the contract still    *)
(* counts, also after claims of the same and of other accounts: a claim    *)
(* frees only storage of stakes it pays (stake, unstake, claim_for).       *)
(***************************************************************************)
KeysMatchStakes ==
  \A id \in DOMAIN data_requests :
    LET windows == data_requests[id].resolution_windows
    IN  \A r \in DOMAIN windows : HasKeys(keys, id, r, windows[r])

SumOverFinal(Part(_)) ==
  MapThenSumSet(LAMBDA id : Part(Bytes.final[data_requests[id].finalized_outcome]),
                {id \in DOMAIN data_requests : ~IsActive(data_requests[id])})

\* What finalising makes a request smaller or larger.
Trimmed(final) == IF final < Bytes.request THEN Bytes.request - final ELSE 0
Overrun(final) == IF final > Bytes.request THEN final - Bytes.request ELSE 0

\* What the contract has to hold for its storage and for what is available.
Needed ==
  Usage + MapThenSumSet(LAMBDA a : accounts[a].available, DOMAIN accounts)

(***************************************************************************)
(* The NEAR the contract holds pays for every byte it stores and for all   *)
(* that is available to its accounts, whatever order deposits, charges and *)
(* refunds come in, and whoever is refunded for storage that others paid.  *)
(* The one thing nobody pays for is a final outcome that is longer than all*)
(* that finalising drops from its request (use_storage, refund_storage).   *)
(***************************************************************************)
StorageBacked == near + SumOverFinal(Overrun) >= Needed

(***************************************************************************)
(* No NEAR is kept beyond that but for the bytes that dr_finalize frees    *)
(* after it has refunded its caller.                                       *)
(***************************************************************************)
NoStorageStranded == near <= Needed + SumOverFinal(Trimmed)
=================================================================================
