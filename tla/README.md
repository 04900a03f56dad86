# Flux oracle on NEAR: a TLA+ model

The oracle answers questions ("data requests") by a staking game. A requester
pays a fee and a validity bond; stakers put tokens behind answers; the first
answer whose stake fills the bond *stands*, and may be challenged by another
answer with twice the bond, until nobody challenges in time or the bond is so
large that a final arbitrator decides. Stakers of the right answer share the
losing bonds and the fee.

This directory specifies that contract (`oracle/src`) and the wrapped NEAR token
it is used with (`token/src`), checks them with TLC on small instances, and proves with
TLAPS, for all instances, their main invariants, that the contract implements an abstract
specification of disputes, and that it still does when its transfers run in later blocks.

## 1. The system

| Part | Source | State | Operations |
|---|---|---|---|
| Resolution window | `oracle/src/resolution_window.rs` | bond size, start and end time, bonded outcome, stake per outcome, stake per user and outcome | `new`, `stake`, `unstake`, `claim_for` |
| Data request | `oracle/src/data_request.rs`, `helpers.rs` | its windows, copy of the configuration, provider, arbitrator flag, final outcome | `dr_new`, `dr_stake`, `dr_unstake`, `dr_finalize`, `dr_finalize_by_provider`, `dr_final_arbitrator_finalize`, `dr_claim`; summaries |
| Token entry point | `oracle/src/fungible_token_receiver.rs`, `requester_handler.rs` | none | `ft_on_transfer` (the only way to `dr_new` and `dr_stake`), `set_outcome` to the requester |
| Request validation | `oracle/src/callback_args.rs` | none | `dr_validate` |
| Payouts | `oracle/src/fungible_token.rs` | none (balances are the token's) | `fungible_token_transfer`, a promise without a callback |
| Configuration, pause | `oracle/src/oracle_config.rs`, `lib.rs` | list of configurations, pause switch | `new`, `set_config`, `toggle_pause` |
| Whitelist | `oracle/src/whitelist.rs` | optional map of requesters to multipliers | `new`, `add_to_whitelist`, `remove_from_whitelist` |
| Fee configuration | `oracle/src/fee_config.rs` | field `fee` of the current configuration | `update_fee_config` |
| Storage accounting | `oracle/src/storage_manager.rs`, `refund_storage` in `helpers.rs` | NEAR deposited and available per account | `storage_deposit`, `storage_withdraw`, `use_storage`, `refund_storage` |
| Log | `oracle/src/logger.rs` | none; an indexer applies the lines to its rows | one function per kind of line, called inside the handlers |
| Wrapped NEAR token | `token/src` | balances, total supply | `ft_transfer`, `ft_transfer_call`, `ft_resolve_transfer`, `near_deposit`, `near_withdraw`, `storage_deposit`, `storage_withdraw` |
| Others | `upgrade.rs`, token metadata, tests, `deployment/` | none of their own | code upgrade |

**How they interact.** A user calls `ft_transfer_call` at a token contract. The
token moves the amount to the oracle and, in a later block, `ft_on_transfer` runs there, which
creates a request or stakes, is charged for its storage, and returns what it did not use; a block
after that the token's `ft_resolve_transfer` gives that back, or everything if the oracle panicked.
Every other handler is called directly, and settles its storage with its caller. Payouts are separate calls to the token
that nobody waits for. A verdict is reported to the requester's contract by
`set_outcome`, which nobody waits for either. Every handler logs what it changes, for an
indexer outside that rebuilds the state.

**What makes it hard.** A contract call is atomic, and a panic undoes it, so
threads and locks are not the difficulty. Call *order* is: any account may call
anything at any time, stakes race with deadlines and verdicts, three handlers
compete to finalise, claims and withdrawals of one request come in any order,
governance changes the configuration under running requests, and payouts may
fail. Between the receipts of one transfer everything else may run. All requests share one balance per
token, and all accounts one balance of NEAR, so a mistake in one is paid by
another. The arithmetic is checked (`overflow-checks = true`), which turns
overflows into panics, but conversions with `as` are not. `PROJECT.json` lists these hazards line by line.

**What makes each part correct.**

- *Window*: both stake maps agree; an outcome never holds more than the bond; the bonded one holds exactly the bond, and that stake cannot leave.
- *Request*: its windows form a ladder (other outcome, double bond, only the top open); it becomes final once, after its challenge window, and eventually.
- *Payouts*: nobody is paid twice, the shares of a pot never exceed the pot, nothing but known remainders is left behind.
- *Token entry point*: only the right token counts; what is unspent is returned, whatever is paid out meanwhile.
- *Request validation*: what is accepted is within the stated limits, and answers are of the kind asked for.
- *Configuration, whitelist, pause*: they act on later requests only.
- *Storage accounting*: the contract can return every deposit that is not used and pay for its bytes, and no account has more available than it deposited.
- *Log*: who applies the lines in order has the contract's state.
- *Token*: balances add up to the supply, and NEAR backs it, also with calls in flight; every call is resolved.

## 2. Modules

| Module | What it is |
|---|---|
| `ResolutionWindow` | one window: records and operators, one per method of the code, each guard named (`CanUnstake`, `NewWindowFits`) |
| `DataRequest` | one request: operators for the methods of `ActiveDataRequest` and `FinalizedDataRequest`, and the ladder its windows form |
| `Oracle` | the contract: variables for the fields of `struct Contract`, for balances, answers and time; one action per handler |
| `OracleProperties` | types, invariants, action properties, fairness and liveness |
| `Adjudication` | abstract specification: cases with a standing outcome, without stakes or windows |
| `OracleRefinement` | the mapping under which `Oracle` implements `Adjudication` |
| `Views` | the summaries of requests and `get_requests`, page by page |
| `FungibleToken` | balances of a token: operators for registration, transfers and refunds |
| `WrappedNear` | the token contract: one action per method, transfer calls as receipts, the NEAR it holds |
| `OracleTokens` | `Oracle` composed with `FungibleToken`: deposits in three receipts, payouts as receipts of their own |
| `OracleStorage` | every handler of `Oracle` with what it settles for storage |
| `EventLog` | every handler of `Oracle` with the lines it logs, and an indexer that applies them |
| `Validation` | acceptance of a request and of the answers to it |
| `MCOracle`, `MCWrappedNear`, `MCOracleTokens`, `MCOracleStorage`, `MCEventLog`, `MCValidation` | constants of the small instances |
| `SumProofs` | lemmas about sums over finite sets, and about shares of an amount |
| `OracleProofs`, `OracleRefinementProofs` | windows, requests, the inductive invariant and the money of the contract; the refinement of `Adjudication` |
| `WrappedNearProofs`, `OracleTokensProofs`, `OracleStorageProofs`, `EventLogProofs`, `ValidationProofs` | the theorems about the module of that name (`EventLogProofs` also about `Views`) |

`Oracle` EXTENDS `DataRequest` EXTENDS `ResolutionWindow`; `OracleProperties`, `Views` (with `EventLog` on
top) and `OracleStorage` extend `Oracle`, `OracleTokens` and `OracleRefinement` extend `OracleProperties`.
Some definitions are followed or
preceded by a *mutated form*, a version of the operator with a plausible bug;
each property is known to fail with one of them (`PROJECT.json`, "mutants").

**From code to model.**

- A handler is an action. Its assertions and panics are conjuncts; the state it
  writes is primed. What a handler calls is an operator on the request's or the
  window's record that the action uses, so one action is the whole call.
- The enum `DataRequest` is one record, active while `finalized_outcome` is
  `NoOutcome`. `trim_dr` drops fields that no later operation reads.
- `LookupMap`s are total functions with 0 where there is no entry, as every
  read in the code is `unwrap_or(0)`.
- `outcomes` and `data_type` of a request are the sets of outcomes that
  `assert_valid_outcome` and `assert_valid_outcome_type` accept. `dr_stake` asks
  for both; the arbitrator and the provider are only held to the first, as in the
  code. `Invalid` passes both. `Validation` has the two functions themselves.
- In `Oracle`, `balance[t]` is what token `t` holds for the oracle. `ft_on_transfer` runs after
  the token moved the amount, so the two actions reached from it, `DrNew` and
  `DrStake`, add the amount and give back the unspent part in one step.
  A payout subtracts in the step of its handler, or fails
  (`TransferResults`) and leaves the balance as it is.
- `answers[id]` collects the `set_outcome` calls of a request; it is a history of
  messages sent, not a field of the contract.
- `u128` and `u64` arithmetic is checked in the code; the model has natural numbers
  and the guards `NewWindowFits`, `StakeFits` and `Receives` for the additions
  that can overflow, with `MaxBalance` and `MaxTimestamp` for the limits.

**The receipts.** In `OracleTokens` a transfer call goes through the three receipts of the code, `FtTransferCall`,
the oracle's `ft_on_transfer` (which takes `DrNew` or `DrStake`, or panics) and
`FtResolveTransfer`, in one of the `Slots`. A payout is an entry of the bag `payouts`, run by
`FtTransfer` in any order; the stake of a claim and its fee are one chain, as the code joins the two promises with `then`.
A payout to an account that has left the token fails and is lost, as nobody awaits it. `balance` is here what the
contract may count on; the token's own balance of the oracle, in `accounts`, is larger by what is under way.
Governance is left out of this composition, as it can only make a receipt panic, which any receipt may do anyway;
every staker may ask, and the same amounts serve for stakes and fees.
`WrappedNear` has the token with receivers of every kind: they answer any amount, fail,
or spend what they were sent first. `amount > 0` is checked for wrapping and unwrapping; the token accepts transfers of 0.

**Storage.** `OracleStorage` takes each action of `Oracle` and adds the entries it writes or
frees. `keys` are the entries of the `LookupMap`s: unlike the maps of `Oracle`, they tell an entry with 0 from none, since
an entry is charged for. `near` is the NEAR the contract holds for storage, in units of the price of one byte, and
`accounts` the deposits. `use_storage` reads what is available before the handler and writes it after, and its charge is
the growth of the storage in between; the others measure the storage
around the handler and take the difference from the caller's attached NEAR or pay it back. `dr_finalize`
measures before it writes the final request back. An entry of each kind has one size (`Bytes`), a final outcome has
the size of its text. The yoctoNEAR a call must attach, the contract's root record and the storage accounts' own entries
are left out: nobody is charged for them.

**The log.** `EventLog` adds to each action of `Oracle` the lines that it logs, in order, as `view' = ` the rows after
they are applied; a row is named by its `cap_id`, the sequence of the words which the code joins by `_`. Transactions are
not rows (a time is part of their name); they are summed in `tally`. The words of an outcome are those of
`outcome_to_id`. The fees of the configurations are here because nothing but the log reads them.

**Validation.** A list is its length, and for outcomes the texts in it. Lengths are cast to `u8`, and the
product of the challenge period and `MIN_PERIOD_MULTIPLIER` is checked. A request without sources passes
`dr_validate` if it has a description, and then panics in `ActiveDataRequest::new`: it is rejected.

**Not modelled**, and why: the texts of requests, sources and tags, and dates and block heights in the log (no decision
reads them); gas (a receipt that runs out panics, which the receipts may do anyway); views that return one field; the
overflow of `stake * multiplier` near 2^128 (it panics, and nothing happens); the joining of log ids by `_`; `upgrade.rs` (there
is one version of the code to model, and migration reads the state back as it is); the metadata of the token (constants);
tests and deployment scripts; the requester's contract, to which the code only sends.

## 3. Properties

The contract (`OracleProperties`, `OracleRefinement`, `Views`):

- `TypeOK`. One type invariant.
- `DisputeLadder`. However stakes, withdrawals, verdicts and claims interleave:
  a bonded outcome holds exactly its bond and no other outcome does; every
  window but the last is bonded; each is bonded for another outcome than the one
  below and with twice its bond; the arbitrator is called in exactly when the
  last one is bonded. `get_final_outcome` and
  `assert_can_stake_on_outcome` take the last window but one and unwrap its
  outcome: they rely on this.
- `StakesAddUp`. The two stake maps of a window agree while the request is active.
- `Solvent`. Every token balance covers what all requests still owe in that token,
  although the balance is shared.
- `NothingElseStranded`. With payouts that succeed, the balance exceeds what is
  owed by no more than the remainders the code is known to leave: rounding dust,
  the pot of a request decided for an outcome nobody bonded, and a validity bond
  that is not returned (a request judged invalid, or decided by its provider).
- `AnsweredOnce`. The requester hears one verdict, the one on record.
- `TermsFixed`. No step changes the terms of a request already made.
- `ImplementsAdjudication`. The contract, seen through its bonded outcomes, is an
  `Adjudication`: no outcome is settled before it stood for a challenge period,
  no challenge reopens a case that was escalated, a provider only decides
  where one was appointed, verdicts are final. `MinPeriod` is the shortest
  challenge period of the configurations. The time a standing outcome is counted
  from is the start of the window above it.
- `EventuallyFinal`. If the contract is eventually unpaused for good, a request with
  a bonded outcome becomes final.
- `PagesCoverRequests`. Whatever the size of the pages, turning them shows every request once.

The token (`WrappedNear`):

- `SupplyConserved`. The supply is the sum of the balances, through refunds and burns.
- `Backed`. The contract holds the NEAR for the supply and for every registration.
- `RefundsFair`. The callback takes from the receiver at most what was sent, gives it to the sender or burns it, and
  after a failure takes all that is still there.
- `CallsResolve`. Every transfer call is resolved: the callback never panics.

The two together (`OracleTokens`):

- `EverythingCovered`. The oracle's balance covers at once what requests are owed, the payouts ordered and not
  yet run, and what transfers under way may have to give back.
- `RefundedInFull`. So no refund is cut short because payouts ran first, although `ft_resolve_transfer` would cut it.
- `TokensTypeOK`, its type invariant.

Storage (`OracleStorage`):

- `KeysMatchStakes`. Every stake the contract counts has its entries, after whatever claims and withdrawals.
- `StorageBacked`. The contract's NEAR pays for all its bytes and all that accounts have available, except where
  a final outcome is longer than what finalising drops from the request.
- `NoStorageStranded`. It keeps nothing else, except what `dr_finalize` frees after it has paid the refund.
- `StorageTypeOK`, its type invariant, with `available <= total`: the code subtracts a withdrawal from both, checked.

The log (`EventLog`):

- `ViewAgrees`. An indexer's rows are the contract's requests, windows, stakes, configurations and whitelist.
- `FlowsReconcile`. Its transactions and claims add up to what every user has staked.

Validation:

- `AcceptedWithinLimits`. With lists of fewer than 256 entries, a request is accepted exactly when it is within the stated limits
  (and has sources, and its configuration's largest period fits).
- `AnswersAsAsked`. No stake is on an answer of another type or outside the list; a list with a
  numeric type leaves `Invalid` only.
- `SourcesLimited`, which a run shows violated.

**Fairness.** `FairSpec` of the contract adds weak fairness of the clock (blocks keep coming), of
`dr_finalize` per request (it is permissionless and pays back the requester's
bond, so somebody calls it while it stays callable) and of the arbitrator's
decision per request (an assumption about the arbitrator; the code cannot force it). Nothing is
assumed of stakers, claimers, providers and governance. A late challenge disables
`dr_finalize` only by bonding another outcome, which can happen finitely often
before the arbitrator is called in; a challenge that is not bonded leaves it enabled.
`FairSpec` of the token adds weak fairness of the receiver's receipt and of `ft_resolve_transfer` of each
call: the network runs every receipt, and the callback has its gas set aside (`GAS_FOR_RESOLVE_TRANSFER`).

## 4. Runs

| Run | Instance | Question |
|---|---|---|
| `core` | 1 request, 2 stakers, bonds 2 and 4 (the second calls in the arbitrator), stakes of 1 and 3, payouts may fail, time 0..4 | every order of stake, withdrawal, verdict and claim |
| `payout` | 1 request, 2 stakers, fees 0 and 2, provider or not, one token for everything, payouts succeed | what is left in the oracle |
| `ladder` | 1 request, 1 staker, bonds 2, 4, 8, first challenge period 2 and later ones 1, time 0..5 | three rounds, refinement and liveness |
| `governance` | 2 requests, 1 staker, 2 configurations that swap the tokens, whitelist with and without a multiplier, pause | drift of the configuration under running requests; pages |
| `token` | 3 holders, amounts 1 and 2, at most 2 tokens and 5 NEAR, 2 calls under way, receivers that answer 0, 1, 9 or fail | refunds, burns and registration with calls in flight |
| `crossing` | 1 request, 2 stakers, 1 token, 6 tokens each, amounts of 3, bonds 2 and 4, 2 calls under way, time 0..1 | receipts between the contracts in every order |
| `storage` | 1 request with a provider, 2 stakers, deposits of 12 and withdrawals of 5, an answer of size 5 on a request of size 4 | who pays for which bytes |
| `indexer` | 1 request, 2 configurations, whitelist, fees, an answer that reads "invalid" | the log as a copy of the state |
| `validation` | lists of 0, 1, 2, 3, 8, 9 and 256 entries under limits of 8, periods on either side of the limits | what is accepted |
| `validity_bond` | 1 request judged invalid | what docs say of the bond (violated) |
| `zero_bond` | multiplier one half, smallest bond 1 | what assertions say of the bond (violated) |
| `sources_limit` | as `validation` | the stated limit on sources (violated) |

**Why the bounds suffice.** A request interacts with others through the shared balances and the
configurations only, so two requests (`governance`) show these interactions and one
request shows the dispute. Two stakers are the least that share a pot, overfill a
bond together and claim in either order; stakes of 1 and 3 on bonds of 2 and 4
give a partial fill, an exact fill and an overfill with a remainder. Two bonded
rounds and the arbitrator's are the least with a challenge of a challenge; `ladder` adds a
third, where the challenge period changes. Three outcomes (two answers and
`Invalid`) are the least where a third round may differ from both lower ones. Time
only matters relative to deadlines, which are 1 or 2 long; `MaxTimestamp` leaves room for every
round to time out. In `core` an answer is listed but of the wrong type, so the
arbitrator may pick an outcome that nobody could stake on. Stakers are
interchangeable, so `core` and `payout` use symmetry (no liveness there).
`MaxRequests` and `MaxConfigs` bound the two lists; `CHECK_DEADLOCK` is off
because a bounded instance ends when time, requests and claims are used up.

Two slots are the least where two calls cross, and where one call runs between the receipts of another; three
holders the least with a sender, a receiver and somebody the tokens were passed on to. A balance of two tokens
reaches `MaxBalance`, so that checked additions fail; 5 NEAR register three accounts and wrap two tokens.
In `crossing` a stake of 3 overfills the bond of 2 (a refund of 1), fills part of the bond
of 4, and the fee of 3 and the bond come out of the same balance; time 0..1 is enough for one window to end. In `storage`
the answer is longer, and `Invalid` shorter, than what finalising drops, a deposit of 12 pays
for a request but not for a request and a stake that opens the next window, and the arbitrator is the provider so that all
three ways to finalise occur. In `indexer` a text equals the mark of `Invalid`, the case `outcome_to_id` has
to keep apart, and one fee is above the limit that only `update_fee_config` checks. 256 is the least length that `u8` wraps
to 0; 15 is the largest timestamp where a period of 5 times 3 just fits and one of 6 does not.

**What the violated runs show.** `validity_bond`: `calc_resolution_bond` is
documented with "If the accumulated fee is smaller than the validity bond, we
payout the validity bond to validators" (`data_request.rs:438`), and `dr_claim` says
"distribute fee + bond" (`:626`), but a bond that is not returned is paid to
nobody. `zero_bond`: `set_config` requires "resolution bond has to be higher than 0"
and the whitelist that a multiplier "can't be 0", but their product is
rounded down, so a request's bond may be 0; a stake of any amount, even of none,
then bonds its outcome, and doubling never makes the bond grow. `sources_limit`: the number of sources is cast to
`u8` before it is compared (`callback_args.rs:23`), so 256 sources count as none, although
the message says "Too many sources provided, max sources is: {}" (`:24`); tags and outcomes are cast in the same way.

## 5. Proofs

For any sets of accounts, tokens, outcomes, configurations,
payloads and amounts, any bounds, and any number of requests, of calls and of payouts under way:

| Module | Theorem | Statement |
|---|---|---|
| `OracleProofs` | `Invariance` | `Spec => []Inv` |
| | `TypeCorrect` | `Spec => []TypeOK` |
| | `LadderInvariant` | `Spec => []DisputeLadder` |
| | `OneAnswer` | `Spec => []AnsweredOnce` |
| | `TermsNeverChange` | `Spec => TermsFixed` |
| | `StakesAlwaysAddUp` | `Spec => []StakesAddUp` |
| | `AlwaysSolvent` | `Spec => []Solvent` |
| | `NothingStranded` | `Spec => []NothingElseStranded`, if payouts succeed |
| `OracleRefinementProofs` | `Implementation` | `Spec => ImplementsAdjudication` |
| `OracleTokensProofs` | `TokensImplementOracle` | `TokensSpec => Spec` |
| | `TokensTypeCorrect` | `TokensSpec => []TokensTypeOK` |
| | `TokensKeepLadder` | `TokensSpec => [](DisputeLadder /\ AnsweredOnce)` |
| | `EverythingAlwaysCovered` | `TokensSpec => []EverythingCovered` |
| | `RefundsInFull` | `TokensSpec => RefundedInFull` |
| `OracleStorageProofs` | `StorageImplementsOracle` | `StorageSpec => Spec` |
| | `KeysAlwaysMatch` | `StorageSpec => []KeysMatchStakes` |
| | `StorageKeepsLadder` | `StorageSpec => [](DisputeLadder /\ AnsweredOnce)` |
| | `StorageTypeCorrect` | `StorageSpec => []StorageTypeOK` |
| | `StorageAlwaysBacked` | `StorageSpec => []StorageBacked` |
| | `NoStorageEverStranded` | `StorageSpec => []NoStorageStranded` |
| `WrappedNearProofs` | `TypeCorrect` | `Spec => []TypeOK` |
| | `SupplyAlwaysConserved` | `Spec => []SupplyConserved` |
| | `AlwaysBacked` | `Spec => []Backed` |
| | `RefundsAreFair` | `Spec => RefundsFair` |
| `EventLogProofs` | `FlowsAlwaysReconcile` | `LogSpec => []FlowsReconcile` |
| | `ViewAlwaysAgrees` | `LogSpec => []ViewAgrees` |
| | `PagesAlwaysCover` | `Spec => []PagesCoverRequests` |
| `ValidationProofs` | `LimitsKept` | `Spec => []AcceptedWithinLimits` |
| | `OnlyAnswersAsked` | `Spec => []AnswersAsAsked` |

*Assumptions*: `WindowAssumption`, `RequestAssumption`, `OracleAssumption`, `WhitelistAssumption`, `OracleStorageAssumption`,
`EventLogAssumption`, `TokenAssumption`, `WrappedNearAssumption`, `IdleAssumption` and `ValidationAssumption` only
say that constants have their types and that special values differ
from ordinary ones, such as no whitelist from any whitelist (and that the limits of
`dr_validate` fit a `u8`, as they do in the code). Whatever is summed over is finite: `FiniteAssumption` has finitely
many stakers and outcomes, and others have finitely many requesters and holders of a token, as account ids and
answers are of bounded length. How many calls and payouts are under way is not bounded. Two say more: `MinPeriodAssumption`, for `Implementation`: no configuration
allows a challenge period below `MinPeriod`; and `OracleTokensAssumption`: in the composition a handler never refuses to order a
payout (`TransferResults`), every staker may ask, and the oracle is not one of its own users. TLC evaluates them in the runs.

*Argument for the contract*: `Inv == TypeOK /\ DisputeLadder /\ AnsweredOnce` is inductive. The
ladder is stated so strongly because its parts need each other: that a stake
takes `bond_size - stake_on_outcome` without underflow needs `FilledToBond` of the open window; that
the window is open at all needs `ArbitratorEndsLadder` (the last window is bonded
only when the arbitrator is in, and then no stake is accepted);
that the next window has another outcome needs `OnlyLastOpen` together with
`assert_can_stake_on_outcome`; and `TypeOK` needs all of that, since an amount
below 0 would leave the type. `AnsweredOnce` ties `answers` to the verdict, so that a
finalising handler that has passed `dr_get_expect_active` finds no answer sent.
`OracleProofs` shows for each operation on a window and on a request that it keeps
the type and the ladder, and lifts this to the list of requests
(`RequestReplaced`), with one lemma per handler, and combines them in `NextInv`.
`TermsFixed` is proved in the same induction: each lemma also shows
`TermsKept`, because the configuration ids of requests stay within the list, which only grows.

`Implementation` needs a little more than `Inv`: `TimedInv` adds that the contract only has known
configurations and that every window of a request, and every period a later window will get, lasts
`MinPeriod` at least. This is where `dr_validate` and the check of
`min_initial_challenge_window_duration` enter: without them a window could time out at once. The proof follows
the handlers. A withdrawal or a claim leaves bonded outcomes and deadlines
alone (`SameWindowsSameCase`), so it stutters. A stake (`StakedStanding`) either leaves the
last window open, and stutters; or fills it and opens the next one, and asserts an outcome that
`ChallengesEscalate` shows to be another one; or fills it and calls in the arbitrator, and escalates.
`dr_finalize` settles: what it reports is the standing outcome (`ArbitratorEndsLadder`: the last window is
not bonded), and its window was opened when that outcome was bonded. The two other finalising
handlers rule, and time advances. Governance calls stutter.

*Argument for the money*: what a request owes is a sum over windows and stakers of what is still open, plus the
payouts its claims will give, plus the fee and the bond it holds (`OwedOn`). A sum is a fold in the order of some `CHOOSE`;
`SumProofs` shows by a minimal counterexample among the finite subsets that it follows a recursion over a table, and from
that how it changes when one summand does. Then each operation on a window moves what the window `Holds` by
what it takes or pays (`StakesAddUp` is part of that), each handler moves what its request
owes by at least what it pays and by at most that and what `LeftOn` lists, and one lemma lifts this to all requests
and all tokens, where several of the three tokens of a request may be the same. The two rounded divisions
of a claim are the delicate part: shares of a pot, each rounded down, never exceed the pot and fall short of it by less than the
number of shares (`AreShares`). That the pot is there needs the ladder: the stakes on wrong outcomes are bonds, and a bonded
outcome holds exactly its bond. When nobody bonded the final outcome, or the bonds on it
are all 0, no claim pays the pot, and `LeftOn` lists all of it.

*Argument for the composition*: the mapping is the identity on the contract's variables, so
`TokensImplementOracle` says that splitting transfers into receipts adds no behaviour to the contract: whatever crosses,
each `ft_on_transfer` that does not panic is one `DrNew` or `DrStake`, and all other receipts stutter. It needs an invariant,
`TokensInv == Inv /\ CallsOK /\ AccountsOK /\ PayoutsOK`: that the amount which arrives was sent, and one that the contract's
specification admits. For the coverage, `FlowInv` says of each token that the contract's own `balance`, the payouts ordered and what the
slots hold for a return are together at most what the token records for the oracle. Ordering a payout moves an amount from the
first term to the second, running it lowers the second and the record, and a refund lowers the third
and the record; with `Solvent` this gives `EverythingCovered`, and since a refund is one term of
the sum, `RefundedInFull`.

*Argument for the storage*: the shape of `TokensImplementOracle`, `Inv` and `[StorageNext]_allVars => [Next]_vars`, proves
`StorageImplementsOracle`: charging may only refuse a call. `KeysAlwaysMatch` adds that a claim frees no entries of
other users, rounds and outcomes than it pays, and that stakes and withdrawals write theirs. Both bounds on
the NEAR are one induction over `ChargingInv`: the NEAR held lies between what bytes and accounts need less the bytes by
which final outcomes overran, and that need plus the bytes that finalising trimmed. Every handler `Pays`: it moves the NEAR and the need alike. `dr_finalize` alone does not,
because it measures before it writes the final request, and its two
differences are the two terms. That the NEAR never falls below 0 needs that no request overruns by more than it occupies.

*Argument for the token*: `Inv == TypeOK /\ Backed /\ TwoParties`. `Backed` needs `TypeOK` (balances below 0 would
leave room for a supply that is too large), and `RefundsFair` needs `TwoParties`, that nobody makes a transfer call
to themselves, as otherwise what is taken and what is given would cancel out. Each method changes the supply and the
reserve by the same amount, or the registered accounts by one and the reserve by the deposit.

*Argument for the log*: a handler logs a list of lines, and the rows after them are a fold, which is handled
as the sums are, by a table of its prefixes: the last line that writes a field decides it. `FlowsInv` says for each
staker and request that transactions less the claimed stake are the stake still on record, and that nothing is logged of a request before there is one. A claim may be called again, and its
line would then be overwritten with a smaller amount; but it logs only if it pays, it
pays only stakes behind the final outcome, and it takes these off the request, so the second one has nothing to log.

The rows themselves are `ViewInv`: every request, window, stake, configuration and whitelist of the contract has its
row and the row shows it, and *nothing* is logged of a request, round or configuration yet to come. A line is merged into
the row it finds, so it replaces that row only if the row has no other fields (`Fits`); hence the invariant says what a row
is (`RowIs`), beyond the fields that are read. Lines of one request leave the rows
of all others as they are (`RowsElsewhere`), so each handler is about its own request only. A stake logs up to five
lines in order, some of them of the window before it changes and some of the one it opens; the
last write decides (`StakeShows`). An answer and "invalid" get different
ids because of the prefix (`OutcomeIds`). And a claim takes stakes off the request whose rows
stay: `ViewAgrees` compares a staker's rows only up to the claim, and `ViewInv` says
that stakes are gone only where the claim has its row.

*Argument for validation*: below 256 the cast to `u8` is the identity (`ShortAsU8`), so the checks are the limits
(`ChecksAreLimits`); every stake has passed both assertions.

*Argument for the pages*: what `FlattenSeq` puts together is a function of how many pages there are, and
the only one that follows its recursion (`FlattenedParts`). The first requests up to the end of each page are such a function, because
a page continues where the last one ended (`PageContinues`), also when it is cut short or empty; and the last
of as many pages as there are requests ends no earlier than the list, since a page has room for one request at least.

*Model-checked only*: `EventuallyFinal` and `CallsResolve`, which are liveness and rest on `ENABLED`, out of the prover's reach.

## 6. Plan

1. Done: window, request, contract, governance, the abstract specification, the
   inductive invariant, and the theorem that the contract implements the abstract specification.
2. Done: the token, and the contract composed with it, with the theorem that the composition implements
   the contract.
3. Done: storage accounting, the log and its indexer, views, validation, with the theorems of section 5.
4. Done: the money of the contract, of the token, of the composition and of storage, and the flows and rows of the log, for all instances.
5. Open: a larger `crossing`, with
   two requests and two tokens. What remains of the code is listed under "Not modelled".
