---------------------------------- MODULE Oracle ----------------------------------
(***************************************************************************)
(* The oracle contract (oracle/src/lib.rs, struct Contract): its whitelist,*)
(* configurations, data requests and pause switch, with one action per     *)
(* handler that changes them.  A contract call is atomic; a handler that   *)
(* panics changes nothing, so its assertions are the guard of its action.  *)
(*                                                                         *)
(* dr_new and dr_stake are only reached from ft_on_transfer, by a call of  *)
(* a token contract that has already moved the tokens; the part the oracle *)
(* reports as unspent goes back.  balance is what the token contracts hold *)
(* for the oracle.  A payout is an ft_transfer promise that nobody awaits: *)
(* it moves the tokens or, when the receiver is not registered with the    *)
(* token, fails and leaves them with the oracle.                           *)
(***************************************************************************)
EXTENDS DataRequest

CONSTANTS
  Tokens,           \* the fungible tokens
  Requesters,       \* the accounts that ask for data, and may be whitelisted
  Configs,          \* the configurations the contract may be deployed with or given
  Payloads,         \* the requests that may be asked
  Payments,         \* the amounts sent with a request
  StakeAmounts,     \* the amounts staked and unstaked
  Multipliers,      \* the stake multipliers of whitelisted requesters
  NoWhitelist,      \* Whitelist(None)
  InitialWhitelists,\* the whitelists the contract may be deployed with
  TransferResults,  \* the results of a payout: TRUE if it succeeds
  MaxRequests,      \* bound: data requests ever made
  MaxConfigs        \* bound: configurations ever set

VARIABLES
  whitelist,      \* Contract.whitelist
  configs,        \* Contract.configs
  data_requests,  \* Contract.data_requests
  paused,         \* Contract.paused
  balance,        \* the oracle's balance at each token contract
  answers,        \* the set_outcome calls made to the requester of each request
  now             \* env::block_timestamp()

vars == << whitelist, configs, data_requests, paused, balance, answers, now >>

OracleConfig ==
  [ gov                                   : Accounts,
    final_arbitrator                      : Accounts,
    payment_token                         : Tokens,
    stake_token                           : Tokens,
    validity_bond                         : Nat,
    default_challenge_window_duration     : Nat,
    min_initial_challenge_window_duration : Nat,
    final_arbitrator_invoke_amount        : Nat,
    min_resolution_bond                   : Nat ]

\* What a payload lets assert_valid_outcome and assert_valid_outcome_type accept:
\* Invalid always passes both.
Payload ==
  [ outcomes         : {S \in SUBSET Outcomes : Invalid \in S},
    data_type        : {S \in SUBSET Outcomes : Invalid \in S},
    challenge_period : Nat,
    provider         : Accounts \union {NoProvider} ]

IsWhitelist(wl) == \E S \in SUBSET Requesters : wl \in [S -> OptionalMultiplier]

ASSUME OracleAssumption ==
  /\ Requesters \subseteq Accounts
  /\ Configs \subseteq OracleConfig
  /\ Payloads \subseteq Payload
  /\ Payments \subseteq Nat
  /\ StakeAmounts \subseteq Nat
  /\ Multipliers \subseteq OptionalMultiplier
  /\ \A wl \in InitialWhitelists : wl = NoWhitelist \/ IsWhitelist(wl)
  /\ TransferResults \subseteq BOOLEAN
  /\ MaxRequests \in Nat
  /\ MaxConfigs \in Nat

\* No whitelist is not the same as a whitelist, not even as the empty one.
ASSUME WhitelistAssumption == ~IsWhitelist(NoWhitelist)

CurrentConfig == configs[Len(configs)]

\* The configuration a request was made under.
ConfigOf(dr) == configs[dr.global_config_id]

\* A payout of amount from the balances bal, which the token refuses beyond the balance.
Paid(bal, token, amount, succeeds) ==
  IF succeeds /\ amount <= bal[token] THEN [bal EXCEPT ![token] = @ - amount] ELSE bal

---------------------------------------------------------------------------
(***************************************************************************)
(* Data requests                                                           *)
(***************************************************************************)

\* Without a whitelist everyone may ask, and no multiplier applies.
IsWhitelisted(sender) == whitelist # NoWhitelist => sender \in DOMAIN whitelist

StakeMultiplier(sender) ==
  IF whitelist = NoWhitelist THEN NoMultiplier ELSE whitelist[sender]

\* MIN_PERIOD_MULTIPLIER of flux_sdk.
MinPeriodMultiplier == 3

\* dr_validate; the limits on the lengths of lists are not modelled here.
DrValidate(config, payload) ==
  /\ payload.challenge_period >= config.min_initial_challenge_window_duration
  /\ payload.challenge_period <= config.default_challenge_window_duration * MinPeriodMultiplier

\* The token has moved amount to the oracle, whose balance there is a u128.
Receives(token, amount) == balance[token] + amount <= MaxBalance

\* ft_on_transfer with a NewDataRequest, called by token for sender.
DrNew(token, sender, amount, payload) ==
  /\ Receives(token, amount)
  /\ token = CurrentConfig.payment_token
  /\ ~paused
  /\ IsWhitelisted(sender)
  /\ amount >= CurrentConfig.validity_bond
  /\ DrValidate(CurrentConfig, payload)
  /\ Len(data_requests) < MaxRequests
  /\ data_requests' = Append(data_requests,
       NewRequest(sender, StakeMultiplier(sender), Len(configs), CurrentConfig,
                  amount - CurrentConfig.validity_bond, payload))
  /\ answers' = Append(answers, << >>)
  /\ balance' = [balance EXCEPT ![token] = @ + amount]
  /\ UNCHANGED << whitelist, configs, paused, now >>

\* Mutated form: the token is compared with the current configuration only.
IsStakeTokenNow(dr, token) == token = CurrentConfig.stake_token

\* ft_on_transfer compares the token with the current configuration, dr_stake
\* with the configuration of the request.
IsStakeToken(dr, token) ==
  /\ token = CurrentConfig.stake_token
  /\ token = ConfigOf(dr).stake_token

\* ft_on_transfer with a StakeDataRequest, called by token for sender.
DrStake(token, sender, amount, id, outcome) ==
  LET dr == data_requests[id]
  IN  /\ Receives(token, amount)
      /\ ~paused
      /\ IsActive(dr)
      /\ IsStakeToken(dr, token)
      /\ ~dr.final_arbitrator_triggered
      /\ CanStakeOnOutcome(dr, outcome)
      /\ outcome \in dr.outcomes
      /\ outcome \in dr.data_type
      /\ StakeFits(dr, sender, outcome, amount, now)
      /\ data_requests' =
           [data_requests EXCEPT ![id] = Staked(dr, sender, outcome, amount, now)]
      /\ balance' = [balance EXCEPT ![token] = @ + amount - Unspent(dr, outcome, amount, now)]
      /\ UNCHANGED << whitelist, configs, paused, answers, now >>

DrUnstake(sender, id, round, outcome, amount, succeeds) ==
  LET dr == data_requests[id]
  IN  /\ ~paused
      /\ CanUnstake(dr.resolution_windows[round], sender, outcome, amount)
      /\ data_requests' =
           [data_requests EXCEPT ![id] = Unstaked(dr, sender, round, outcome, amount)]
      /\ balance' = Paid(balance, ConfigOf(dr).stake_token, amount, succeeds)
      /\ UNCHANGED << whitelist, configs, paused, answers, now >>

\* Mutated form: a request that is already final is finalised again.
DecideAgain(id, outcome) ==
  /\ data_requests' = [data_requests EXCEPT ![id] = Finalized(@, outcome)]
  /\ answers' = [answers EXCEPT ![id] = Append(@, outcome)]

\* What the three finalising handlers share: dr_get_expect_active, trim_dr and
\* set_outcome.
Decide(id, outcome) ==
  /\ IsActive(data_requests[id])
  /\ data_requests' = [data_requests EXCEPT ![id] = Finalized(@, outcome)]
  /\ answers' = [answers EXCEPT ![id] = Append(@, outcome)]

\* return_validity_bond
BondReturned(dr, outcome, succeeds) ==
  IF ReturnsValidityBond(outcome)
    THEN Paid(balance, ConfigOf(dr).payment_token, dr.request_config.validity_bond, succeeds)
    ELSE balance

\* Anyone may finalise a request whose last challenge window has timed out.
DrFinalize(id, succeeds) ==
  LET dr == data_requests[id]
  IN  /\ ~paused
      /\ CanFinalize(dr, now)
      /\ HasFinalOutcome(dr)
      /\ Decide(id, FinalOutcome(dr))
      /\ balance' = BondReturned(dr, FinalOutcome(dr), succeeds)
      /\ UNCHANGED << whitelist, configs, paused, now >>

\* The provider of a request may decide it at any time; the bond is not returned.
DrFinalizeByProvider(caller, id, outcome) ==
  LET dr == data_requests[id]
  IN  /\ ~paused
      /\ outcome \in dr.outcomes
      /\ caller = dr.provider
      /\ Decide(id, outcome)
      /\ UNCHANGED << whitelist, configs, paused, balance, now >>

\* assert_final_arbitrator and assert_final_arbitrator_invoked
MayArbitrate(dr, caller) ==
  /\ caller = dr.request_config.final_arbitrator
  /\ dr.final_arbitrator_triggered

DrFinalArbitratorFinalize(caller, id, outcome, succeeds) ==
  LET dr == data_requests[id]
  IN  /\ ~paused
      /\ MayArbitrate(dr, caller)
      /\ outcome \in dr.outcomes
      /\ Decide(id, outcome)
      /\ balance' = BondReturned(dr, outcome, succeeds)
      /\ UNCHANGED << whitelist, configs, paused, now >>

\* Anyone may claim for an account; a claim of nothing panics.
DrClaim(account, id, stake_succeeds, payment_succeeds) ==
  LET dr      == data_requests[id]
      stake   == StakePayout(dr, account)
      payment == PaymentPayout(dr, account)
  IN  /\ ~paused
      /\ ~IsActive(dr)
      /\ stake \in 0 .. MaxBalance
      /\ payment \in 0 .. MaxBalance
      /\ stake > 0 \/ payment > 0
      /\ data_requests' = [data_requests EXCEPT ![id] = Claimed(dr, account)]
      /\ balance' = Paid(Paid(balance, ConfigOf(dr).stake_token, stake, stake_succeeds),
                         ConfigOf(dr).payment_token, payment, payment_succeeds)
      /\ UNCHANGED << whitelist, configs, paused, answers, now >>

---------------------------------------------------------------------------
(***************************************************************************)
(* Governance: the caller is gov of the current configuration              *)
(***************************************************************************)

\* Mutated form: the new configuration takes the place of the current one.
WithReplacedConfig(config) == [configs EXCEPT ![Len(configs)] = config]

WithConfig(config) == Append(configs, config)

SetConfig(caller, config) ==
  /\ caller = CurrentConfig.gov
  /\ config.validity_bond > 0
  /\ config.min_resolution_bond > 0
  /\ Len(configs) < MaxConfigs
  /\ configs' = WithConfig(config)
  /\ UNCHANGED << whitelist, data_requests, paused, balance, answers, now >>

TogglePause(caller) ==
  /\ caller = CurrentConfig.gov
  /\ paused' = ~paused
  /\ UNCHANGED << whitelist, configs, data_requests, balance, answers, now >>

\* The first entry creates the whitelist.
AddToWhitelist(caller, requester, multiplier) ==
  LET listed == IF whitelist = NoWhitelist THEN {} ELSE DOMAIN whitelist
  IN  /\ caller = CurrentConfig.gov
      /\ multiplier # 0
      /\ whitelist' = [r \in listed \union {requester} |->
                         IF r = requester THEN multiplier ELSE whitelist[r]]
      /\ UNCHANGED << configs, data_requests, paused, balance, answers, now >>

RemoveFromWhitelist(caller, requester) ==
  /\ caller = CurrentConfig.gov
  /\ whitelist # NoWhitelist
  /\ whitelist' = [r \in DOMAIN whitelist \ {requester} |-> whitelist[r]]
  /\ UNCHANGED << configs, data_requests, paused, balance, answers, now >>

---------------------------------------------------------------------------
(***************************************************************************)
(* The specification                                                       *)
(***************************************************************************)

\* Block time moves on.
Tick ==
  /\ now < MaxTimestamp
  /\ now' = now + 1
  /\ UNCHANGED << whitelist, configs, data_requests, paused, balance, answers >>

Init ==
  /\ whitelist \in InitialWhitelists
  /\ configs \in {<< c >> : c \in Configs}
  /\ data_requests = << >>
  /\ paused = FALSE
  /\ balance = [t \in Tokens |-> 0]
  /\ answers = << >>
  /\ now = 0

RequestNext(id) ==
  \/ \E token \in Tokens, sender \in Stakers, amount \in StakeAmounts, outcome \in Outcomes :
       DrStake(token, sender, amount, id, outcome)
  \/ \E sender \in Stakers, round \in DOMAIN data_requests[id].resolution_windows,
        outcome \in Outcomes, amount \in StakeAmounts, succeeds \in TransferResults :
       DrUnstake(sender, id, round, outcome, amount, succeeds)
  \/ \E succeeds \in TransferResults : DrFinalize(id, succeeds)
  \/ \E caller \in Accounts, outcome \in Outcomes : DrFinalizeByProvider(caller, id, outcome)
  \/ \E caller \in Accounts, outcome \in Outcomes, succeeds \in TransferResults :
       DrFinalArbitratorFinalize(caller, id, outcome, succeeds)
  \/ \E account \in Stakers, stake_succeeds, payment_succeeds \in TransferResults :
       DrClaim(account, id, stake_succeeds, payment_succeeds)

GovernanceNext ==
  \E caller \in Accounts :
    \/ \E config \in Configs : SetConfig(caller, config)
    \/ TogglePause(caller)
    \/ \E requester \in Requesters, multiplier \in Multipliers :
         AddToWhitelist(caller, requester, multiplier)
    \/ \E requester \in Requesters : RemoveFromWhitelist(caller, requester)

Next ==
  \/ \E token \in Tokens, sender \in Requesters, amount \in Payments, payload \in Payloads :
       DrNew(token, sender, amount, payload)
  \/ \E id \in DOMAIN data_requests : RequestNext(id)
  \/ GovernanceNext
  \/ Tick

Spec == Init /\ [][Next]_vars
=================================================================================
