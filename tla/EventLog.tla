--------------------------------- MODULE EventLog ---------------------------------
(***************************************************************************)
(* What the oracle logs (oracle/src/logger.rs), and what an indexer makes  *)
(* of it.  A log line names a row by its cap_id and some of its fields; an *)
(* indexer that applies the lines in the order they come holds, of every   *)
(* row, the last value of each field.  Transactions are not rows: they add *)
(* up.                                                                     *)
(*                                                                         *)
(* A cap_id is the sequence of its words; dates, block heights and texts   *)
(* are left out.  The fees of a configuration, which nothing but the log   *)
(* reads, are here too.                                                    *)
(***************************************************************************)
EXTENDS Views

CONSTANTS
  Fees,             \* the fee configurations governance may choose
  MaxFeePercentage  \* MAX_RESOLUTION_FEE_PERCENTAGE of flux_sdk

VARIABLES
  fees,    \* the field fee of each of configs
  view,    \* the rows the indexer holds
  tally    \* of each staker and request, the tokens of its transactions: in less out

logVars == << fees, view, tally >>
allVars == << vars, logVars >>

FeeConfig ==
  [flux_market_cap : Nat, total_value_staked : Nat, resolution_fee_percentage : Nat]

ASSUME EventLogAssumption ==
  /\ IsFiniteSet(Requesters)
  /\ Fees \subseteq FeeConfig
  /\ MaxFeePercentage \in Nat

---------------------------------------------------------------------------
(***************************************************************************)
(* The lines                                                               *)
(***************************************************************************)

Line(cap_id, params) == [cap_id |-> cap_id, params |-> params]

\* A row with some of its fields written.
Written(row, params) ==
  [field \in DOMAIN row \union DOMAIN params |->
     IF field \in DOMAIN params THEN params[field] ELSE row[field]]

\* The indexer applies a line.
Upsert(rows, line) ==
  LET row == IF line.cap_id \in DOMAIN rows THEN rows[line.cap_id] ELSE << >>
  IN  [key \in DOMAIN rows \union {line.cap_id} |->
         IF key = line.cap_id THEN Written(row, line.params) ELSE rows[key]]

LogNewDataRequest(id, dr) ==
  Line(<< "dr", id >>,
       [ outcomes                   |-> dr.outcomes,
         requester                  |-> dr.requester,
         finalized_outcome          |-> NoOutcome,
         initial_challenge_period   |-> dr.initial_challenge_period,
         final_arbitrator_triggered |-> dr.final_arbitrator_triggered,
         paid_fee                   |-> dr.request_config.paid_fee,
         stake_multiplier           |-> dr.request_config.stake_multiplier,
         global_config_id           |-> dr.global_config_id,
         data_type                  |-> dr.data_type ])

LogUpdateActiveDataRequest(id, dr) ==
  Line(<< "dr", id >>,
       [ outcomes                   |-> dr.outcomes,
         requester                  |-> dr.requester,
         initial_challenge_period   |-> dr.initial_challenge_period,
         final_arbitrator_triggered |-> dr.final_arbitrator_triggered ])

LogUpdateFinalizedDataRequest(id, dr) ==
  Line(<< "dr", id >>, [finalized_outcome |-> dr.finalized_outcome])

\* log_update
LogUpdate(id, dr) ==
  IF IsActive(dr) THEN LogUpdateActiveDataRequest(id, dr)
                  ELSE LogUpdateFinalizedDataRequest(id, dr)

LogOracleConfig(i, config, fee) == Line(<< "oc", i >>, [config |-> config, fee |-> fee])

LogResolutionWindow(id, round, w) == Line(<< "rw", id, round >>, WindowSummary(w))

\* Mutated form: an answer is its own id.
OutcomeToIdWithoutPrefix(outcome) == IF outcome = Invalid THEN << "invalid" >> ELSE << outcome >>

\* The prefix tells the answer "invalid" from Invalid.
OutcomeToId(outcome) ==
  IF outcome = Invalid THEN << "invalid" >> ELSE << "ans_str", outcome >>

OutcomeStakeKey(id, round, outcome) == << "ots", id, round, OutcomeToId(outcome) >>
UserStakeKey(id, round, outcome, user) == << "us", id, round, OutcomeToId(outcome), user >>
ClaimKey(user, id) == << "c", user, id >>

LogOutcomeToStake(id, round, w, outcome) ==
  Line(OutcomeStakeKey(id, round, outcome), [total_stake |-> w.outcome_to_stake[outcome]])

LogUserStake(id, round, w, user, outcome) ==
  Line(UserStakeKey(id, round, outcome, user),
       [total_stake |-> w.user_to_outcome_to_stake[user][outcome]])

\* Two lines: one for the request, one for the claim.
LogClaim(id, dr, account) ==
  << Line(<< "dr", id >>,
          [ total_correct_bonded_staked |-> TotalBonds(dr, CorrectRounds(dr)),
            total_incorrect_staked      |-> TotalBonds(dr, IncorrectRounds(dr)) ]),
     Line(ClaimKey(account, id),
          [ user_correct_stake |-> UserCorrectStake(dr, account),
            payout             |-> StakePayout(dr, account) - UserCorrectStake(dr, account),
            fee_profit         |-> PaymentPayout(dr, account) ]) >>

LogWhitelist(requester, multiplier, active) ==
  Line(<< "wl", requester >>, [stake_multiplier |-> multiplier, active |-> active])

Logs(lines) == view' = FoldLeft(Upsert, view, lines)

\* log_transaction
LogsTransaction(account, id, input, output) ==
  tally' = [tally EXCEPT ![account][id] = @ + input - output]

---------------------------------------------------------------------------
(***************************************************************************)
(* The handlers, with what they log, in their order                        *)
(***************************************************************************)

LogDrNew(token, sender, amount, payload) ==
  /\ DrNew(token, sender, amount, payload)
  /\ Logs(<< LogNewDataRequest(Len(data_requests'), Last(data_requests')) >>)
  /\ UNCHANGED << fees, tally >>

Optional(condition, line) == IF condition THEN << line >> ELSE << >>

StakeLines(id, sender, outcome, amount) ==
  LET dr    == data_requests[id]
      next  == Staked(dr, sender, outcome, amount, now)
      w     == StakedWindow(dr, sender, outcome, amount, now)
      round == Len(WithStakedWindow(dr, w))
  IN  Optional(dr.resolution_windows = << >>,
               LogResolutionWindow(id, round, StakingWindow(dr, now)))
      \o << LogOutcomeToStake(id, round, w, outcome),
            LogUserStake(id, round, w, sender, outcome) >>
      \o Optional(w.outcome_to_stake[outcome] = w.bond_size, LogResolutionWindow(id, round, w))
      \o Optional(Rounds(next) > round, LogResolutionWindow(id, round + 1, LastWindow(next)))
      \o << LogUpdateActiveDataRequest(id, next) >>

\* Mutated form: all that was sent counts as staked.
StakeTransactionInFull(sender, id, amount, unspent) == LogsTransaction(sender, id, amount, 0)

\* log_stake_transaction
StakeTransaction(sender, id, amount, unspent) == LogsTransaction(sender, id, amount, unspent)

\* log_unstake_transaction
UnstakeTransaction(sender, id, amount) == LogsTransaction(sender, id, 0, amount)

LogDrStake(token, sender, amount, id, outcome) ==
  /\ DrStake(token, sender, amount, id, outcome)
  /\ Logs(StakeLines(id, sender, outcome, amount))
  /\ StakeTransaction(sender, id, amount, Unspent(data_requests[id], outcome, amount, now))
  /\ UNCHANGED fees

\* The transaction is logged after the two stakes.
LogDrUnstake(sender, id, round, outcome, amount, succeeds) ==
  LET w == data_requests'[id].resolution_windows[round]
  IN  /\ DrUnstake(sender, id, round, outcome, amount, succeeds)
      /\ Logs(<< LogOutcomeToStake(id, round, w, outcome),
                 LogUserStake(id, round, w, sender, outcome),
                 LogUpdate(id, data_requests'[id]) >>)
      /\ UnstakeTransaction(sender, id, amount)
      /\ UNCHANGED fees

LogFinalized(id) ==
  /\ Logs(<< LogUpdateFinalizedDataRequest(id, data_requests'[id]) >>)
  /\ UNCHANGED << fees, tally >>

LogDrClaim(account, id, stake_succeeds, payment_succeeds) ==
  /\ DrClaim(account, id, stake_succeeds, payment_succeeds)
  /\ Logs(LogClaim(id, data_requests[id], account)
            \o << LogUpdateFinalizedDataRequest(id, data_requests'[id]) >>)
  /\ UNCHANGED << fees, tally >>

\* set_config does not look at the fee.
LogSetConfig(caller, config, fee) ==
  /\ SetConfig(caller, config)
  /\ fees' = Append(fees, fee)
  /\ Logs(<< LogOracleConfig(Len(configs'), config, fee) >>)
  /\ UNCHANGED tally

UpdateFeeConfig(caller, fee) ==
  /\ caller = CurrentConfig.gov
  /\ fee.total_value_staked < fee.flux_market_cap
  /\ fee.resolution_fee_percentage <= MaxFeePercentage
  /\ fees' = [fees EXCEPT ![Len(configs)] = fee]
  /\ Logs(<< LogOracleConfig(Len(configs), CurrentConfig, fee) >>)
  /\ UNCHANGED << vars, tally >>

LogAddToWhitelist(caller, requester, multiplier) ==
  /\ AddToWhitelist(caller, requester, multiplier)
  /\ Logs(<< LogWhitelist(requester, multiplier, TRUE) >>)
  /\ UNCHANGED << fees, tally >>

\* The line shows the multiplier the caller passed, not the one that was listed.
LogRemoveFromWhitelist(caller, requester, multiplier) ==
  /\ RemoveFromWhitelist(caller, requester)
  /\ Logs(<< LogWhitelist(requester, multiplier, FALSE) >>)
  /\ UNCHANGED << fees, tally >>

---------------------------------------------------------------------------
\* Contract::new and Whitelist::new log the configuration and each requester listed.
LogInit ==
  /\ Init
  /\ fees \in {<< fee >> : fee \in Fees}
  /\ view = FoldLeft(Upsert, << >>,
       << LogOracleConfig(1, CurrentConfig, fees[1]) >>
         \o IF whitelist = NoWhitelist THEN << >>
            ELSE LET listed == SetToSeq(DOMAIN whitelist)
                 IN  [i \in DOMAIN listed |->
                        LogWhitelist(listed[i], whitelist[listed[i]], TRUE)])
  /\ tally = [u \in Stakers |-> [id \in 1 .. MaxRequests |-> 0]]

LogRequestNext(id) ==
  \/ \E token \in Tokens, sender \in Stakers, amount \in StakeAmounts, outcome \in Outcomes :
       LogDrStake(token, sender, amount, id, outcome)
  \/ \E sender \in Stakers, round \in DOMAIN data_requests[id].resolution_windows,
        outcome \in Outcomes, amount \in StakeAmounts, succeeds \in TransferResults :
       LogDrUnstake(sender, id, round, outcome, amount, succeeds)
  \/ \E succeeds \in TransferResults : DrFinalize(id, succeeds) /\ LogFinalized(id)
  \/ \E caller \in Accounts, outcome \in Outcomes :
       \/ DrFinalizeByProvider(caller, id, outcome) /\ LogFinalized(id)
       \/ \E succeeds \in TransferResults :
            DrFinalArbitratorFinalize(caller, id, outcome, succeeds) /\ LogFinalized(id)
  \/ \E account \in Stakers, stake_succeeds, payment_succeeds \in TransferResults :
       LogDrClaim(account, id, stake_succeeds, payment_succeeds)

LogGovernanceNext ==
  \E caller \in Accounts :
    \/ \E config \in Configs, fee \in Fees : LogSetConfig(caller, config, fee)
    \/ \E fee \in Fees : UpdateFeeConfig(caller, fee)
    \/ TogglePause(caller) /\ UNCHANGED logVars
    \/ \E requester \in Requesters, multiplier \in Multipliers :
         \/ LogAddToWhitelist(caller, requester, multiplier)
         \/ LogRemoveFromWhitelist(caller, requester, multiplier)

LogNext ==
  \/ \E token \in Tokens, sender \in Requesters, amount \in Payments, payload \in Payloads :
       LogDrNew(token, sender, amount, payload)
  \/ \E id \in DOMAIN data_requests : LogRequestNext(id)
  \/ LogGovernanceNext
  \/ Tick /\ UNCHANGED logVars

LogSpec == LogInit /\ [][LogNext]_allVars

---------------------------------------------------------------------------
(***************************************************************************)
(* What an indexer knows                                                   *)
(***************************************************************************)

Shown(key) == IF key \in DOMAIN view THEN view[key].total_stake ELSE 0

HasClaimed(u, id) == ClaimKey(u, id) \in DOMAIN view

\* The row of a request shows what its summary shows.
RequestShown(id) ==
  LET row == view[<< "dr", id >>]
      s   == Summarize(data_requests[id])
  IN  /\ row.global_config_id = s.global_config_id
      /\ row.paid_fee = s.paid_fee
      /\ row.finalized_outcome = data_requests[id].finalized_outcome
      /\ IsActive(data_requests[id]) =>
           /\ row.outcomes = s.outcomes
           /\ row.data_type = s.data_type
           /\ row.requester = s.requester
           /\ row.stake_multiplier = s.stake_multiplier
           /\ row.initial_challenge_period = s.initial_challenge_period
           /\ row.final_arbitrator_triggered = s.final_arbitrator_triggered
      /\ \A r \in DOMAIN s.resolution_windows : view[<< "rw", id, r >>] = s.resolution_windows[r]

\* The rows of a window show the stakes in it, but for those already claimed.
StakesShown(id, r) ==
  LET w == data_requests[id].resolution_windows[r]
  IN  \A o \in Outcomes :
        /\ Shown(OutcomeStakeKey(id, r, o)) = w.outcome_to_stake[o]
        /\ \A u \in Stakers :
             \/ Shown(UserStakeKey(id, r, o, u)) = w.user_to_outcome_to_stake[u][o]
             \/ HasClaimed(u, id) /\ IsCorrect(w, data_requests[id].finalized_outcome)

GovernanceShown ==
  /\ \A i \in DOMAIN configs : view[<< "oc", i >>] = [config |-> configs[i], fee |-> fees[i]]
  /\ \A requester \in Requesters :
       LET key == << "wl", requester >>
       IN  IF whitelist # NoWhitelist /\ requester \in DOMAIN whitelist
             THEN view[key] = [stake_multiplier |-> whitelist[requester], active |-> TRUE]
             ELSE key \in DOMAIN view => ~view[key].active

(***************************************************************************)
(* An indexer that has applied every line holds the contract's state: every*)
(* request and window as the views show it, the stake of every outcome and *)
(* user, the configurations and the whitelist.  The lines of a handler are *)
(* written before, between and after its changes of state, from values read*)
(* at different moments, and no two of them share a row by accident        *)
(* (outcome_to_id).                                                        *)
(***************************************************************************)
ViewAgrees ==
  /\ \A id \in DOMAIN data_requests :
       /\ RequestShown(id)
       /\ \A r \in DOMAIN data_requests[id].resolution_windows : StakesShown(id, r)
  /\ GovernanceShown

StakesIn(u, w) == MapThenSumSet(LAMBDA o : UserStake(w, u, o), Outcomes)

StakesOf(u, dr) ==
  MapThenSumSet(LAMBDA r : StakesIn(u, dr.resolution_windows[r]), DOMAIN dr.resolution_windows)

(***************************************************************************)
(* The transactions of a staker on a request, less what a claim says was   *)
(* its own stake, add up to what it still has staked there: no stake, rest,*)
(* withdrawal or claim is logged twice, with another amount, or not at all,*)
(* and a claim that repeats does not replace the line of the one that paid.*)
(***************************************************************************)
FlowsReconcile ==
  \A u \in Stakers, id \in DOMAIN data_requests :
    tally[u][id] - (IF HasClaimed(u, id) THEN view[ClaimKey(u, id)].user_correct_stake ELSE 0)
      = StakesOf(u, data_requests[id])
=================================================================================
