-------------------------------- MODULE MCEventLog --------------------------------
(***************************************************************************)
(* A small instance of the oracle and an indexer of its log for TLC.       *)
(***************************************************************************)
EXTENDS EventLog

CONSTANTS
  s1, s2,    \* stakers, of whom s1 also asks
  gov, arb,  \* governance; final arbitrator, also a provider
  flux       \* the token

MCStakers    == {s1, s2}
MCRequesters == {s1}
MCAccounts   == {s1, s2, gov, arb}
MCTokens     == {flux}

\* An answer that reads like Invalid.
MCOutcomes   == {"invalid", Invalid}

\* Bonds of 2 and 4, the second of which calls in the arbitrator.
MCConfigs ==
  {[ gov                                   |-> gov,
     final_arbitrator                      |-> arb,
     payment_token                         |-> flux,
     stake_token                           |-> flux,
     validity_bond                         |-> 1,
     default_challenge_window_duration     |-> 1,
     min_initial_challenge_window_duration |-> 1,
     final_arbitrator_invoke_amount        |-> 4,
     min_resolution_bond                   |-> 1 ]}

MCPayloads ==
  {[ outcomes         |-> MCOutcomes,
     data_type        |-> MCOutcomes,
     challenge_period |-> 1,
     provider         |-> arb ]}

Fee(percentage) ==
  [flux_market_cap |-> 2, total_value_staked |-> 1, resolution_fee_percentage |-> percentage]

\* A fee, and one that only set_config and the constructor accept.
MCFees == {Fee(1), Fee(9)}

MCWhitelists  == {NoWhitelist, s1 :> NoMultiplier}
MCMultipliers == {10000}
MCSucceed     == {TRUE}
MCPayments    == {2}
MCStakes      == {3}
=================================================================================
