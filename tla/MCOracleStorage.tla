------------------------------ MODULE MCOracleStorage ------------------------------
(***************************************************************************)
(* A small instance of the oracle's storage accounting for TLC.            *)
(***************************************************************************)
EXTENDS OracleStorage, TLC

CONSTANTS
  s1, s2,    \* stakers, of whom s1 also asks
  gov, arb,  \* governance; final arbitrator, also a provider
  yes,       \* an answer
  flux       \* the token

MCStakers    == {s1, s2}
MCRequesters == {s1}
MCAccounts   == {s1, s2, gov, arb}
MCOutcomes   == {yes, Invalid}
MCTokens     == {flux}

\* Bonds of 2 and 4, the second of which calls in the arbitrator.
MCConfigs ==
  {[ gov                                   |-> gov,
     final_arbitrator                      |-> arb,
     payment_token                         |-> flux,
     stake_token                           |-> flux,
     validity_bond                         |-> 1,
     default_challenge_window_duration     |-> 1,
     min_initial_challenge_window_duration |-> 1,
     final_arbitrator_invoke_amount        |-> 4,
     min_resolution_bond                   |-> 1 ]}

MCPayloads ==
  {[ outcomes         |-> MCOutcomes,
     data_type        |-> MCOutcomes,
     challenge_period |-> 1,
     provider         |-> arb ]}

\* The answer is longer than all that finalising drops from a request.
MCBytes ==
  [ request |-> 4, final |-> (yes :> 5 @@ Invalid :> 2), window |-> 2, bonded |-> 1,
    outcome |-> 1, user |-> 1, stake |-> 2, config |-> 3, requester |-> 3 ]

MCNoWhitelists  == {NoWhitelist}
MCNoMultipliers == {NoMultiplier}
MCSucceed       == {TRUE}
MCPayments      == {2}
MCStakes        == {2}
=================================================================================
