------------------------------ MODULE MCOracleTokens ------------------------------
(***************************************************************************)
(* A small instance of the oracle with its tokens for TLC.                 *)
(***************************************************************************)
EXTENDS OracleTokens, TLC

CONSTANTS
  s1, s2,    \* stakers, either of whom may ask
  gov, arb,  \* governance, final arbitrator
  yes,       \* an answer
  flux       \* the token

MCStakers    == {s1, s2}
MCAccounts   == {s1, s2, gov, arb}
MCOutcomes   == {yes, Invalid}
MCTokens     == {flux}

\* One token for all.
Config(invoke_amount) ==
  [ gov                                   |-> gov,
    final_arbitrator                      |-> arb,
    payment_token                         |-> flux,
    stake_token                           |-> flux,
    validity_bond                         |-> 1,
    default_challenge_window_duration     |-> 1,
    min_initial_challenge_window_duration |-> 1,
    final_arbitrator_invoke_amount        |-> invoke_amount,
    min_resolution_bond                   |-> 1 ]

AskFor(provider) ==
  [ outcomes         |-> MCOutcomes,
    data_type        |-> MCOutcomes,
    challenge_period |-> 1,
    provider         |-> provider ]

\* Bonds of 2 and 4, the second of which calls in the arbitrator.
MCConfigs  == {Config(4)}
MCPayloads == {AskFor(arb)}

MCNoWhitelists  == {NoWhitelist}
MCNoMultipliers == {}
MCSucceed       == {TRUE}
MCStakes        == {3}
MCBalances      == {s1 :> 6 @@ s2 :> 6}
=================================================================================
