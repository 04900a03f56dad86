--------------------------------- MODULE MCOracle ---------------------------------
(***************************************************************************)
(* Small instances of the oracle for TLC.                                  *)
(***************************************************************************)
EXTENDS OracleRefinement, Views, TLC

CONSTANTS
  s1, s2,           \* stakers
  req,              \* a requester
  gov, arb, prov,   \* governance, final arbitrator, provider
  yes, no,          \* answers
  flux, near        \* tokens

MCStakers    == {s1, s2}
MCOneStaker  == {s1}
MCRequesters == {req}
MCAccounts   == {s1, s2, req, gov, arb, prov}
MCOutcomes   == {yes, no, Invalid}
MCTwoTokens  == {flux, near}
MCOneToken   == {flux}

Config(payment_token, stake_token, validity_bond, invoke_amount, min_resolution_bond) ==
  [ gov                                   |-> gov,
    final_arbitrator                      |-> arb,
    payment_token                         |-> payment_token,
    stake_token                           |-> stake_token,
    validity_bond                         |-> validity_bond,
    default_challenge_window_duration     |-> 1,
    min_initial_challenge_window_duration |-> 1,
    final_arbitrator_invoke_amount        |-> invoke_amount,
    min_resolution_bond                   |-> min_resolution_bond ]

AskFor(outcomes, data_type, challenge_period, provider) ==
  [ outcomes         |-> outcomes,
    data_type        |-> data_type,
    challenge_period |-> challenge_period,
    provider         |-> provider ]

MCNoWhitelists == {NoWhitelist}
MCNoMultipliers == {}
MCTransfersSucceed == {TRUE}
MCTransfersMayFail == {TRUE, FALSE}

\* Interleaving: bonds of 2 and 4, the second of which calls in the arbitrator.
MCTwoRounds == {Config(near, flux, 1, 4, 1)}

\* Ladder: bonds of 2, 4 and 8.
MCThreeRounds == {Config(near, flux, 1, 8, 1)}

\* An ordinary question, with a first challenge period longer than the others.
MCCrowd == {AskFor(MCOutcomes, MCOutcomes, 2, NoProvider)}

\* A question whose answer no is listed but has the wrong type: the arbitrator
\* can choose it, but nobody can stake on it.
MCMistyped == {AskFor(MCOutcomes, {yes, Invalid}, 2, NoProvider)}

\* The same, with a provider.
MCMistypedOrProvided == MCMistyped \union {AskFor(MCOutcomes, {yes, Invalid}, 1, prov)}

MCOneTokenConfig == {Config(flux, flux, 1, 4, 1)}

\* Payment and stake token change places.
MCSwappedTokens == {Config(near, flux, 1, 4, 1), Config(flux, near, 1, 4, 1)}

MCCrowdShort == {AskFor(MCOutcomes, {yes, Invalid}, 1, NoProvider)}

MCPayments    == {1, 2}
MCOnePayment  == {1}
MCFees        == {1, 3}
MCSmallStakes == {1, 3}
MCLadderStakes == {2, 8}
MCGovStakes == {2, 4}

MCMultipliers == {20000}
MCWhitelists == {NoWhitelist, req :> NoMultiplier}

\* A multiplier of one half.
MCHalf == {5000}

MCStakersSymmetry == Permutations(MCStakers)
=================================================================================
