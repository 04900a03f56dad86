----------------------------- MODULE OracleProperties -----------------------------
(***************************************************************************)
(* What the oracle contract keeps true.                                    *)
(***************************************************************************)
EXTENDS Oracle

(***************************************************************************)
(* Every variable has the type its declaration in the code gives it.       *)
(***************************************************************************)
TypeOK ==
  /\ whitelist = NoWhitelist \/ IsWhitelist(whitelist)
  /\ configs \in Seq(OracleConfig) /\ configs # << >>
  /\ data_requests \in Seq(Request)
  /\ \A id \in DOMAIN data_requests : data_requests[id].global_config_id \in DOMAIN configs
  /\ paused \in BOOLEAN
  /\ balance \in [Tokens -> Nat]
  /\ answers \in Seq(Seq(Outcomes)) /\ Len(answers) = Len(data_requests)
  /\ now \in Nat

---------------------------------------------------------------------------
(***************************************************************************)
(* The ladder of windows of a request                                      *)
(***************************************************************************)

(***************************************************************************)
(* However stakes, withdrawals, verdicts and claims interleave, the windows*)
(* of a request form a ladder: each bonded for another outcome than the one*)
(* below and with twice its bond, only the top one open, and the top one   *)
(* bonded exactly when the final arbitrator has been called in             *)
(* (ActiveDataRequest::stake; get_final_outcome, assert_can_stake_on_outcome*)
(* and claim_for rely on it).                                              *)
(***************************************************************************)
DisputeLadder == \A id \in DOMAIN data_requests : Ladder(data_requests[id])

---------------------------------------------------------------------------
(***************************************************************************)
(* Tokens                                                                  *)
(***************************************************************************)

(***************************************************************************)
(* While a request is active, the stake recorded for each outcome of each  *)
(* window is the sum of what the stakers have on it: the two LookupMaps of *)
(* a window, updated one after the other by stake and unstake, agree, and  *)
(* a bond is backed by stakers who cannot leave.                           *)
(***************************************************************************)
StakesAddUp ==
  \A id \in DOMAIN data_requests :
    IsActive(data_requests[id]) =>
      \A r \in DOMAIN data_requests[id].resolution_windows :
        StakesAgree(data_requests[id].resolution_windows[r])

InToken(token, wanted, amount) == IF token = wanted THEN amount ELSE 0

\* What is owed in a token on a request made under a configuration; its stake
\* and its payment may be in the same token.
OwedOn(token, config, dr) ==
  InToken(token, config.stake_token, StakeOwed(dr))
    + InToken(token, config.payment_token, PaymentOwed(dr))

Owed(token) ==
  MapThenSumSet(LAMBDA id : OwedOn(token, ConfigOf(data_requests[id]), data_requests[id]),
                DOMAIN data_requests)

(***************************************************************************)
(* The oracle can always pay what every request still owes, in the token of*)
(* that request, although the tokens of all requests lie in one account and*)
(* claims, withdrawals and verdicts come in any order: no claim is paid    *)
(* twice and the rounded shares of a pot never add up to more than the pot *)
(* (claim, claim_for, calc_product, dr_unstake, return_validity_bond).     *)
(***************************************************************************)
Solvent == \A t \in Tokens : Owed(t) <= balance[t]

LeftOn(token, config, dr) ==
  InToken(token, config.stake_token, StakeLeftBehind(dr))
    + InToken(token, config.payment_token, PaymentLeftBehind(dr))

LeftBehind(token) ==
  MapThenSumSet(LAMBDA id : LeftOn(token, ConfigOf(data_requests[id]), data_requests[id]),
                DOMAIN data_requests)

(***************************************************************************)
(* If every payout succeeds, no more tokens stay in the oracle than it owes*)
(* and the listed remainders: rounding dust, the pot of a request decided  *)
(* for an outcome that nobody bonded, or whose bonds were rounded to 0, and*)
(* a validity bond that is not returned.  Nothing else is stranded by any  *)
(* order of calls.                                                         *)
(***************************************************************************)
NothingElseStranded ==
  \A t \in Tokens : balance[t] <= Owed(t) + LeftBehind(t)

---------------------------------------------------------------------------
(***************************************************************************)
(* Verdicts and terms                                                      *)
(***************************************************************************)

(***************************************************************************)
(* The requester is told the final outcome of its request exactly once,    *)
(* whichever of the three finalising handlers decides and whatever else    *)
(* races with it, and the outcome on record is the one it was told         *)
(* (set_outcome; dr_get_expect_active).                                    *)
(***************************************************************************)
AnsweredOnce ==
  \A id \in DOMAIN data_requests :
    LET dr == data_requests[id]
    IN  answers[id] = IF IsActive(dr) THEN << >> ELSE << dr.finalized_outcome >>

\* A step that leaves the requests there are on the terms they were made on.
TermsKept ==
  \A id \in DOMAIN data_requests :
    /\ data_requests'[id].request_config = data_requests[id].request_config
    /\ ConfigOf(data_requests[id])' = ConfigOf(data_requests[id])

(***************************************************************************)
(* What governance does later never changes the terms of a request that    *)
(* was already made: its copy of the configuration, and the tokens its     *)
(* configuration id leads to (set_config, ActiveDataRequest::new).         *)
(***************************************************************************)
TermsFixed == [][TermsKept]_vars

---------------------------------------------------------------------------
(***************************************************************************)
(* Progress                                                                *)
(***************************************************************************)

(***************************************************************************)
(* Blocks keep coming, somebody calls the permissionless dr_finalize of a  *)
(* request that stays ready for it, and an arbitrator that has been called *)
(* in decides.                                                             *)
(***************************************************************************)
Fairness ==
  /\ WF_vars(Tick)
  /\ \A id \in 1 .. MaxRequests :
       /\ WF_vars(/\ id \in DOMAIN data_requests
                  /\ \E succeeds \in TransferResults : DrFinalize(id, succeeds))
       /\ WF_vars(/\ id \in DOMAIN data_requests
                  /\ \E caller \in Accounts, outcome \in Outcomes, succeeds \in TransferResults :
                       DrFinalArbitratorFinalize(caller, id, outcome, succeeds))

FairSpec == Spec /\ Fairness

\* Some outcome of the request has been bonded.
HasStanding(id) ==
  /\ id \in DOMAIN data_requests
  /\ BondedRounds(data_requests[id]) # {}

IsFinal(id) ==
  /\ id \in DOMAIN data_requests
  /\ ~IsActive(data_requests[id])

(***************************************************************************)
(* If governance eventually leaves the oracle unpaused, a request with a   *)
(* bonded outcome becomes final, however long it is challenged: the bonds  *)
(* double until the arbitrator is called in, and a challenge that is not   *)
(* bonded in time does not hold the request up.                            *)
(***************************************************************************)
EventuallyFinal ==
  <>[](~paused) => \A id \in 1 .. MaxRequests : HasStanding(id) ~> IsFinal(id)
---------------------------------------------------------------------------
(***************************************************************************)
(* Statements of the code's comments and assertions that it does not meet  *)
(***************************************************************************)

(***************************************************************************)
(* The validity bond of a request whose fee is smaller than the bond is    *)
(* paid out to its validators: calc_resolution_bond says so, and dr_claim  *)
(* says it distributes "fee + bond".  Once such a request is final, with   *)
(* validators that were right, and nothing of it is left to claim, no more *)
(* than rounding dust may stay in the oracle.  Meant for a single request. *)
(***************************************************************************)
ValidityBondPaidOut ==
  \A id \in DOMAIN data_requests :
    LET dr == data_requests[id]
    IN  /\ ~IsActive(dr)
        /\ CorrectRounds(dr) # {}
        /\ dr.request_config.paid_fee < dr.request_config.validity_bond
        /\ StakeOwed(dr) = 0
        /\ PaymentOwed(dr) = 0
        => balance[ConfigOf(dr).payment_token] < Cardinality(Stakers)

(***************************************************************************)
(* "resolution bond has to be higher than 0": set_config asserts it of the *)
(* configuration, and add_to_whitelist that a multiplier is not 0; the bond*)
(* of a request made under both is then higher than 0 too.                 *)
(***************************************************************************)
ResolutionBondPositive ==
  \A id \in DOMAIN data_requests : CalcResolutionBond(data_requests[id]) > 0
=================================================================================
