------------------------------- MODULE DataRequest -------------------------------
(***************************************************************************)
(* One data request: the operations that oracle/src/data_request.rs gives  *)
(* ActiveDataRequest and FinalizedDataRequest, as operators on a record.   *)
(*                                                                         *)
(* The enum DataRequest is one record here: a request is active while its  *)
(* finalized_outcome is NoOutcome.  trim_dr drops most fields when it      *)
(* finalises; keeping them changes nothing, as no later operation reads    *)
(* them.  Description, sources and tags are left out; outcomes and         *)
(* data_type are the sets of outcomes that assert_valid_outcome and        *)
(* assert_valid_outcome_type let through.                                  *)
(***************************************************************************)
EXTENDS ResolutionWindow, Sequences, FiniteSetsExt

CONSTANTS
  Accounts,     \* every account that calls the oracle
  Invalid,      \* Outcome::Invalid
  NoProvider,   \* provider = None
  NoMultiplier  \* stake_multiplier = None

ASSUME RequestAssumption ==
  /\ Stakers \subseteq Accounts
  /\ Invalid \in Outcomes
  /\ NoProvider \notin Accounts
  /\ NoMultiplier \notin Nat

\* Account ids and answers are of bounded length, so there are finitely many.
ASSUME FiniteAssumption == IsFiniteSet(Stakers) /\ IsFiniteSet(Outcomes)

OptionalMultiplier == Nat \union {NoMultiplier}

RequestConfig ==
  [ default_challenge_window_duration : Nat,
    final_arbitrator_invoke_amount    : Nat,
    final_arbitrator                  : Accounts,
    validity_bond                     : Nat,
    stake_multiplier                  : OptionalMultiplier,
    paid_fee                          : Nat,
    min_resolution_bond               : Nat ]

Request ==
  [ requester                  : Accounts,
    provider                   : Accounts \union {NoProvider},
    outcomes                   : SUBSET Outcomes,
    data_type                  : SUBSET Outcomes,
    global_config_id           : Nat,
    request_config             : RequestConfig,
    initial_challenge_period   : Nat,
    final_arbitrator_triggered : BOOLEAN,
    resolution_windows         : Seq(Window),
    finalized_outcome          : Outcomes \union {NoOutcome} ]

IsActive(dr) == dr.finalized_outcome = NoOutcome

Rounds(dr) == Len(dr.resolution_windows)

LastWindow(dr) == dr.resolution_windows[Rounds(dr)]

---------------------------------------------------------------------------
(***************************************************************************)
(* Creating a request                                                      *)
(***************************************************************************)

NewRequest(requester, stake_multiplier, config_id, config, paid_fee, payload) ==
  [ requester                  |-> requester,
    provider                   |-> payload.provider,
    outcomes                   |-> payload.outcomes,
    data_type                  |-> payload.data_type,
    global_config_id           |-> config_id,
    request_config             |->
      [ default_challenge_window_duration |-> config.default_challenge_window_duration,
        final_arbitrator_invoke_amount    |-> config.final_arbitrator_invoke_amount,
        final_arbitrator                  |-> config.final_arbitrator,
        validity_bond                     |-> config.validity_bond,
        stake_multiplier                  |-> stake_multiplier,
        paid_fee                          |-> paid_fee,
        min_resolution_bond               |-> config.min_resolution_bond ],
    initial_challenge_period   |-> payload.challenge_period,
    final_arbitrator_triggered |-> FALSE,
    resolution_windows         |-> << >>,
    finalized_outcome          |-> NoOutcome ]

---------------------------------------------------------------------------
(***************************************************************************)
(* Staking on an active request                                            *)
(***************************************************************************)

\* A multiplier is in units of 1/10000.
MultiplyStake(stake, multiplier) ==
  IF multiplier = NoMultiplier THEN stake ELSE (stake * multiplier) \div 10000

CalcResolutionBond(dr) ==
  LET c    == dr.request_config
      base == IF c.paid_fee >= c.validity_bond THEN c.paid_fee ELSE c.validity_bond
      bond == IF base < c.min_resolution_bond THEN c.min_resolution_bond ELSE base
  IN  MultiplyStake(bond, c.stake_multiplier)

\* Mutated form: the outcome that stands may be bonded again.
CanStakeOnAnyOutcome(dr, outcome) == TRUE

\* A challenge stakes on another outcome than the one that stands.
CanStakeOnOutcome(dr, outcome) ==
  Rounds(dr) > 1 =>
    dr.resolution_windows[Rounds(dr) - 1].bonded_outcome \notin {NoOutcome, outcome}

\* The window a stake goes to: the last one, or the first one, opened by this stake.
StakingWindow(dr, now) ==
  IF dr.resolution_windows = << >>
    THEN NewWindow(CalcResolutionBond(dr), dr.initial_challenge_period, now)
    ELSE LastWindow(dr)

\* The window after the stake, and what the stake leaves unspent.
StakedWindow(dr, sender, outcome, amount, now) ==
  AddStake(StakingWindow(dr, now), sender, outcome, amount)

Unspent(dr, outcome, amount, now) ==
  amount - Taken(StakingWindow(dr, now), outcome, amount)

\* The first window is pushed, a later one replaced.
WithStakedWindow(dr, w) ==
  IF dr.resolution_windows = << >>
    THEN << w >>
    ELSE [dr.resolution_windows EXCEPT ![Rounds(dr)] = w]

\* invoke_final_arbitrator
InvokesFinalArbitrator(dr, bond_size) ==
  \/ dr.final_arbitrator_triggered
  \/ bond_size >= dr.request_config.final_arbitrator_invoke_amount

\* The first challenge window lasts the requester's period, later ones the default.
ChallengeDuration(dr, rounds) ==
  IF rounds = 1
    THEN dr.initial_challenge_period
    ELSE dr.request_config.default_challenge_window_duration

\* The window that opens when w is bonded.
NextWindow(dr, w, rounds, now) ==
  NewWindow(w.bond_size, ChallengeDuration(dr, rounds), now)

\* A stake that would overflow a deadline or a bond panics.
StakeFits(dr, sender, outcome, amount, now) ==
  LET w      == StakedWindow(dr, sender, outcome, amount, now)
      rounds == Len(WithStakedWindow(dr, w))
  IN  /\ dr.resolution_windows = << >> =>
           NewWindowFits(CalcResolutionBond(dr), dr.initial_challenge_period, now)
      /\ IsBonded(w) /\ ~InvokesFinalArbitrator(dr, w.bond_size) =>
           NewWindowFits(w.bond_size, ChallengeDuration(dr, rounds), now)

\* stake
Staked(dr, sender, outcome, amount, now) ==
  LET w       == StakedWindow(dr, sender, outcome, amount, now)
      windows == WithStakedWindow(dr, w)
  IN  IF ~IsBonded(w)
        THEN [dr EXCEPT !.resolution_windows = windows]
      ELSE IF InvokesFinalArbitrator(dr, w.bond_size)
        THEN [dr EXCEPT !.resolution_windows = windows,
                        !.final_arbitrator_triggered = TRUE]
        ELSE [dr EXCEPT !.resolution_windows =
                Append(windows, NextWindow(dr, w, Len(windows), now))]

---------------------------------------------------------------------------
(***************************************************************************)
(* Unstaking, from an active or a finalised request                        *)
(***************************************************************************)

Unstaked(dr, sender, round, outcome, amount) ==
  [dr EXCEPT !.resolution_windows[round] = RemoveStake(@, sender, outcome, amount)]

---------------------------------------------------------------------------
(***************************************************************************)
(* Finalising                                                              *)
(***************************************************************************)

\* assert_can_finalize
CanFinalize(dr, now) ==
  /\ Rounds(dr) > 0
  /\ ~dr.final_arbitrator_triggered
  /\ now >= LastWindow(dr).end_time

\* Mutated form: one window more is asked for.
HasFinalOutcomeLater(dr) ==
  /\ Rounds(dr) > 2
  /\ IsBonded(dr.resolution_windows[Rounds(dr) - 1])

\* get_final_outcome: the outcome of the last window but one, which must be bonded.
HasFinalOutcome(dr) ==
  /\ Rounds(dr) >= 2
  /\ IsBonded(dr.resolution_windows[Rounds(dr) - 1])

FinalOutcome(dr) == dr.resolution_windows[Rounds(dr) - 1].bonded_outcome

\* trim_dr
Finalized(dr, outcome) == [dr EXCEPT !.finalized_outcome = outcome]

\* return_validity_bond gives nothing back for a request judged invalid.
ReturnsValidityBond(outcome) == outcome # Invalid

---------------------------------------------------------------------------
(***************************************************************************)
(* Claiming from a finalised request                                       *)
(***************************************************************************)

CorrectRounds(dr) ==
  {r \in DOMAIN dr.resolution_windows :
     IsCorrect(dr.resolution_windows[r], dr.finalized_outcome)}

IncorrectRounds(dr) ==
  {r \in DOMAIN dr.resolution_windows :
     IsIncorrect(dr.resolution_windows[r], dr.finalized_outcome)}

TotalBonds(dr, rounds) ==
  MapThenSumSet(LAMBDA r : dr.resolution_windows[r].bond_size, rounds)

UserCorrectStake(dr, account) ==
  MapThenSumSet(
    LAMBDA r : dr.resolution_windows[r].user_to_outcome_to_stake[account][dr.finalized_outcome],
    CorrectRounds(dr))

\* Mutated form: the quotient is rounded up.
CalcProductUp(a, b, divisor) == (a * b + divisor - 1) \div divisor

CalcProduct(a, b, divisor) == (a * b) \div divisor

\* An account's share of pot, in proportion to its part of the correct stake.
ProfitShare(dr, account, pot) ==
  LET correct == TotalBonds(dr, CorrectRounds(dr))
  IN  IF correct = 0 THEN 0 ELSE CalcProduct(UserCorrectStake(dr, account), pot, correct)

\* Mutated form: the losing bonds are forgotten.
StakePayoutWithoutProfit(dr, account) == UserCorrectStake(dr, account)

StakePayout(dr, account) ==
  UserCorrectStake(dr, account)
    + ProfitShare(dr, account, TotalBonds(dr, IncorrectRounds(dr)))

PaymentPayout(dr, account) == ProfitShare(dr, account, dr.request_config.paid_fee)

Claimed(dr, account) ==
  [dr EXCEPT !.resolution_windows =
     [r \in DOMAIN @ |-> TakeClaimedStake(@[r], account, dr.finalized_outcome)]]
---------------------------------------------------------------------------
(***************************************************************************)
(* The ladder of windows of a request                                      *)
(***************************************************************************)

\* A bonded outcome carries exactly its bond, and no other outcome does.
FilledToBond(w) ==
  /\ \A o \in Outcomes : w.outcome_to_stake[o] <= w.bond_size
  /\ IsBonded(w) => w.outcome_to_stake[w.bonded_outcome] = w.bond_size
  /\ w.bond_size > 0 =>
       \A o \in Outcomes \ {w.bonded_outcome} : w.outcome_to_stake[o] < w.bond_size

BondedIffFull(dr) ==
  \A r \in DOMAIN dr.resolution_windows : FilledToBond(dr.resolution_windows[r])

\* Every window but the last is bonded.
OnlyLastOpen(dr) ==
  \A r \in DOMAIN dr.resolution_windows :
    r < Rounds(dr) => IsBonded(dr.resolution_windows[r])

\* A challenge bonds another outcome, with twice the bond.
ChallengesEscalate(dr) ==
  \A r \in DOMAIN dr.resolution_windows :
    r > 1 => LET w    == dr.resolution_windows[r]
                 prev == dr.resolution_windows[r - 1]
             IN  /\ w.bond_size = prev.bond_size * 2
                 /\ w.bonded_outcome # prev.bonded_outcome

\* The arbitrator is called in exactly when the last window is bonded, which
\* takes a bond that no earlier window had.
ArbitratorEndsLadder(dr) ==
  /\ dr.final_arbitrator_triggered <=>
       Rounds(dr) > 0 /\ IsBonded(LastWindow(dr))
  /\ \A r \in DOMAIN dr.resolution_windows :
       IsBonded(dr.resolution_windows[r]) =>
         ( dr.resolution_windows[r].bond_size
             >= dr.request_config.final_arbitrator_invoke_amount
           <=> (r = Rounds(dr)) )

Ladder(dr) ==
  /\ BondedIffFull(dr)
  /\ OnlyLastOpen(dr)
  /\ ChallengesEscalate(dr)
  /\ ArbitratorEndsLadder(dr)

---------------------------------------------------------------------------
(***************************************************************************)
(* What is staked on a request, and what it owes                           *)
(***************************************************************************)

UserStake(w, u, o) == w.user_to_outcome_to_stake[u][o]

StakeOfAll(w, o) == MapThenSumSet(LAMBDA u : UserStake(w, u, o), Stakers)

\* The two LookupMaps of a window agree.
StakesAgree(w) == \A o \in Outcomes : w.outcome_to_stake[o] = StakeOfAll(w, o)

\* Stake that its owners may still withdraw: everything but the bonded outcome.
OpenStakeIn(w) ==
  MapThenSumSet(LAMBDA o : StakeOfAll(w, o), Outcomes \ {w.bonded_outcome})

OpenStake(dr) ==
  MapThenSumSet(LAMBDA r : OpenStakeIn(dr.resolution_windows[r]), DOMAIN dr.resolution_windows)

BondedRounds(dr) ==
  {r \in DOMAIN dr.resolution_windows : IsBonded(dr.resolution_windows[r])}

\* What the oracle owes the stakers of a request in its stake token.
StakeOwed(dr) ==
  OpenStake(dr) +
    IF IsActive(dr)
      THEN TotalBonds(dr, BondedRounds(dr))
      ELSE MapThenSumSet(LAMBDA u : StakePayout(dr, u), Stakers)

\* What it owes stakers and requester in its payment token.
PaymentOwed(dr) ==
  IF IsActive(dr)
    THEN dr.request_config.paid_fee + dr.request_config.validity_bond
    ELSE MapThenSumSet(LAMBDA u : PaymentPayout(dr, u), Stakers)

\* What may stay behind in the oracle once a request is final: rounding dust of
\* each claim, or the whole pot when no bond was behind the final outcome.
StakeLeftBehind(dr) ==
  IF IsActive(dr) THEN 0
  ELSE IF TotalBonds(dr, CorrectRounds(dr)) = 0 THEN TotalBonds(dr, BondedRounds(dr))
  ELSE Cardinality(Stakers) - 1

\* As above for the fee, and the validity bond of a request judged invalid or
\* decided by its provider.
PaymentLeftBehind(dr) ==
  IF IsActive(dr) THEN 0
  ELSE (IF TotalBonds(dr, CorrectRounds(dr)) = 0
          THEN dr.request_config.paid_fee ELSE Cardinality(Stakers) - 1)
       + (IF dr.finalized_outcome = Invalid \/ dr.provider # NoProvider
            THEN dr.request_config.validity_bond ELSE 0)
=================================================================================
