---------------------------- MODULE ResolutionWindow ----------------------------
(***************************************************************************)
(* One round of a dispute: the record ResolutionWindow of flux_sdk and the *)
(* operations of oracle/src/resolution_window.rs on it, as operators that  *)
(* return the updated record.  A call whose guard is false panics, which   *)
(* undoes the whole contract call.                                         *)
(*                                                                         *)
(* The fields dr_id and round are the position of the window in its        *)
(* request, so they are left out.  The two LookupMaps are total functions  *)
(* that hold 0 where the map has no entry (every read is unwrap_or(0)).    *)
(***************************************************************************)
EXTENDS Naturals

CONSTANTS
  Stakers,      \* the accounts that stake on outcomes
  Outcomes,     \* the answers that can be staked on, Invalid among them
  NoOutcome,    \* bonded_outcome = None
  MaxBalance,   \* the largest Balance (u128::MAX)
  MaxTimestamp  \* the largest block timestamp (u64::MAX)

ASSUME WindowAssumption ==
  /\ NoOutcome \notin Outcomes
  /\ MaxBalance \in Nat
  /\ MaxTimestamp \in Nat

Window ==
  [ start_time               : Nat,
    end_time                 : Nat,
    bond_size                : Nat,
    bonded_outcome           : Outcomes \union {NoOutcome},
    outcome_to_stake         : [Outcomes -> Nat],
    user_to_outcome_to_stake : [Stakers -> [Outcomes -> Nat]] ]

IsBonded(w) == w.bonded_outcome # NoOutcome

---------------------------------------------------------------------------
(***************************************************************************)
(* new                                                                     *)
(***************************************************************************)

\* The two checked additions of new: the deadline is a u64, the bond a u128.
NewWindowFits(prev_bond, challenge_period, start_time) ==
  /\ start_time + challenge_period <= MaxTimestamp
  /\ prev_bond * 2 <= MaxBalance

\* A window nobody has staked in.
EmptyWindow(start_time, end_time, bond_size) ==
  [ start_time               |-> start_time,
    end_time                 |-> end_time,
    bond_size                |-> bond_size,
    bonded_outcome           |-> NoOutcome,
    outcome_to_stake         |-> [o \in Outcomes |-> 0],
    user_to_outcome_to_stake |-> [u \in Stakers |-> [o \in Outcomes |-> 0]] ]

\* Mutated form: the window may be closed as soon as it opens.
NewWindowNoPeriod(prev_bond, challenge_period, start_time) ==
  EmptyWindow(start_time, start_time, prev_bond * 2)

\* Mutated form: every round asks for the same bond.
NewWindowSameBond(prev_bond, challenge_period, start_time) ==
  EmptyWindow(start_time, start_time + challenge_period, prev_bond)

NewWindow(prev_bond, challenge_period, start_time) ==
  EmptyWindow(start_time, start_time + challenge_period, prev_bond * 2)

---------------------------------------------------------------------------
(***************************************************************************)
(* stake and unstake                                                       *)
(***************************************************************************)

\* What an outcome still lacks to be bonded.
StakeOpen(w, outcome) == w.bond_size - w.outcome_to_stake[outcome]

\* The part of amount the window takes; the rest is returned as unspent.
Taken(w, outcome, amount) ==
  IF amount > StakeOpen(w, outcome) THEN StakeOpen(w, outcome) ELSE amount

AddStake(w, sender, outcome, amount) ==
  LET taken == Taken(w, outcome, amount)
      total == w.outcome_to_stake[outcome] + taken
  IN  [w EXCEPT !.outcome_to_stake[outcome] = total,
                !.user_to_outcome_to_stake[sender][outcome] = @ + taken,
                !.bonded_outcome = IF total = w.bond_size THEN outcome ELSE @]

\* Mutated form: stake behind a bonded outcome can be withdrawn.
CanUnstakeAnything(w, sender, outcome, amount) ==
  /\ amount <= w.user_to_outcome_to_stake[sender][outcome]
  /\ amount <= w.outcome_to_stake[outcome]

\* Mutated form: the amount is not compared with what is staked.
CanUnstakeAnyAmount(w, sender, outcome, amount) == w.bonded_outcome # outcome

\* The last conjunct is the checked subtraction on the outcome's total.
CanUnstake(w, sender, outcome, amount) ==
  /\ w.bonded_outcome # outcome
  /\ amount <= w.user_to_outcome_to_stake[sender][outcome]
  /\ amount <= w.outcome_to_stake[outcome]

\* Mutated form: only the outcome's total is reduced.
RemoveStakeFromTotal(w, sender, outcome, amount) ==
  [w EXCEPT !.outcome_to_stake[outcome] = @ - amount]

RemoveStake(w, sender, outcome, amount) ==
  [w EXCEPT !.outcome_to_stake[outcome] = @ - amount,
            !.user_to_outcome_to_stake[sender][outcome] = @ - amount]

---------------------------------------------------------------------------
(***************************************************************************)
(* claim_for                                                               *)
(***************************************************************************)

IsCorrect(w, final_outcome) == w.bonded_outcome = final_outcome

\* A window nobody filled is neither correct nor incorrect (NoResult).
IsIncorrect(w, final_outcome) == IsBonded(w) /\ ~IsCorrect(w, final_outcome)

\* Mutated form: the claimed stake stays on the books.
KeepClaimedStake(w, account, final_outcome) == w

\* A claim takes the account's stake on the final outcome off the books.
TakeClaimedStake(w, account, final_outcome) ==
  IF IsCorrect(w, final_outcome)
    THEN [w EXCEPT !.user_to_outcome_to_stake[account][final_outcome] = 0]
    ELSE w
=================================================================================
