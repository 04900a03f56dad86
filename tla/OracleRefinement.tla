----------------------------- MODULE OracleRefinement -----------------------------
(***************************************************************************)
(* The oracle implements Adjudication: the outcome that stands is the one  *)
(* bonded last, and it has stood since the window above it was opened.     *)
(***************************************************************************)
EXTENDS OracleProperties

CONSTANT MinPeriod  \* the shortest challenge period of any configuration

ASSUME MinPeriodAssumption ==
  /\ MinPeriod \in Nat
  /\ \A c \in Configs :
       /\ MinPeriod <= c.min_initial_challenge_window_duration
       /\ MinPeriod <= c.default_challenge_window_duration

\* The outcome of the last bonded window.
Standing(dr) ==
  IF dr.final_arbitrator_triggered THEN LastWindow(dr).bonded_outcome
  ELSE IF Rounds(dr) >= 2 THEN dr.resolution_windows[Rounds(dr) - 1].bonded_outcome
  ELSE NoOutcome

StandingSince(dr) ==
  IF ~dr.final_arbitrator_triggered /\ Rounds(dr) >= 2 THEN LastWindow(dr).start_time ELSE 0

CaseOf(dr) ==
  [ standing  |-> Standing(dr),
    since     |-> StandingSince(dr),
    escalated |-> dr.final_arbitrator_triggered,
    appointed |-> dr.provider # NoProvider,
    verdict   |-> dr.finalized_outcome ]

Cases == [id \in DOMAIN data_requests |-> CaseOf(data_requests[id])]

Adj == INSTANCE Adjudication WITH cases <- Cases

(***************************************************************************)
(* Every behaviour of the contract, seen through the bonded outcomes, is   *)
(* one that Adjudication allows: no call order settles a request before its*)
(* standing outcome went unchallenged for a whole challenge period, lets a *)
(* challenge replace the outcome once the arbitrator was called in, lets a *)
(* provider decide a request that did not appoint one, or revises a verdict*)
(***************************************************************************)
ImplementsAdjudication == Adj!Spec
=================================================================================
