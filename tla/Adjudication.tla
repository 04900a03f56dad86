------------------------------- MODULE Adjudication -------------------------------
(***************************************************************************)
(* What the oracle promises those who ask it, without stakes, bonds or     *)
(* windows: each case has an outcome that stands, which anybody may replace*)
(* by another one; a case is settled for an outcome that has stood         *)
(* unreplaced for at least MinPeriod, or ruled on once it has been         *)
(* escalated, or decided by the provider its requester appointed; and a    *)
(* verdict is never revised.                                               *)
(***************************************************************************)
EXTENDS Naturals, Sequences

CONSTANTS
  Outcomes,   \* the possible verdicts
  NoOutcome,  \* no outcome stands yet, or there is no verdict yet
  MinPeriod   \* how long, at least, an outcome stands before it is settled

VARIABLES
  cases,      \* the cases opened so far
  now         \* the time

vars == << cases, now >>

NewCase(appointed) ==
  [ standing  |-> NoOutcome,
    since     |-> 0,          \* since when the outcome stands; 0 if it is no longer counted
    escalated |-> FALSE,
    appointed |-> appointed,  \* whether the requester appointed a provider
    verdict   |-> NoOutcome ]

IsOpen(c) == c.verdict = NoOutcome

Open ==
  \E appointed \in BOOLEAN : cases' = Append(cases, NewCase(appointed))

\* An outcome is put in the place of the one that stands.
Assert(i, o) ==
  /\ IsOpen(cases[i])
  /\ ~cases[i].escalated
  /\ o # cases[i].standing
  /\ cases' = [cases EXCEPT ![i].standing = o, ![i].since = now]

\* The same, and the case goes to the arbitrator.
Escalate(i, o) ==
  /\ IsOpen(cases[i])
  /\ ~cases[i].escalated
  /\ o # cases[i].standing
  /\ cases' = [cases EXCEPT ![i].standing = o, ![i].since = 0, ![i].escalated = TRUE]

Settle(i) ==
  /\ IsOpen(cases[i])
  /\ ~cases[i].escalated
  /\ cases[i].standing # NoOutcome
  /\ now >= cases[i].since + MinPeriod
  /\ cases' = [cases EXCEPT ![i].verdict = cases[i].standing]

\* The arbitrator or the provider decides, for any outcome.
Rule(i, o) ==
  /\ IsOpen(cases[i])
  /\ cases[i].escalated \/ cases[i].appointed
  /\ cases' = [cases EXCEPT ![i].verdict = o]

Judge ==
  \/ Open
  \/ \E i \in DOMAIN cases :
       \/ Settle(i)
       \/ \E o \in Outcomes : Assert(i, o) \/ Escalate(i, o) \/ Rule(i, o)

Advance == now' > now /\ UNCHANGED cases

Init == cases = << >> /\ now = 0

Next == (Judge /\ UNCHANGED now) \/ Advance

Spec == Init /\ [][Next]_vars
=================================================================================
