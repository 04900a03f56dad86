--------------------------- MODULE OracleRefinementProofs ---------------------------
(***************************************************************************)
(* The oracle implements Adjudication, for every set of accounts, tokens,  *)
(* configurations and requests, and every challenge period.                *)
(***************************************************************************)
EXTENDS OracleRefinement, OracleProofs

\* Every challenge period of a request, and of its windows, is MinPeriod at least.
LongEnough(dr) ==
  /\ MinPeriod <= dr.initial_challenge_period
  /\ MinPeriod <= dr.request_config.default_challenge_window_duration
  /\ \A r \in DOMAIN dr.resolution_windows :
       dr.resolution_windows[r].start_time + MinPeriod <= dr.resolution_windows[r].end_time

PeriodsKept == \A id \in DOMAIN data_requests : LongEnough(data_requests[id])

(***************************************************************************)
(* The invariant the simulation needs besides Inv: the contract is only    *)
(* given known configurations, and their periods reach every deadline.     *)
(***************************************************************************)
TimedInv == Inv /\ configs \in Seq(Configs) /\ PeriodsKept

---------------------------------------------------------------------------
(***************************************************************************)
(* One request                                                             *)
(***************************************************************************)

(***************************************************************************)
(* The period of a new window reaches its deadline.                        *)
(***************************************************************************)
LEMMA NewWindowLongEnough ==
  ASSUME NEW prev_bond \in Nat, NEW period \in Nat, NEW start \in Nat, MinPeriod <= period
  PROVE  LET w == NewWindow(prev_bond, period, start)
         IN  w.start_time + MinPeriod <= w.end_time /\ w.start_time = start
BY MinPeriodAssumption DEF NewWindow, EmptyWindow

(***************************************************************************)
(* Withdrawals, verdicts and claims leave the windows where they are, so   *)
(* deadlines stay and the case changes in its verdict at most.             *)
(***************************************************************************)
LEMMA SameWindowsLongEnough ==
  ASSUME NEW dr \in Request, NEW e \in Request, SameTerms(e, dr), SameWindows(e, dr),
         LongEnough(dr)
  PROVE  LongEnough(e)
BY RequestFields DEF LongEnough, SameTerms, SameWindows, SameBond

\* The case a request has after such a step.
LEMMA SameWindowsSameCase ==
  ASSUME NEW dr \in Request, NEW e \in Request, Ladder(dr), SameTerms(e, dr), SameWindows(e, dr)
  PROVE  CaseOf(e) = [CaseOf(dr) EXCEPT !.verdict = e.finalized_outcome]
<1> DEFINE n == Rounds(dr)
<1>1. /\ n \in Nat
      /\ Rounds(e) = n
      /\ e.final_arbitrator_triggered = dr.final_arbitrator_triggered
      /\ e.provider = dr.provider
  BY RequestFields DEF SameWindows, SameTerms
<1>2. \A r \in 1 .. n :
        /\ e.resolution_windows[r].bonded_outcome = dr.resolution_windows[r].bonded_outcome
        /\ e.resolution_windows[r].start_time = dr.resolution_windows[r].start_time
  BY DEF SameWindows, SameBond
<1>3. dr.final_arbitrator_triggered => n \in 1 .. n
  BY <1>1 DEF Ladder, ArbitratorEndsLadder
<1> HIDE DEF n
<1>4. n >= 2 => n \in 1 .. n /\ n - 1 \in 1 .. n
  BY <1>1
<1>5. n = Rounds(dr)
  BY DEF n
<1>6. Standing(e) = Standing(dr)
  BY <1>1, <1>2, <1>3, <1>4, <1>5 DEF Standing, LastWindow
<1>7. StandingSince(e) = StandingSince(dr)
  BY <1>1, <1>2, <1>4, <1>5 DEF StandingSince, LastWindow
<1>8. QED
  BY <1>1, <1>6, <1>7 DEF CaseOf

(***************************************************************************)
(* The windows after a stake, seen from the ones before: the last is the   *)
(* window the stake went to, the others are as they were.                  *)
(***************************************************************************)
LEMMA StakedPosition ==
  ASSUME NEW dr \in Request, NEW s \in Stakers, NEW o \in Outcomes, NEW amount \in Nat,
         NEW t \in Nat, Ladder(dr), ~dr.final_arbitrator_triggered,
         CanStakeOnOutcome(dr, o)
  PROVE  LET w == StakedWindow(dr, s, o, amount, t)
             n == Len(WithStakedWindow(dr, w))
             k == Rounds(dr)
         IN  \/ /\ k = 0
                /\ n = 1
                /\ StakingWindow(dr, t)
                     = NewWindow(CalcResolutionBond(dr), dr.initial_challenge_period, t)
             \/ /\ k > 0
                /\ n = k
                /\ StakingWindow(dr, t) = dr.resolution_windows[k]
<1> DEFINE w == StakedWindow(dr, s, o, amount, t)
           n == Len(WithStakedWindow(dr, w))
           k == Rounds(dr)
<1>0. WindowsAfterStake(dr, w, WithStakedWindow(dr, w), o, t)
  BY StakedWindows
<1>1. CASE dr.resolution_windows = << >>
  <2>1. n = 1
    BY <1>0, <1>1 DEF WindowsAfterStake
  <2>2. k = 0
    BY <1>1 DEF Rounds
  <2>3. StakingWindow(dr, t) = NewWindow(CalcResolutionBond(dr), dr.initial_challenge_period, t)
    BY <1>1 DEF StakingWindow
  <2>4. QED
    BY <2>1, <2>2, <2>3
<1>2. CASE dr.resolution_windows # << >>
  <2>1. n = k
    BY <1>0, <1>2 DEF WindowsAfterStake
  <2>2. k > 0
    BY <1>2, RequestFields
  <2>3. StakingWindow(dr, t) = dr.resolution_windows[k]
    BY <1>2 DEF StakingWindow, LastWindow
  <2>4. QED
    BY <2>1, <2>2, <2>3
<1>3. QED
  BY <1>1, <1>2

\* The windows of a request whose last one, w, was just bonded.
WithNextWindow(dr, w, t) ==
  LET windows == WithStakedWindow(dr, w)
  IN  Append(windows, NextWindow(dr, w, Len(windows), t))

\* What a stake that turns dr into e did: it left the outcome open, or bonded it and
\* called in the arbitrator, or bonded it and opened the next window.
StakeEffect(e, dr, w, o, t) ==
  \/ /\ ~IsBonded(w)
     /\ e.resolution_windows = WithStakedWindow(dr, w)
     /\ e.final_arbitrator_triggered = FALSE
  \/ /\ w.bonded_outcome = o
     /\ e.resolution_windows = WithStakedWindow(dr, w)
     /\ e.final_arbitrator_triggered = TRUE
  \/ /\ w.bonded_outcome = o
     /\ e.resolution_windows = WithNextWindow(dr, w, t)
     /\ e.final_arbitrator_triggered = FALSE

(***************************************************************************)
(* ActiveDataRequest::stake has one of the three effects.                  *)
(***************************************************************************)
LEMMA StakedEffect ==
  ASSUME NEW dr \in Request, NEW s \in Stakers, NEW o \in Outcomes, NEW amount \in Nat,
         NEW t \in Nat, Ladder(dr), ~dr.final_arbitrator_triggered,
         CanStakeOnOutcome(dr, o)
  PROVE  StakeEffect(Staked(dr, s, o, amount, t), dr, StakedWindow(dr, s, o, amount, t), o, t)
<1> DEFINE w       == StakedWindow(dr, s, o, amount, t)
           windows == WithStakedWindow(dr, w)
           n       == Len(windows)
           more    == Append(windows, NextWindow(dr, w, n, t))
           e       == Staked(dr, s, o, amount, t)
<1>1. /\ windows \in Seq(Window)
      /\ n \in Nat /\ n > 0
      /\ windows[n] = w
      /\ w.bonded_outcome \in {NoOutcome, o}
      /\ \A r \in 1 .. n : windows[r] \in Window
  <2>1. WindowsAfterStake(dr, w, windows, o, t)
    BY StakedWindows
  <2> HIDE DEF w, windows
  <2>2. QED
    BY <2>1 DEF WindowsAfterStake
<1>2. w \in Window
  BY <1>1
<1>3. NextWindow(dr, w, n, t) \in Window
  <2>1. w.bond_size \in Nat /\ ChallengeDuration(dr, n) \in Nat
    BY <1>1, <1>2, RequestFields DEF Window
  <2>2. QED
    BY <2>1, NewWindowType DEF NextWindow
<1>4. more \in Seq(Window)
  BY <1>1, <1>3
<1>5. dr.final_arbitrator_triggered = FALSE
  BY RequestFields
<1>6. CASE ~IsBonded(w)
  <2>1. e = [dr EXCEPT !.resolution_windows = windows]
    BY <1>6 DEF Staked
  <2> HIDE DEF w, windows, e
  <2>2. e.resolution_windows = windows /\ e.final_arbitrator_triggered = FALSE
    BY <1>5, <2>1 DEF Request
  <2>3. QED
    BY <1>6, <2>2 DEF e, windows, w, StakeEffect
<1>7. CASE IsBonded(w) /\ InvokesFinalArbitrator(dr, w.bond_size)
  <2>1. e = [dr EXCEPT !.resolution_windows = windows, !.final_arbitrator_triggered = TRUE]
    BY <1>7 DEF Staked
  <2>2. w.bonded_outcome = o
    BY <1>1, <1>7 DEF IsBonded
  <2> HIDE DEF w, windows, e
  <2>3. e.resolution_windows = windows /\ e.final_arbitrator_triggered = TRUE
    BY <1>1, <2>1, ChangedRequest
  <2>4. QED
    BY <2>2, <2>3 DEF e, windows, w, StakeEffect
<1>8. CASE IsBonded(w) /\ ~InvokesFinalArbitrator(dr, w.bond_size)
  <2>1. e = [dr EXCEPT !.resolution_windows = more]
    BY <1>8 DEF Staked
  <2>2. w.bonded_outcome = o
    BY <1>1, <1>8 DEF IsBonded
  <2> HIDE DEF w, windows, e, more, n
  <2>3. e.resolution_windows = more /\ e.final_arbitrator_triggered = FALSE
    BY <1>5, <2>1 DEF Request
  <2>4. QED
    BY <2>2, <2>3 DEF e, more, n, windows, w, WithNextWindow, StakeEffect
<1>9. QED
  BY <1>6, <1>7, <1>8

(***************************************************************************)
(* A stake keeps every deadline MinPeriod away from its start.             *)
(***************************************************************************)
LEMMA StakedLongEnough ==
  ASSUME NEW dr \in Request, NEW s \in Stakers, NEW o \in Outcomes, NEW amount \in Nat,
         NEW t \in Nat, Ladder(dr), LongEnough(dr), ~dr.final_arbitrator_triggered,
         CanStakeOnOutcome(dr, o)
  PROVE  LongEnough(Staked(dr, s, o, amount, t))
<1> DEFINE w       == StakedWindow(dr, s, o, amount, t)
           windows == WithStakedWindow(dr, w)
           n       == Len(windows)
           next    == NextWindow(dr, w, n, t)
           more    == Append(windows, next)
           e       == Staked(dr, s, o, amount, t)
           k       == Rounds(dr)
           InTime(v) == v.start_time + MinPeriod <= v.end_time
<1>0. WindowsAfterStake(dr, w, windows, o, t)
  BY StakedWindows
<1>1. windows \in Seq(Window) /\ n \in Nat /\ n > 0 /\ windows[n] = w
  <2> HIDE DEF w, windows
  <2>1. QED
    BY <1>0 DEF WindowsAfterStake
<1>2. /\ w.start_time = StakingWindow(dr, t).start_time
      /\ w.end_time = StakingWindow(dr, t).end_time
  <2> HIDE DEF w, windows
  <2>1. QED
    BY <1>0 DEF WindowsAfterStake
<1>3. \A r \in 1 .. n : r < n => windows[r] = dr.resolution_windows[r]
  <2> HIDE DEF w, windows
  <2>1. QED
    BY <1>0 DEF WindowsAfterStake
<1>4. \A r \in 1 .. n : windows[r] \in Window
  <2> HIDE DEF w, windows
  <2>1. QED
    BY <1>0 DEF WindowsAfterStake
<1>5. /\ k \in Nat
      /\ dr.initial_challenge_period \in Nat
      /\ ChallengeDuration(dr, n) \in Nat
  BY <1>1, RequestFields
<1>6. /\ MinPeriod <= dr.initial_challenge_period
      /\ MinPeriod <= dr.request_config.default_challenge_window_duration
      /\ \A r \in 1 .. k : InTime(dr.resolution_windows[r])
  BY RequestFields DEF LongEnough
<1>7. InTime(w)
  <2>1. CASE k = 0
    <3>1. InTime(NewWindow(CalcResolutionBond(dr), dr.initial_challenge_period, t))
      BY <1>5, <1>6, ResolutionBondType, NewWindowLongEnough
    <3>2. StakingWindow(dr, t)
            = NewWindow(CalcResolutionBond(dr), dr.initial_challenge_period, t)
      BY <2>1, StakedPosition
    <3>3. QED
      BY <1>2, <3>1, <3>2
  <2>2. CASE k > 0
    <3>1. StakingWindow(dr, t) = dr.resolution_windows[k]
      BY <2>2, StakedPosition
    <3>2. k \in 1 .. k
      BY <1>5, <2>2
    <3>3. QED
      BY <1>2, <1>6, <3>1, <3>2
  <2>3. QED
    BY <1>5, <2>1, <2>2
<1>8. InTime(next) /\ next \in Window
  <2>0. w \in Window
    BY <1>1, <1>4
  <2>1. w.bond_size \in Nat
    BY <2>0 DEF Window
  <2>2. MinPeriod <= ChallengeDuration(dr, n)
    BY <1>6 DEF ChallengeDuration
  <2>3. QED
    BY <1>5, <2>1, <2>2, NewWindowType, NewWindowLongEnough DEF NextWindow
<1>9. n = k \/ n = 1
  BY StakedPosition
<1>10. SameTerms(e, dr)
  BY StakedLadder
<1>11. StakeEffect(e, dr, w, o, t)
  BY StakedEffect
<1> HIDE DEF w, windows, next, e, k, InTime
<1>12. \A r \in DOMAIN windows : InTime(windows[r])
  <2>1. \A r \in DOMAIN windows : r \in 1 .. n
    BY <1>1
  <2> HIDE DEF n
  <2>2. \A r \in 1 .. n : r = n \/ (r < n /\ r \in 1 .. k)
    BY <1>1, <1>5, <1>9
  <2>3. QED
    BY <1>1, <1>3, <1>6, <1>7, <2>1, <2>2
<1>13. \A r \in DOMAIN more : InTime(more[r])
  <2>1. \A r \in DOMAIN more : r = n + 1 \/ r \in DOMAIN windows
    BY <1>1, <1>8
  <2>2. more[n + 1] = next /\ \A r \in DOMAIN windows : more[r] = windows[r]
    BY <1>1, <1>8
  <2> HIDE DEF n, more
  <2>3. QED
    BY <1>8, <1>12, <2>1, <2>2
<1>14. WithNextWindow(dr, w, t) = more
  BY DEF WithNextWindow, more, next, n, windows
<1>15. \A r \in DOMAIN e.resolution_windows : InTime(e.resolution_windows[r])
  <2>1. e.resolution_windows = windows \/ e.resolution_windows = WithNextWindow(dr, w, t)
    BY <1>11 DEF StakeEffect, windows
  <2>2. QED
    BY <1>12, <1>13, <1>14, <2>1
<1>16. QED
  BY <1>6, <1>10, <1>15 DEF LongEnough, SameTerms, InTime, e

(***************************************************************************)
(* A stake replaces the outcome that stands when it bonds the outcome it   *)
(* is on, which is another one, and else leaves it.                        *)
(***************************************************************************)
LEMMA StakedStanding ==
  ASSUME NEW dr \in Request, NEW s \in Stakers, NEW o \in Outcomes, NEW amount \in Nat,
         NEW t \in Nat, Ladder(dr), ~dr.final_arbitrator_triggered,
         CanStakeOnOutcome(dr, o)
  PROVE  LET e == Staked(dr, s, o, amount, t)
         IN  /\ o # Standing(dr)
             /\ \/ /\ Standing(e) = Standing(dr)
                   /\ StandingSince(e) = StandingSince(dr)
                   /\ e.final_arbitrator_triggered = FALSE
                \/ /\ Standing(e) = o
                   /\ StandingSince(e) = t
                   /\ e.final_arbitrator_triggered = FALSE
                \/ /\ Standing(e) = o
                   /\ StandingSince(e) = 0
                   /\ e.final_arbitrator_triggered = TRUE
<1> DEFINE w       == StakedWindow(dr, s, o, amount, t)
           windows == WithStakedWindow(dr, w)
           n       == Len(windows)
           next    == NextWindow(dr, w, n, t)
           more    == Append(windows, next)
           e       == Staked(dr, s, o, amount, t)
           k       == Rounds(dr)
<1>0. WindowsAfterStake(dr, w, windows, o, t)
  BY StakedWindows
<1>1. windows \in Seq(Window) /\ n \in Nat /\ n > 0 /\ windows[n] = w
  <2> HIDE DEF w, windows
  <2>1. QED
    BY <1>0 DEF WindowsAfterStake
<1>2. w.start_time = StakingWindow(dr, t).start_time
  <2> HIDE DEF w, windows
  <2>1. QED
    BY <1>0 DEF WindowsAfterStake
<1>3. \A r \in 1 .. n : r < n => windows[r] = dr.resolution_windows[r]
  <2> HIDE DEF w, windows
  <2>1. QED
    BY <1>0 DEF WindowsAfterStake
<1>4. \A r \in 1 .. n : windows[r] \in Window
  <2> HIDE DEF w, windows
  <2>1. QED
    BY <1>0 DEF WindowsAfterStake
<1>5. k \in Nat
  BY RequestFields
<1>6. \/ k = 0 /\ n = 1
      \/ k > 0 /\ n = k /\ StakingWindow(dr, t) = dr.resolution_windows[k]
  BY StakedPosition
<1>7. o # Standing(dr)
  <2>1. dr.final_arbitrator_triggered = FALSE
    BY RequestFields
  <2>2. k >= 2 => o # dr.resolution_windows[k - 1].bonded_outcome
    BY <1>5 DEF CanStakeOnOutcome
  <2>3. o # NoOutcome
    BY WindowAssumption
  <2>4. Standing(dr) = IF k >= 2 THEN dr.resolution_windows[k - 1].bonded_outcome ELSE NoOutcome
    BY <2>1 DEF Standing
  <2> HIDE DEF k
  <2>5. QED
    BY <2>2, <2>3, <2>4
<1>8. /\ next.start_time = t
      /\ next \in Window
  <2>1. w \in Window
    BY <1>1, <1>4
  <2> HIDE DEF w, windows
  <2>2. w.bond_size \in Nat /\ ChallengeDuration(dr, n) \in Nat
    BY <1>1, <2>1, RequestFields DEF Window
  <2>3. next \in Window
    BY <2>2, NewWindowType DEF NextWindow
  <2>4. next.start_time = t
    BY DEF NextWindow, NewWindow, EmptyWindow
  <2>5. QED
    BY <2>3, <2>4
<1>9. StakeEffect(e, dr, w, o, t)
  BY StakedEffect
<1> HIDE DEF w, windows, next, e
<1>10. CASE /\ e.resolution_windows = windows
           /\ e.final_arbitrator_triggered = FALSE
  <2>1. Rounds(e) = n
    BY <1>10 DEF Rounds
  <2> HIDE DEF n, k
  <2>2. CASE k = 0 /\ n = 1
    <3>1. Standing(dr) = NoOutcome /\ StandingSince(dr) = 0
      BY <2>2 DEF Standing, StandingSince, k
    <3>2. Standing(e) = NoOutcome /\ StandingSince(e) = 0
      BY <1>10, <2>1, <2>2 DEF Standing, StandingSince
    <3>3. QED
      BY <1>7, <1>10, <3>1, <3>2 DEF e
  <2>3. CASE k > 0 /\ n = k /\ StakingWindow(dr, t) = dr.resolution_windows[k]
    <3>1. n >= 2 => windows[n - 1] = dr.resolution_windows[k - 1]
      BY <1>1, <1>3, <2>3
    <3>2. windows[n].start_time = dr.resolution_windows[k].start_time
      BY <1>1, <1>2, <2>3
    <3>3. Standing(e) = Standing(dr)
      BY <1>10, <2>1, <2>3, <3>1 DEF Standing, k
    <3>4. StandingSince(e) = StandingSince(dr)
      BY <1>10, <2>1, <2>3, <3>2 DEF StandingSince, LastWindow, k
    <3>5. QED
      BY <1>7, <1>10, <3>3, <3>4 DEF e
  <2>4. QED
    BY <1>6, <2>2, <2>3
<1>11. CASE /\ w.bonded_outcome = o
            /\ e.resolution_windows = windows
            /\ e.final_arbitrator_triggered = TRUE
  <2>1. Rounds(e) = n
    BY <1>11 DEF Rounds
  <2>2. Standing(e) = o /\ StandingSince(e) = 0
    BY <1>1, <1>11, <2>1 DEF Standing, StandingSince, LastWindow
  <2>3. QED
    BY <1>7, <1>11, <2>2 DEF e
<1>12. CASE /\ w.bonded_outcome = o
            /\ e.resolution_windows = WithNextWindow(dr, w, t)
            /\ e.final_arbitrator_triggered = FALSE
  <2>1. e.resolution_windows = more
    BY <1>12 DEF WithNextWindow, more, next, n, windows
  <2>2. Len(more) = n + 1 /\ more[n + 1] = next /\ more[n] = w
    BY <1>1, <1>8
  <2>3. Rounds(e) = n + 1
    BY <2>1, <2>2 DEF Rounds
  <2> HIDE DEF more, n
  <2>4. n + 1 >= 2 /\ (n + 1) - 1 = n
    BY <1>1
  <2>5. Standing(e) = o
    BY <1>12, <2>1, <2>2, <2>3, <2>4 DEF Standing
  <2>6. StandingSince(e) = t
    BY <1>8, <1>12, <2>1, <2>2, <2>3, <2>4 DEF StandingSince, LastWindow
  <2>7. QED
    BY <1>7, <1>12, <2>5, <2>6 DEF e
<1>13. QED
  BY <1>9, <1>10, <1>11, <1>12 DEF StakeEffect, windows

---------------------------------------------------------------------------
(***************************************************************************)
(* Cases                                                                   *)
(***************************************************************************)

\* A case, by its fields.
CaseWith(standing, since, escalated, appointed, verdict) ==
  [ standing  |-> standing,
    since     |-> since,
    escalated |-> escalated,
    appointed |-> appointed,
    verdict   |-> verdict ]

\* A case with one field changed.
WithStanding(c, x)  == [c EXCEPT !.standing = x]
WithSince(c, x)     == [c EXCEPT !.since = x]
WithEscalated(c, x) == [c EXCEPT !.escalated = x]

(***************************************************************************)
(* What changing these fields of a case gives.                             *)
(***************************************************************************)
LEMMA CaseUpdates ==
  ASSUME NEW a, NEW b, NEW c, NEW d, NEW v, NEW o, NEW t, NEW x
  PROVE  /\ WithSince(WithStanding(CaseWith(a, b, c, d, v), o), t) = CaseWith(o, t, c, d, v)
         /\ WithEscalated(CaseWith(a, b, c, d, v), x) = CaseWith(a, b, x, d, v)
<1>1. WithStanding(CaseWith(a, b, c, d, v), o) = CaseWith(o, b, c, d, v)
  BY DEF CaseWith, WithStanding
<1>2. WithSince(CaseWith(o, b, c, d, v), t) = CaseWith(o, t, c, d, v)
  BY DEF CaseWith, WithSince
<1>3. WithEscalated(CaseWith(a, b, c, d, v), x) = CaseWith(a, b, x, d, v)
  BY DEF CaseWith, WithEscalated
<1>4. QED
  BY <1>1, <1>2, <1>3, Zenon

(***************************************************************************)
(* There is one case per request, and replacing one replaces the other.    *)
(***************************************************************************)
LEMMA CasesOfRequests ==
  ASSUME data_requests \in Seq(Request)
  PROVE  /\ DOMAIN Cases = DOMAIN data_requests
         /\ \A id \in DOMAIN data_requests : Cases[id] = CaseOf(data_requests[id])
BY DEF Cases

\* The same after a step that replaces one request.
LEMMA CasesReplaced ==
  ASSUME data_requests \in Seq(Request), NEW id \in DOMAIN data_requests, NEW e,
         data_requests' = [data_requests EXCEPT ![id] = e]
  PROVE  Cases' = [Cases EXCEPT ![id] = CaseOf(e)]
<1>1. DOMAIN data_requests' = DOMAIN data_requests
  OBVIOUS
<1>2. \A j \in DOMAIN data_requests :
        data_requests'[j] = IF j = id THEN e ELSE data_requests[j]
  OBVIOUS
<1>3. Cases' = [j \in DOMAIN data_requests |-> CaseOf(data_requests'[j])]
  BY <1>1 DEF Cases
<1>4. QED
  BY <1>2, <1>3 DEF Cases

(***************************************************************************)
(* The fields of the case of a request.                                    *)
(***************************************************************************)
LEMMA CaseFields ==
  ASSUME NEW dr \in Request
  PROVE  /\ CaseOf(dr) = CaseWith(Standing(dr), StandingSince(dr), dr.final_arbitrator_triggered,
                                  dr.provider # NoProvider, dr.finalized_outcome)
         /\ CaseOf(dr).standing = Standing(dr)
         /\ CaseOf(dr).since = StandingSince(dr)
         /\ CaseOf(dr).escalated <=> dr.final_arbitrator_triggered
         /\ CaseOf(dr).appointed <=> dr.provider # NoProvider
         /\ CaseOf(dr).verdict = dr.finalized_outcome
BY DEF CaseOf, CaseWith

(***************************************************************************)
(* A step that leaves every case, and the time, as they are is a stutter   *)
(* of Adjudication.                                                        *)
(***************************************************************************)
LEMMA StutterCase ==
  ASSUME data_requests \in Seq(Request), NEW id \in DOMAIN data_requests, NEW e,
         CaseOf(e) = CaseOf(data_requests[id]),
         data_requests' = [data_requests EXCEPT ![id] = e]
  PROVE  Cases' = Cases
<1>1. Cases' = [Cases EXCEPT ![id] = CaseOf(e)]
  BY CasesReplaced
<1>2. Cases[id] = CaseOf(e)
  BY CasesOfRequests
<1>3. QED
  BY <1>1, <1>2 DEF Cases

---------------------------------------------------------------------------
(***************************************************************************)
(* Each handler takes a step of Adjudication, or none, and keeps the       *)
(* deadlines                                                               *)
(***************************************************************************)

(***************************************************************************)
(* Replacing a request keeps the deadlines of the others.                  *)
(***************************************************************************)
LEMMA PeriodsReplaced ==
  ASSUME TimedInv, NEW id \in DOMAIN data_requests, NEW e, LongEnough(e),
         data_requests' = [data_requests EXCEPT ![id] = e]
  PROVE  PeriodsKept'
<1>1. DOMAIN data_requests' = DOMAIN data_requests
  OBVIOUS
<1>2. \A j \in DOMAIN data_requests :
        data_requests'[j] = IF j = id THEN e ELSE data_requests[j]
  OBVIOUS
<1>3. QED
  BY <1>1, <1>2 DEF TimedInv, PeriodsKept

(***************************************************************************)
(* What TimedInv says of one request.                                      *)
(***************************************************************************)
LEMMA TimedFacts ==
  ASSUME TimedInv, NEW id \in DOMAIN data_requests
  PROVE  /\ data_requests \in Seq(Request)
         /\ data_requests[id] \in Request
         /\ Ladder(data_requests[id])
         /\ LongEnough(data_requests[id])
         /\ Cases[id] = CaseOf(data_requests[id])
         /\ id \in DOMAIN Cases
         /\ now \in Nat
<1>1. Inv /\ data_requests \in Seq(Request) /\ now \in Nat
  BY DEF TimedInv, Inv, TypeOK
<1>2. data_requests[id] \in Request /\ Ladder(data_requests[id])
  BY <1>1, RequestFacts
<1>3. LongEnough(data_requests[id])
  BY DEF TimedInv, PeriodsKept
<1>4. QED
  BY <1>1, <1>2, <1>3, CasesOfRequests

(***************************************************************************)
(* Withdrawals and claims are none of a case's business.                   *)
(***************************************************************************)
LEMMA SameWindowsStutter ==
  ASSUME TimedInv, NEW id \in DOMAIN data_requests, NEW e \in Request,
         SameTerms(e, data_requests[id]), SameWindows(e, data_requests[id]),
         e.finalized_outcome = data_requests[id].finalized_outcome,
         data_requests' = [data_requests EXCEPT ![id] = e]
  PROVE  PeriodsKept' /\ Cases' = Cases
<1> DEFINE dr == data_requests[id]
<1>1. dr \in Request /\ Ladder(dr) /\ LongEnough(dr) /\ data_requests \in Seq(Request)
  BY TimedFacts
<1>2. LongEnough(e)
  BY <1>1, SameWindowsLongEnough
<1>3. CaseOf(e) = CaseOf(dr)
  <2>1. CaseOf(e) = [CaseOf(dr) EXCEPT !.verdict = dr.finalized_outcome]
    BY <1>1, SameWindowsSameCase
  <2>2. QED
    BY <2>1 DEF CaseOf
<1>4. QED
  BY <1>1, <1>2, <1>3, PeriodsReplaced, StutterCase

(***************************************************************************)
(* A verdict settles the case, or rules on it, and does nothing else.      *)
(***************************************************************************)
LEMMA DecideVerdict ==
  ASSUME TimedInv, NEW id \in DOMAIN data_requests, NEW outcome \in Outcomes,
         Decide(id, outcome)
  PROVE  /\ PeriodsKept'
         /\ Adj!IsOpen(Cases[id])
         /\ Cases' = [Cases EXCEPT ![id].verdict = outcome]
<1> DEFINE dr == data_requests[id]
           e  == Finalized(dr, outcome)
<1>1. dr \in Request /\ Ladder(dr) /\ LongEnough(dr) /\ data_requests \in Seq(Request)
  BY TimedFacts
<1>2. /\ e \in Request
      /\ SameTerms(e, dr)
      /\ SameWindows(e, dr)
      /\ e.finalized_outcome = outcome
  BY <1>1, FinalizedLadder
<1>3. data_requests' = [data_requests EXCEPT ![id] = e] /\ IsActive(dr)
  BY DEF Decide
<1> HIDE DEF e
<1>4. PeriodsKept'
  BY <1>1, <1>2, <1>3, SameWindowsLongEnough, PeriodsReplaced
<1>5. Adj!IsOpen(Cases[id])
  BY <1>1, <1>3, TimedFacts, CaseFields DEF Adj!IsOpen, IsActive
<1>6. CaseOf(e) = [CaseOf(dr) EXCEPT !.verdict = outcome]
  BY <1>1, <1>2, SameWindowsSameCase
<1>7. Cases' = [Cases EXCEPT ![id] = CaseOf(e)]
  BY <1>1, <1>3, CasesReplaced
<1>8. Cases[id] = CaseOf(dr)
  BY TimedFacts
<1>9. [Cases EXCEPT ![id].verdict = outcome]
        = [Cases EXCEPT ![id] = [Cases[id] EXCEPT !.verdict = outcome]]
  BY Zenon
<1>10. QED
  BY <1>4, <1>5, <1>6, <1>7, <1>8, <1>9, Zenon

(***************************************************************************)
(* dr_finalize settles the case: the window above the standing outcome has *)
(* timed out, and it lasted a challenge period.                            *)
(***************************************************************************)
LEMMA DrFinalizeSettles ==
  ASSUME TimedInv, NEW id \in DOMAIN data_requests, NEW succeeds \in TransferResults,
         DrFinalize(id, succeeds)
  PROVE  PeriodsKept' /\ Adj!Settle(id)
<1> DEFINE dr == data_requests[id]
           k  == Rounds(dr)
<1>1. dr \in Request /\ Ladder(dr) /\ LongEnough(dr) /\ Cases[id] = CaseOf(dr) /\ now \in Nat
  BY TimedFacts
<1>2. /\ k >= 2
      /\ IsBonded(dr.resolution_windows[k - 1])
      /\ ~dr.final_arbitrator_triggered
      /\ now >= dr.resolution_windows[k].end_time
      /\ Decide(id, FinalOutcome(dr))
  BY DEF DrFinalize, HasFinalOutcome, CanFinalize, LastWindow
<1>3. /\ k \in Nat
      /\ DOMAIN dr.resolution_windows = 1 .. k
      /\ \A r \in 1 .. k : dr.resolution_windows[r] \in Window
  BY <1>1, RequestFields
<1>4. k \in 1 .. k /\ k - 1 \in 1 .. k
  BY <1>2, <1>3
<1>5. FinalOutcome(dr) \in Outcomes
  <2>1. dr.resolution_windows[k - 1] \in Window
    BY <1>3, <1>4
  <2>2. QED
    BY <1>2, <2>1 DEF FinalOutcome, IsBonded, Window
<1>6. /\ Standing(dr) = FinalOutcome(dr)
      /\ StandingSince(dr) = dr.resolution_windows[k].start_time
  BY <1>2 DEF Standing, StandingSince, FinalOutcome, LastWindow
<1>7. now >= StandingSince(dr) + MinPeriod
  <2>1. /\ dr.resolution_windows[k].start_time \in Nat
        /\ dr.resolution_windows[k].end_time \in Nat
    BY <1>3, <1>4 DEF Window
  <2>2. dr.resolution_windows[k].start_time + MinPeriod <= dr.resolution_windows[k].end_time
    BY <1>1, <1>3, <1>4 DEF LongEnough
  <2>3. QED
    BY <1>1, <1>2, <1>6, <2>1, <2>2, MinPeriodAssumption
<1>8. /\ PeriodsKept'
      /\ Adj!IsOpen(Cases[id])
      /\ Cases' = [Cases EXCEPT ![id].verdict = FinalOutcome(dr)]
  BY <1>2, <1>5, DecideVerdict
<1>9. /\ Cases[id].standing = FinalOutcome(dr)
      /\ Cases[id].since = StandingSince(dr)
      /\ ~Cases[id].escalated
  BY <1>1, <1>2, <1>6, CaseFields
<1> HIDE DEF dr, k
<1>10. QED
  BY <1>5, <1>7, <1>8, <1>9, WindowAssumption DEF Adj!Settle

\* dr_finalize_by_provider rules on a case whose requester appointed the caller.
LEMMA DrFinalizeByProviderRules ==
  ASSUME TimedInv, NEW caller \in Accounts, NEW id \in DOMAIN data_requests,
         NEW outcome \in Outcomes, DrFinalizeByProvider(caller, id, outcome)
  PROVE  PeriodsKept' /\ Adj!Rule(id, outcome)
<1>1. /\ data_requests[id].provider # NoProvider
      /\ Decide(id, outcome)
  BY RequestAssumption DEF DrFinalizeByProvider
<1>2. Cases[id].appointed
  BY <1>1, TimedFacts, CaseFields
<1>3. QED
  BY <1>1, <1>2, DecideVerdict DEF Adj!Rule

\* dr_final_arbitrator_finalize rules on a case that was escalated.
LEMMA DrFinalArbitratorFinalizeRules ==
  ASSUME TimedInv, NEW caller \in Accounts, NEW id \in DOMAIN data_requests,
         NEW outcome \in Outcomes, NEW succeeds \in TransferResults,
         DrFinalArbitratorFinalize(caller, id, outcome, succeeds)
  PROVE  PeriodsKept' /\ Adj!Rule(id, outcome)
<1>1. /\ data_requests[id].final_arbitrator_triggered
      /\ Decide(id, outcome)
  BY DEF DrFinalArbitratorFinalize, MayArbitrate
<1>2. Cases[id].escalated
  BY <1>1, TimedFacts, CaseFields
<1>3. QED
  BY <1>1, <1>2, DecideVerdict DEF Adj!Rule

(***************************************************************************)
(* dr_unstake and dr_claim stutter.                                        *)
(***************************************************************************)
LEMMA DrUnstakeStutters ==
  ASSUME TimedInv, NEW sender \in Stakers, NEW id \in DOMAIN data_requests,
         NEW round \in DOMAIN data_requests[id].resolution_windows,
         NEW outcome \in Outcomes, NEW amount \in StakeAmounts, NEW succeeds \in TransferResults,
         DrUnstake(sender, id, round, outcome, amount, succeeds)
  PROVE  PeriodsKept' /\ Cases' = Cases
<1> DEFINE dr == data_requests[id]
           e  == Unstaked(dr, sender, round, outcome, amount)
<1>1. amount \in Nat
  BY OracleAssumption
<1>2. /\ CanUnstake(dr.resolution_windows[round], sender, outcome, amount)
      /\ data_requests' = [data_requests EXCEPT ![id] = e]
  BY DEF DrUnstake
<1>3. dr \in Request /\ Ladder(dr)
  BY TimedFacts
<1>4. /\ e \in Request
      /\ SameTerms(e, dr)
      /\ SameWindows(e, dr)
      /\ e.finalized_outcome = dr.finalized_outcome
  BY <1>1, <1>2, <1>3, UnstakedLadder
<1> HIDE DEF e
<1>5. QED
  BY <1>2, <1>4, SameWindowsStutter

\* dr_claim leaves the case as it is too.
LEMMA DrClaimStutters ==
  ASSUME TimedInv, NEW account \in Stakers, NEW id \in DOMAIN data_requests,
         NEW stake_succeeds \in TransferResults, NEW payment_succeeds \in TransferResults,
         DrClaim(account, id, stake_succeeds, payment_succeeds)
  PROVE  PeriodsKept' /\ Cases' = Cases
<1> DEFINE dr == data_requests[id]
           e  == Claimed(dr, account)
<1>1. ~IsActive(dr) /\ data_requests' = [data_requests EXCEPT ![id] = e]
  BY DEF DrClaim
<1>2. dr \in Request /\ Ladder(dr)
  BY TimedFacts
<1>3. /\ e \in Request
      /\ SameTerms(e, dr)
      /\ SameWindows(e, dr)
      /\ e.finalized_outcome = dr.finalized_outcome
  BY <1>1, <1>2, ClaimedLadder
<1> HIDE DEF e
<1>4. QED
  BY <1>1, <1>3, SameWindowsStutter

(***************************************************************************)
(* dr_stake asserts another outcome, escalates the case for it, or only    *)
(* adds to a bond.                                                         *)
(***************************************************************************)
LEMMA DrStakeAsserts ==
  ASSUME TimedInv, NEW token \in Tokens, NEW sender \in Stakers, NEW amount \in StakeAmounts,
         NEW id \in DOMAIN data_requests, NEW outcome \in Outcomes,
         DrStake(token, sender, amount, id, outcome)
  PROVE  PeriodsKept' /\ (Cases' = Cases \/ Adj!Assert(id, outcome) \/ Adj!Escalate(id, outcome))
<1> DEFINE dr == data_requests[id]
           e  == Staked(dr, sender, outcome, amount, now)
           p  == dr.provider # NoProvider
           v  == dr.finalized_outcome
<1>1. amount \in Nat
  BY OracleAssumption
<1>2. /\ IsActive(dr)
      /\ ~dr.final_arbitrator_triggered
      /\ CanStakeOnOutcome(dr, outcome)
      /\ data_requests' = [data_requests EXCEPT ![id] = e]
  BY DEF DrStake
<1>3. /\ data_requests \in Seq(Request)
      /\ dr \in Request
      /\ Ladder(dr)
      /\ LongEnough(dr)
      /\ Cases[id] = CaseOf(dr)
      /\ now \in Nat
  BY TimedFacts
<1>4. e \in Request /\ SameTerms(e, dr) /\ e.finalized_outcome = v
  BY <1>1, <1>2, <1>3, StakedLadder
<1>5. LongEnough(e)
  BY <1>1, <1>2, <1>3, StakedLongEnough
<1>6. /\ outcome # Standing(dr)
      /\ \/ /\ Standing(e) = Standing(dr)
            /\ StandingSince(e) = StandingSince(dr)
            /\ e.final_arbitrator_triggered = FALSE
         \/ /\ Standing(e) = outcome
            /\ StandingSince(e) = now
            /\ e.final_arbitrator_triggered = FALSE
         \/ /\ Standing(e) = outcome
            /\ StandingSince(e) = 0
            /\ e.final_arbitrator_triggered = TRUE
  BY <1>1, <1>2, <1>3, StakedStanding
<1> HIDE DEF e
<1>7. PeriodsKept'
  BY <1>2, <1>5, PeriodsReplaced
<1>8. Cases' = [Cases EXCEPT ![id] = CaseOf(e)]
  BY <1>2, <1>3, CasesReplaced
<1>9. e.provider = dr.provider
  BY <1>4 DEF SameTerms
<1>10. /\ CaseOf(dr) = CaseWith(Standing(dr), StandingSince(dr), dr.final_arbitrator_triggered, p, v)
       /\ CaseOf(e) = CaseWith(Standing(e), StandingSince(e), e.final_arbitrator_triggered, p, v)
  BY <1>3, <1>4, <1>9, CaseFields, Zenon
<1>11. dr.final_arbitrator_triggered = FALSE
  BY <1>2, <1>3, RequestFields
<1>12. /\ Adj!IsOpen(Cases[id])
       /\ ~Cases[id].escalated
       /\ outcome # Cases[id].standing
  BY <1>2, <1>3, <1>6, CaseFields DEF Adj!IsOpen, IsActive
<1>13. Cases[id] = CaseWith(Standing(dr), StandingSince(dr), FALSE, p, v)
  BY <1>3, <1>10, <1>11, Zenon
<1>14. \A t : /\ WithSince(WithStanding(Cases[id], outcome), t) = CaseWith(outcome, t, FALSE, p, v)
              /\ WithEscalated(CaseWith(outcome, t, FALSE, p, v), TRUE)
                   = CaseWith(outcome, t, TRUE, p, v)
  <2> HIDE DEF p, v
  <2>1. TAKE t
  <2>2. \A c : WithSince(WithStanding(CaseWith(Standing(dr), StandingSince(dr), c, p, v), outcome), t)
                = CaseWith(outcome, t, c, p, v)
    BY CaseUpdates
  <2>3. \A c, x : WithEscalated(CaseWith(outcome, t, c, p, v), x) = CaseWith(outcome, t, x, p, v)
    BY CaseUpdates
  <2>4. WithSince(WithStanding(CaseWith(Standing(dr), StandingSince(dr), FALSE, p, v), outcome), t)
          = CaseWith(outcome, t, FALSE, p, v)
    BY <2>2, Zenon
  <2>5. WithEscalated(CaseWith(outcome, t, FALSE, p, v), TRUE) = CaseWith(outcome, t, TRUE, p, v)
    BY <2>3, Zenon
  <2>6. QED
    BY <1>13, <2>4, <2>5, Zenon
<1>15. CASE /\ Standing(e) = Standing(dr)
            /\ StandingSince(e) = StandingSince(dr)
            /\ e.final_arbitrator_triggered = FALSE
  <2>1. CaseOf(e) = CaseOf(dr)
    BY <1>10, <1>11, <1>15, Zenon
  <2>2. Cases' = Cases
    BY <1>2, <1>3, <2>1, StutterCase
  <2>3. QED
    BY <1>7, <2>2
<1>16. CASE /\ Standing(e) = outcome
            /\ StandingSince(e) = now
            /\ e.final_arbitrator_triggered = FALSE
  <2>1. CaseOf(e) = CaseWith(outcome, now, FALSE, p, v)
    BY <1>10, <1>16, Zenon
  <2> HIDE DEF dr, p, v
  <2>2. [Cases EXCEPT ![id].standing = outcome, ![id].since = now]
          = [Cases EXCEPT ![id] = CaseWith(outcome, now, FALSE, p, v)]
    <3>1. WithSince(WithStanding(Cases[id], outcome), now) = CaseWith(outcome, now, FALSE, p, v)
      BY <1>13, <1>14, Zenon
    <3>2. [Cases EXCEPT ![id].standing = outcome, ![id].since = now]
            = [Cases EXCEPT ![id] = WithSince(WithStanding(Cases[id], outcome), now)]
      BY Zenon DEF WithStanding, WithSince
    <3>3. QED
      BY <3>1, <3>2, Zenon
  <2>3. Cases' = [Cases EXCEPT ![id].standing = outcome, ![id].since = now]
    BY <1>8, <2>1, <2>2, Zenon
  <2>4. Adj!Assert(id, outcome)
    BY <1>12, <2>3, Zenon DEF Adj!Assert
  <2>5. QED
    BY <1>7, <2>4, Zenon
<1>17. CASE /\ Standing(e) = outcome
            /\ StandingSince(e) = 0
            /\ e.final_arbitrator_triggered = TRUE
  <2>1. CaseOf(e) = CaseWith(outcome, 0, TRUE, p, v)
    BY <1>10, <1>17, Zenon
  <2> HIDE DEF dr, p, v
  <2>2. [Cases EXCEPT ![id].standing = outcome, ![id].since = 0, ![id].escalated = TRUE]
          = [Cases EXCEPT ![id] = CaseWith(outcome, 0, TRUE, p, v)]
    <3>1. WithEscalated(WithSince(WithStanding(Cases[id], outcome), 0), TRUE)
            = CaseWith(outcome, 0, TRUE, p, v)
      BY <1>13, <1>14, Zenon
    <3>2. [Cases EXCEPT ![id].standing = outcome, ![id].since = 0, ![id].escalated = TRUE]
            = [Cases EXCEPT ![id] =
                 WithEscalated(WithSince(WithStanding(Cases[id], outcome), 0), TRUE)]
      BY Zenon DEF WithStanding, WithSince, WithEscalated
    <3>3. QED
      BY <3>1, <3>2, Zenon
  <2>3. Cases' = [Cases EXCEPT ![id].standing = outcome, ![id].since = 0, ![id].escalated = TRUE]
    BY <1>8, <2>1, <2>2, Zenon
  <2>4. Adj!Escalate(id, outcome)
    BY <1>12, <2>3, Zenon DEF Adj!Escalate
  <2>5. QED
    BY <1>7, <2>4, Zenon
<1>18. QED
  BY <1>6, <1>15, <1>16, <1>17, Zenon

(***************************************************************************)
(* dr_new opens a case, whose windows will be long enough.                 *)
(***************************************************************************)
LEMMA DrNewOpens ==
  ASSUME TimedInv, NEW token \in Tokens, NEW sender \in Requesters, NEW amount \in Payments,
         NEW payload \in Payloads, DrNew(token, sender, amount, payload)
  PROVE  PeriodsKept' /\ Adj!Open
<1> DEFINE fee == amount - CurrentConfig.validity_bond
           dr  == NewRequest(sender, StakeMultiplier(sender), Len(configs), CurrentConfig,
                             fee, payload)
           p   == payload.provider # NoProvider
           n   == Len(data_requests)
<1>1. data_requests \in Seq(Request) /\ n \in Nat /\ DOMAIN data_requests = 1 .. n
  BY DEF TimedInv, Inv, TypeOK
<1>2. CurrentConfig \in Configs /\ CurrentConfig \in OracleConfig
  <2>1. Len(configs) \in DOMAIN configs
    BY ConfigTypes DEF TimedInv, Inv
  <2>2. CurrentConfig \in Configs
    BY <2>1 DEF TimedInv, CurrentConfig
  <2>3. QED
    BY <2>2, OracleAssumption
<1>3. data_requests' = Append(data_requests, dr)
  BY DEF DrNew
<1>4. /\ dr.initial_challenge_period = payload.challenge_period
      /\ dr.request_config.default_challenge_window_duration
           = CurrentConfig.default_challenge_window_duration
      /\ dr.resolution_windows = << >>
      /\ dr.final_arbitrator_triggered = FALSE
      /\ dr.finalized_outcome = NoOutcome
      /\ dr.provider = payload.provider
  BY DEF NewRequest
<1> HIDE DEF dr
<1>5. LongEnough(dr)
  <2>1. payload.challenge_period >= CurrentConfig.min_initial_challenge_window_duration
    BY DEF DrNew, DrValidate
  <2>2. /\ payload.challenge_period \in Nat
        /\ CurrentConfig.min_initial_challenge_window_duration \in Nat
    BY <1>2, OracleAssumption DEF Payload, OracleConfig
  <2>3. /\ MinPeriod <= CurrentConfig.min_initial_challenge_window_duration
        /\ MinPeriod <= CurrentConfig.default_challenge_window_duration
        /\ MinPeriod \in Nat
    BY <1>2, MinPeriodAssumption
  <2>4. MinPeriod <= payload.challenge_period
    BY <2>1, <2>2, <2>3
  <2>5. DOMAIN dr.resolution_windows = {}
    BY <1>4
  <2>6. QED
    BY <1>4, <2>3, <2>4, <2>5 DEF LongEnough
<1>6. CaseOf(dr) = Adj!NewCase(p)
  <2>1. Rounds(dr) = 0
    BY <1>4 DEF Rounds
  <2>2. Standing(dr) = NoOutcome /\ StandingSince(dr) = 0
    BY <1>4, <2>1 DEF Standing, StandingSince
  <2>3. CaseOf(dr) = CaseWith(Standing(dr), StandingSince(dr), dr.final_arbitrator_triggered,
                              dr.provider # NoProvider, dr.finalized_outcome)
    BY Zenon DEF CaseOf, CaseWith
  <2>4. (dr.provider # NoProvider) = p
    BY <1>4
  <2>5. CaseOf(dr) = CaseWith(NoOutcome, 0, FALSE, p, NoOutcome)
    BY <1>4, <2>2, <2>3, <2>4, Zenon
  <2>6. QED
    BY <2>5, Zenon DEF CaseWith, Adj!NewCase
<1>7. /\ DOMAIN data_requests' = 1 .. (n + 1)
      /\ data_requests'[n + 1] = dr
      /\ \A i \in 1 .. n : data_requests'[i] = data_requests[i]
  BY <1>1, <1>3
<1>8. PeriodsKept'
  <2>1. \A i \in 1 .. (n + 1) : i = n + 1 \/ i \in 1 .. n
    BY <1>1
  <2>2. QED
    BY <1>1, <1>5, <1>7, <2>1 DEF TimedInv, PeriodsKept
<1>12. dr \in Request
  <2>1. data_requests' \in Seq(Request)
    BY DrNewKeepsInv DEF TimedInv, Inv, TypeOK
  <2>2. QED
    BY <1>1, <1>7, <2>1
<1> HIDE DEF n, p
<1>9. Cases' = Append(Cases, CaseOf(dr))
  <2>1. Cases = [i \in 1 .. n |-> CaseOf(data_requests[i])]
    BY <1>1 DEF Cases
  <2>2. Cases' = [i \in 1 .. (n + 1) |-> CaseOf(data_requests'[i])]
    BY <1>7 DEF Cases
  <2> DEFINE S    == {CaseOf(r) : r \in Request}
             more == Append(Cases, CaseOf(dr))
  <2>3. /\ Cases \in [1 .. n -> S]
        /\ CaseOf(dr) \in S
        /\ \A i \in 1 .. n : Cases'[i] = Cases[i]
        /\ Cases'[n + 1] = CaseOf(dr)
    BY <1>1, <1>7, <1>12, <2>1, <2>2
  <2> HIDE DEF S
  <2>4. Cases \in Seq(S) /\ Len(Cases) = n
    BY <1>1, <2>3
  <2>5. more \in Seq(S) /\ Len(more) = n + 1
    BY <1>1, <2>3, <2>4
  <2>6. (\A i \in 1 .. n : more[i] = Cases[i]) /\ more[n + 1] = CaseOf(dr)
    BY <1>1, <2>3, <2>4
  <2> HIDE DEF more
  <2>7. \A i \in 1 .. (n + 1) : i = n + 1 \/ i \in 1 .. n
    BY <1>1
  <2>8. \A i \in 1 .. (n + 1) : Cases'[i] = more[i]
    BY <2>3, <2>6, <2>7
  <2>9. more = [i \in 1 .. (n + 1) |-> more[i]]
    BY <2>5
  <2>10. Cases' = [i \in 1 .. (n + 1) |-> Cases'[i]]
    BY <2>2
  <2>11. QED
    BY <2>8, <2>9, <2>10 DEF more
<1>10. p \in BOOLEAN
  BY DEF p
<1>11. QED
  BY <1>6, <1>8, <1>9, <1>10 DEF Adj!Open

---------------------------------------------------------------------------
(***************************************************************************)
(* The theorem                                                             *)
(***************************************************************************)

\* No handler of requests touches the configurations, or the time.
LEMMA HandlersKeepConfigs ==
  ASSUME NEW id, RequestNext(id)
  PROVE  configs' = configs /\ now' = now
BY DEF RequestNext, DrStake, DrUnstake, DrFinalize, DrFinalizeByProvider,
       DrFinalArbitratorFinalize, DrClaim

\* Only governance gives the contract another configuration, a known one.
LEMMA ConfigsKnown ==
  ASSUME TimedInv, [Next]_vars
  PROVE  configs' \in Seq(Configs)
<1>1. configs \in Seq(Configs)
  BY DEF TimedInv
<1>2. CASE configs' = configs
  BY <1>1, <1>2
<1>3. CASE \E id \in DOMAIN data_requests : RequestNext(id)
  BY <1>2, <1>3, HandlersKeepConfigs
<1>4. CASE GovernanceNext
  <2>1. CASE \E caller \in Accounts, config \in Configs : SetConfig(caller, config)
    BY <1>1, <2>1 DEF SetConfig, WithConfig
  <2>2. QED
    BY <1>2, <1>4, <2>1 DEF GovernanceNext, TogglePause, AddToWhitelist, RemoveFromWhitelist
<1>5. QED
  BY <1>2, <1>3, <1>4 DEF Next, vars, DrNew, Tick

(***************************************************************************)
(* A call about a request is one of Judge's steps, or none.                *)
(***************************************************************************)
LEMMA RequestNextSimulates ==
  ASSUME TimedInv, NEW id \in DOMAIN data_requests, RequestNext(id)
  PROVE  PeriodsKept' /\ (Cases' = Cases \/ Adj!Judge)
<1>1. id \in DOMAIN Cases
  BY TimedFacts
<1>2. \A o \in Outcomes :
        Adj!Settle(id) \/ Adj!Assert(id, o) \/ Adj!Escalate(id, o) \/ Adj!Rule(id, o) => Adj!Judge
  BY <1>1 DEF Adj!Judge
<1>3. Adj!Settle(id) => Adj!Judge
  BY <1>1 DEF Adj!Judge
<1>4. CASE \E token \in Tokens, sender \in Stakers, amount \in StakeAmounts, outcome \in Outcomes :
             DrStake(token, sender, amount, id, outcome)
  BY <1>2, <1>4, DrStakeAsserts
<1>5. CASE \E sender \in Stakers, round \in DOMAIN data_requests[id].resolution_windows,
              outcome \in Outcomes, amount \in StakeAmounts, succeeds \in TransferResults :
             DrUnstake(sender, id, round, outcome, amount, succeeds)
  BY <1>5, DrUnstakeStutters
<1>6. CASE \E succeeds \in TransferResults : DrFinalize(id, succeeds)
  BY <1>3, <1>6, DrFinalizeSettles
<1>7. CASE \E caller \in Accounts, outcome \in Outcomes : DrFinalizeByProvider(caller, id, outcome)
  BY <1>2, <1>7, DrFinalizeByProviderRules
<1>8. CASE \E caller \in Accounts, outcome \in Outcomes, succeeds \in TransferResults :
             DrFinalArbitratorFinalize(caller, id, outcome, succeeds)
  BY <1>2, <1>8, DrFinalArbitratorFinalizeRules
<1>9. CASE \E account \in Stakers, stake_succeeds, payment_succeeds \in TransferResults :
             DrClaim(account, id, stake_succeeds, payment_succeeds)
  BY <1>9, DrClaimStutters
<1>10. QED
  BY <1>4, <1>5, <1>6, <1>7, <1>8, <1>9 DEF RequestNext

(***************************************************************************)
(* Every step keeps the invariant and simulates a step of Adjudication.    *)
(***************************************************************************)
LEMMA NextSimulates ==
  ASSUME TimedInv, [Next]_vars
  PROVE  TimedInv' /\ [Adj!Next]_(Adj!vars)
<1>1. Inv' /\ configs' \in Seq(Configs)
  BY NextInv, ConfigsKnown DEF TimedInv
<1>2. SUFFICES PeriodsKept' /\ [Adj!Next]_(Adj!vars)
  BY <1>1 DEF TimedInv
<1>3. CASE \E token \in Tokens, sender \in Requesters, amount \in Payments, payload \in Payloads :
             DrNew(token, sender, amount, payload)
  <2>1. PeriodsKept' /\ Adj!Open
    BY <1>3, DrNewOpens
  <2>2. now' = now
    BY <1>3 DEF DrNew
  <2>3. QED
    BY <2>1, <2>2 DEF Adj!Next, Adj!Judge
<1>4. CASE \E id \in DOMAIN data_requests : RequestNext(id)
  <2>1. PeriodsKept' /\ (Cases' = Cases \/ Adj!Judge)
    BY <1>4, RequestNextSimulates
  <2>2. now' = now
    BY <1>4, HandlersKeepConfigs
  <2>3. QED
    BY <2>1, <2>2 DEF Adj!Next, Adj!vars
<1>5. CASE UNCHANGED << data_requests, now >>
  BY <1>5 DEF TimedInv, PeriodsKept, Cases, Adj!vars
<1>6. CASE Tick
  <2>1. data_requests' = data_requests /\ now' = now + 1 /\ now \in Nat
    BY <1>6 DEF Tick, TimedInv, Inv, TypeOK
  <2>2. PeriodsKept' /\ Cases' = Cases
    BY <2>1 DEF TimedInv, PeriodsKept, Cases
  <2>3. now' > now
    BY <2>1
  <2>4. QED
    BY <2>2, <2>3 DEF Adj!Next, Adj!Advance
<1>7. CASE GovernanceNext
  BY <1>5, <1>7 DEF GovernanceNext, SetConfig, TogglePause, AddToWhitelist, RemoveFromWhitelist
<1>8. CASE UNCHANGED vars
  BY <1>5, <1>8 DEF vars
<1>9. QED
  BY <1>3, <1>4, <1>6, <1>7, <1>8 DEF Next

\* A contract just deployed has no case.
LEMMA InitSimulates ==
  ASSUME Init
  PROVE  TimedInv /\ Adj!Init
<1>1. Inv /\ data_requests = << >> /\ now = 0
  BY InitInv DEF Init
<1>2. configs \in Seq(Configs)
  <2>1. PICK c \in Configs : configs = << c >>
    BY DEF Init
  <2>2. QED
    BY <2>1
<1>3. PeriodsKept
  BY <1>1 DEF PeriodsKept
<1>4. Cases = << >>
  BY <1>1 DEF Cases
<1>5. QED
  BY <1>1, <1>2, <1>3, <1>4 DEF TimedInv, Adj!Init

(***************************************************************************)
(* The contract implements Adjudication.                                   *)
(***************************************************************************)
THEOREM Implementation == Spec => ImplementsAdjudication
<1>1. Init => TimedInv /\ Adj!Init
  BY InitSimulates
<1>2. TimedInv /\ [Next]_vars => TimedInv' /\ [Adj!Next]_(Adj!vars)
  BY NextSimulates
<1>3. QED
  BY <1>1, <1>2, PTL DEF Spec, ImplementsAdjudication, Adj!Spec
=================================================================================
